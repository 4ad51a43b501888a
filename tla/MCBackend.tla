------------------------------ MODULE MCBackend ------------------------------
(* Backend with small sets for TLC. *)
EXTENDS Backend, TLC

Symmetry == Permutations(Runtime) \cup Permutations(Job) \cup Permutations(Key)

\* Requests are interchangeable only when no caller can lose access.
FullSymmetry == Symmetry \cup Permutations(Req)
=============================================================================
