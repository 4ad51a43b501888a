---------------------------- MODULE MCPageCache ----------------------------
(* PageCache with small sets for TLC. *)
EXTENDS PageCache, TLC

Symmetry == Permutations(Key) \cup Permutations(Job) \cup Permutations(Reader)
=============================================================================
