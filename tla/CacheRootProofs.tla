--------------------------- MODULE CacheRootProofs ---------------------------
(***************************************************************************)
(* Proofs about CacheRoot, for any number of processes and directories.    *)
(***************************************************************************)
EXTENDS CacheRoot, TLAPS

\* The parts of IInv one by one, as the proof uses them.
Held == \A p \in Proc : pc[p] \in {"clean", "run"} <=> lease = p
Made == \A d \in Dir : maker[d] \in Proc => pc[maker[d]] = "run"
Listed == \A p \in Proc : pc[p] = "clean" => Existing \subseteq todo[p]
Unlisted == \A p \in Proc : pc[p] # "clean" => todo[p] = {}
KeptOut ==
  (\E d \in Dir : maker[d] = User)
    => marker = "absent" /\ \A p \in Proc : pc[p] \in {"off", "inspect", "list"}

\* IInv is the conjunction of its named parts.
LEMMA Parts == IInv <=> TypeOK /\ Held /\ Made /\ Listed /\ Unlisted /\ StartsClean /\ KeptOut
  BY DEF IInv, Held, Made, Listed, Unlisted, KeptOut

\* The initial root satisfies the invariant.
LEMMA InitialRoot == Init => IInv
<1> SUFFICES ASSUME Init PROVE IInv
  OBVIOUS
<1> USE MakersAssumption DEF Init
<1>1. TypeOK
  BY DEF TypeOK, Step
<1>2. Held /\ Made /\ Listed /\ Unlisted /\ StartsClean /\ KeptOut
  BY DEF Held, Made, Listed, Unlisted, StartsClean, KeptOut
<1> QED
  BY <1>1, <1>2, Parts

\* The steps before the lock change the marker and a program counter only.
LEMMA EntryStep ==
  ASSUME IInv, NEW p \in Proc, NEW s \in Step,
         pc[p] \notin {"clean", "run"}, s \notin {"clean", "run"},
         pc' = [pc EXCEPT ![p] = s],
         marker' \in {"absent", "partial", "valid"},
         (\E d \in Dir : maker[d] = User) => marker' = marker /\ s \in {"off", "inspect", "list"},
         lockFile' \in BOOLEAN, UNCHANGED <<lease, maker, todo>>
  PROVE  IInv'
<1> USE MakersAssumption
<1>1. TypeOK /\ Held /\ Made /\ Listed /\ Unlisted /\ StartsClean /\ KeptOut
  BY Parts
<1>2. TypeOK'
  BY <1>1 DEF TypeOK
<1>3. Held' /\ Made' /\ StartsClean'
  BY <1>1 DEF TypeOK, Held, Made, StartsClean
<1>4. Listed' /\ Unlisted'
  BY <1>1 DEF TypeOK, Listed, Unlisted, Existing
<1>5. KeptOut'
  BY <1>1 DEF TypeOK, KeptOut
<1> QED
  BY <1>2, <1>3, <1>4, <1>5, Parts DEF IInv, Held, Made, Listed, Unlisted, KeptOut

\* IInv from its parts, in the next state.
LEMMA Fold == TypeOK' /\ Held' /\ Made' /\ Listed' /\ Unlisted' /\ StartsClean' /\ KeptOut' => IInv'
  BY DEF IInv, Held, Made, Listed, Unlisted, KeptOut

\* The steps of ensureOwnedRoot keep the invariant.
LEMMA Entry ==
  ASSUME IInv, NEW p \in Proc,
         Start(p) \/ Inspect(p) \/ Verify(p) \/ List(p) \/ Create(p) \/ Write(p)
           \/ CloseMarker(p) \/ Undo(p)
  PROVE  IInv'
<1> USE DEF Goto, Unnoticed, Step
<1>1. TypeOK /\ KeptOut
  BY Parts
<1>2. CASE Start(p)
  BY <1>1, <1>2, EntryStep DEF Start, TypeOK
<1>3. CASE Inspect(p)
  BY <1>1, <1>3, EntryStep DEF Inspect, TypeOK, KeptOut
<1>4. CASE Verify(p)
  BY <1>1, <1>4, EntryStep DEF Verify, TypeOK, KeptOut
<1>5. CASE List(p)
  <2>1. (\E d \in Dir : maker[d] = User) => Existing # {}
    BY MakersAssumption DEF Existing
  <2> QED
    BY <1>1, <1>5, <2>1, EntryStep DEF List, TypeOK
<1>6. CASE Create(p)
  BY <1>1, <1>6, EntryStep DEF Create, TypeOK, KeptOut
<1>7. CASE Write(p)
  BY <1>1, <1>7, EntryStep DEF Write, TypeOK, KeptOut
<1>8. CASE CloseMarker(p)
  BY <1>1, <1>8, EntryStep DEF CloseMarker, TypeOK, KeptOut
<1>9. CASE Undo(p)
  BY <1>1, <1>9, EntryStep DEF Undo, TypeOK, KeptOut
<1> QED
  BY <1>2, <1>3, <1>4, <1>5, <1>6, <1>7, <1>8, <1>9

\* Locking the root and cleaning it.
LEMMA Cleanup ==
  ASSUME IInv, NEW p \in Proc,
         Lock(p) \/ CleanFails(p) \/ Serve(p) \/ \E d \in Dir : Clean(p, d)
  PROVE  IInv'
<1> USE MakersAssumption DEF Goto
<1>1. TypeOK /\ Held /\ Made /\ Listed /\ Unlisted /\ StartsClean /\ KeptOut
  BY Parts
<1>2. CASE Lock(p) /\ lease' # lease
  <2>1. /\ pc[p] = "lock" /\ lease = NoProc /\ lease' = p /\ pc' = [pc EXCEPT ![p] = "clean"]
        /\ todo' = [todo EXCEPT ![p] = Existing] /\ lockFile' = TRUE
        /\ UNCHANGED <<marker, maker>>
    BY <1>2 DEF Lock
  <2>2. \A d \in Dir : maker[d] # User
    BY <1>1, <2>1 DEF KeptOut
  <2>3. TypeOK'
    BY <1>1, <2>1 DEF TypeOK, Step, Existing
  <2>4. Held' /\ Made' /\ StartsClean'
    BY <1>1, <2>1 DEF TypeOK, Held, Made, StartsClean
  <2>5. Listed' /\ Unlisted'
    BY <1>1, <2>1 DEF TypeOK, Held, Listed, Unlisted, Existing
  <2>6. KeptOut'
    BY <2>1, <2>2 DEF KeptOut
  <2> QED
    BY <2>3, <2>4, <2>5, <2>6, Fold
<1>3. CASE Lock(p) /\ lease' = lease
  <2>1. pc' = [pc EXCEPT ![p] = "off"] /\ lockFile' \in BOOLEAN
        /\ UNCHANGED <<marker, lease, maker, todo>> /\ pc[p] = "lock"
    BY <1>1, <1>3 DEF Lock, TypeOK
  <2> QED
    BY <1>1, <2>1, EntryStep DEF TypeOK, Step
<1>4. CASE CleanFails(p)
  <2>1. \A d \in Dir : maker[d] # User
    BY <1>1, <1>4 DEF CleanFails, KeptOut
  <2>2. lease = p
    BY <1>1, <1>4 DEF CleanFails, Held
  <2>3. TypeOK'
    BY <1>1, <1>4 DEF CleanFails, TypeOK, Step
  <2>4. Held' /\ Made' /\ StartsClean'
    BY <1>1, <1>4, <2>2 DEF CleanFails, TypeOK, Held, Made, StartsClean
  <2>5. Listed' /\ Unlisted' /\ KeptOut'
    BY <1>1, <1>4, <2>1 DEF CleanFails, TypeOK, Listed, Unlisted, KeptOut, Existing
  <2> QED
    BY <2>3, <2>4, <2>5, Fold
<1>5. CASE Serve(p)
  <2>1. Existing = {}
    BY <1>1, <1>5 DEF Serve, Listed
  <2>2. \A d \in Dir : maker[d] = NoProc
    BY <2>1 DEF Existing
  <2>3. TypeOK'
    BY <1>1, <1>5 DEF Serve, Unnoticed, TypeOK, Step
  <2>4. Held' /\ Made' /\ StartsClean'
    BY <1>1, <1>5, <2>2 DEF Serve, Unnoticed, TypeOK, Held, Made, StartsClean
  <2>5. Listed' /\ Unlisted' /\ KeptOut'
    BY <1>1, <1>5, <2>1, <2>2 DEF Serve, Unnoticed, TypeOK, Listed, Unlisted, KeptOut, Existing
  <2> QED
    BY <2>3, <2>4, <2>5, Fold
<1>6. ASSUME NEW d \in Dir, Clean(p, d) PROVE IInv'
  <2>1. \A e \in Dir : maker[e] # User
    BY <1>1, <1>6 DEF Clean, KeptOut
  <2>2. lease = p
    BY <1>1, <1>6 DEF Clean, Held
  <2>3. TypeOK'
    BY <1>1, <1>6 DEF Clean, TypeOK
  <2>4. Held' /\ Made' /\ StartsClean'
    BY <1>1, <1>6, <2>2 DEF Clean, TypeOK, Held, Made, StartsClean
  <2>5. Listed'
    BY <1>1, <1>6, <2>2 DEF Clean, TypeOK, Held, Listed, Existing
  <2>6. Unlisted' /\ KeptOut'
    BY <1>1, <1>6, <2>1 DEF Clean, TypeOK, Unlisted, KeptOut
  <2> QED
    BY <2>3, <2>4, <2>5, <2>6, Fold
<1> QED
  BY <1>2, <1>3, <1>4, <1>5, <1>6

\* What the process that serves does, and how it ends.
LEMMA Serving ==
  ASSUME IInv, NEW p \in Proc,
         Close(p) \/ Crash(p) \/ \E d \in Dir : MakeDir(p, d) \/ RemoveDir(p, d)
  PROVE  IInv'
<1> USE MakersAssumption DEF Goto
<1>1. TypeOK /\ Held /\ Made /\ Listed /\ Unlisted /\ StartsClean /\ KeptOut
  BY Parts
<1>2. ASSUME NEW d \in Dir, MakeDir(p, d) \/ RemoveDir(p, d) PROVE IInv'
  <2>1. /\ pc[p] = "run" /\ maker[d] \in {NoProc, p}
        /\ maker' = [maker EXCEPT ![d] = maker'[d]] /\ maker'[d] \in {NoProc, p}
        /\ UNCHANGED <<pc, marker, lockFile, lease, todo>>
    BY <1>1, <1>2 DEF MakeDir, RemoveDir, TypeOK
  <2>2. lease = p /\ \A q \in Proc : pc[q] \in {"clean", "run"} => q = p
    BY <1>1, <2>1 DEF Held
  <2>3. TypeOK'
    BY <1>1, <2>1 DEF TypeOK
  <2>4. Held' /\ Made' /\ StartsClean'
    BY <1>1, <2>1, <2>2 DEF TypeOK, Held, Made, StartsClean
  <2>5. Listed' /\ Unlisted' /\ KeptOut'
    BY <1>1, <2>1, <2>2 DEF TypeOK, Listed, Unlisted, KeptOut
  <2> QED
    BY <2>3, <2>4, <2>5, Fold
<1>3. CASE Close(p)
  <2>1. /\ pc[p] = "run" /\ pc' = [pc EXCEPT ![p] = "off"] /\ lease' = NoProc
        /\ maker' \in [Dir -> Proc \cup {NoProc, Former, User}]
        /\ \A d \in Dir : IF maker[d] = p THEN maker'[d] \in {NoProc, Former}
                          ELSE maker'[d] = maker[d]
        /\ UNCHANGED <<marker, lockFile, todo>>
    BY <1>1, <1>3 DEF Close, TypeOK
  <2>2. lease = p /\ \A q \in Proc : pc[q] \in {"clean", "run"} => q = p
    BY <1>1, <2>1 DEF Held
  <2>3. TypeOK'
    BY <1>1, <2>1 DEF TypeOK, Step
  <2>4. Held' /\ Made' /\ StartsClean'
    BY <1>1, <2>1, <2>2 DEF TypeOK, Held, Made, StartsClean
  <2>5. Listed' /\ Unlisted' /\ KeptOut'
    BY <1>1, <2>1, <2>2 DEF TypeOK, Listed, Unlisted, KeptOut
  <2> QED
    BY <2>3, <2>4, <2>5, Fold
<1>4. CASE Crash(p)
  <2>1. /\ pc' = [pc EXCEPT ![p] = "off"]
        /\ lease' = IF lease = p THEN NoProc ELSE lease
        /\ maker' = [d \in Dir |-> IF maker[d] = p THEN Former ELSE maker[d]]
        /\ todo' = [todo EXCEPT ![p] = {}]
        /\ UNCHANGED <<marker, lockFile>>
    BY <1>4 DEF Crash
  <2>2. TypeOK'
    BY <1>1, <2>1 DEF TypeOK, Step
  <2>3. Held'
    BY <1>1, <2>1 DEF TypeOK, Held
  <2>4. Made'
    BY <1>1, <2>1 DEF TypeOK, Made
  <2>5. StartsClean'
    BY <1>1, <2>1 DEF TypeOK, StartsClean
  <2>6. Listed'
    BY <1>1, <2>1 DEF TypeOK, Listed, Existing
  <2>7. Unlisted' /\ KeptOut'
    BY <1>1, <2>1 DEF TypeOK, Unlisted, KeptOut
  <2> QED
    BY <2>2, <2>3, <2>4, <2>5, <2>6, <2>7, Fold
<1> QED
  BY <1>2, <1>3, <1>4

\* Every step keeps the invariant.
LEMMA NextKeeps == IInv /\ [Next]_vars => IInv'
<1>1. ASSUME IInv, Next PROVE IInv'
  BY <1>1, Entry, Cleanup, Serving DEF Next
<1>2. ASSUME IInv, UNCHANGED vars PROVE IInv'
  BY <1>2 DEF vars, IInv, TypeOK, StartsClean, Existing
<1> QED
  BY <1>1, <1>2

\* The ownership invariant of the cache root holds in every reachable state.
THEOREM RootInductive == Spec => []IInv
  BY InitialRoot, NextKeeps, PTL DEF Spec

\* A process serves only from a root that holds nothing of anybody else.
THEOREM RootStartsClean == Spec => []StartsClean
<1>1. IInv => StartsClean
  BY DEF IInv
<1> QED
  BY <1>1, RootInductive, PTL

\* No startup removes a directory of the process that serves.
THEOREM RootServerUndisturbed == Spec => ServerUndisturbed
<1>1. IInv /\ [Next]_vars =>
        [\A p \in Proc, d \in Dir :
           maker[d] = p /\ maker'[d] # p => pc[p] = "run" /\ lease = p /\ todo' = todo]_vars
  <2> SUFFICES ASSUME IInv, Next, NEW p \in Proc, NEW d \in Dir,
                      maker[d] = p, maker'[d] # p
               PROVE  pc[p] = "run" /\ lease = p /\ todo' = todo
    OBVIOUS
  <2> USE MakersAssumption
  <2>1. TypeOK /\ Held /\ Made /\ Listed /\ Unlisted /\ StartsClean
    BY Parts
  <2>2. pc[p] = "run" /\ lease = p
    BY <2>1 DEF Made, Held
  <2>3. todo[p] = {} /\ \A q \in Proc : pc[q] = "clean" => q = p
    BY <2>1, <2>2 DEF Unlisted, Held
  <2>4. PICK q \in Proc :
          \/ Crash(q) \/ Close(q) \/ \E e \in Dir : RemoveDir(q, e) \/ Clean(q, e) \/ MakeDir(q, e)
    BY DEF Next, Start, Inspect, Verify, List, Create, Write, CloseMarker, Undo, Unnoticed,
           Lock, CleanFails, Serve
  <2>5. CASE Crash(q)
    <3>1. q = p
      BY <2>1, <2>5 DEF Crash, TypeOK
    <3> QED
      BY <2>1, <2>2, <2>3, <2>5, <3>1 DEF Crash, TypeOK
  <2>6. CASE Close(q) \/ \E e \in Dir : RemoveDir(q, e) \/ MakeDir(q, e)
    BY <2>2, <2>6 DEF Close, RemoveDir, MakeDir
  <2>7. CASE \E e \in Dir : Clean(q, e)
    BY <2>2, <2>3, <2>7 DEF Clean
  <2> QED
    BY <2>2, <2>4, <2>5, <2>6, <2>7
<1> QED
  BY <1>1, RootInductive, PTL DEF Spec, ServerUndisturbed

\* A directory that is not the plugin's is never removed.
THEOREM RootForeignUntouched == Spec => ForeignUntouched
<1>1. IInv /\ [Next]_vars =>
        [\A d \in Dir : maker[d] = User => maker'[d] = User]_vars
  <2> SUFFICES ASSUME IInv, Next, NEW d \in Dir, maker[d] = User
               PROVE  maker'[d] = User
    OBVIOUS
  <2> USE MakersAssumption
  <2>1. TypeOK /\ KeptOut
    BY Parts
  <2>2. \A p \in Proc : pc[p] \in {"off", "inspect", "list"}
    BY <2>1 DEF KeptOut
  <2>3. PICK q \in Proc :
          \/ UNCHANGED maker
          \/ Crash(q) \/ Close(q) \/ \E e \in Dir : RemoveDir(q, e) \/ Clean(q, e) \/ MakeDir(q, e)
    BY DEF Next, Start, Inspect, Verify, List, Create, Write, CloseMarker, Undo, Unnoticed,
           Lock, CleanFails, Serve
  <2>4. CASE Crash(q)
    BY <2>1, <2>4 DEF Crash, TypeOK
  <2>5. CASE Close(q) \/ \E e \in Dir : RemoveDir(q, e) \/ Clean(q, e) \/ MakeDir(q, e)
    BY <2>2, <2>5 DEF Close, RemoveDir, Clean, MakeDir
  <2> QED
    BY <2>3, <2>4, <2>5
<1> QED
  BY <1>1, RootInductive, PTL DEF Spec, ForeignUntouched
=============================================================================
