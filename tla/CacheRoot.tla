------------------------------ MODULE CacheRoot ------------------------------
(***************************************************************************)
(* Who may use a cache directory: newPageCache of internal/silo/cache.go   *)
(* with its ownership marker, its flock and its startup cleanup, run by    *)
(* processes that share one directory, fail at file operations and are     *)
(* killed between any two of them.                                         *)
(*                                                                         *)
(* The directory's entries are the marker, the lock file and directories   *)
(* whose names begin with .job- or .entry-: those of a process that        *)
(* serves, those that one has left behind and those of a user who pointed  *)
(* the plugin at a directory of his own.                                   *)
(***************************************************************************)
EXTENDS Naturals

CONSTANTS
  Proc,    \* plugin processes, or configurations of one process in turn
  Dir,     \* directories the root may hold
  NoProc,  \* no such directory; the lease is free
  Former,  \* left behind by an owner that is gone
  User     \* not the plugin's

ASSUME MakersAssumption ==
  /\ NoProc \notin Proc /\ Former \notin Proc /\ User \notin Proc
  /\ NoProc # Former /\ NoProc # User /\ Former # User

VARIABLES
  pc,        \* process -> the step of newPageCache it is at, "run" or "off"
  marker,    \* .silo-comic-pages-owner: "absent", "partial" or "valid"
  lockFile,  \* .lock exists
  lease,     \* the process that holds the flock
  maker,     \* directory -> whose it is
  todo       \* process -> directories its startup has listed and not removed

vars == <<pc, marker, lockFile, lease, maker, todo>>

Step == {"off", "inspect", "verify", "list", "create", "write", "close", "undo",
         "lock", "clean", "run"}

Init ==
  /\ pc = [p \in Proc |-> "off"]
  /\ marker = "absent" /\ lockFile = FALSE /\ lease = NoProc
  /\ maker \in [Dir -> {NoProc, User}]
  /\ todo = [p \in Proc |-> {}]

Goto(p, step) == pc' = [pc EXCEPT ![p] = step]

Unnoticed == UNCHANGED <<lockFile, lease, maker, todo>>

Existing == {d \in Dir : maker[d] # NoProc}

-----------------------------------------------------------------------------
(* ensureOwnedRoot.                                                        *)

Start(p) ==
  /\ pc[p] = "off" /\ Goto(p, "inspect")
  /\ UNCHANGED marker /\ Unnoticed

\* os.Lstat of the marker.
Inspect(p) ==
  /\ pc[p] = "inspect"
  /\ Goto(p, IF marker = "absent" THEN "list" ELSE "verify")
  /\ UNCHANGED marker /\ Unnoticed

\* The marker is opened and must hold exactly cacheOwnerContents.
Verify(p) ==
  /\ pc[p] = "verify"
  /\ Goto(p, IF marker = "valid" THEN "lock" ELSE "off")
  /\ UNCHANGED marker /\ Unnoticed

\* Mutant: a directory without a marker is taken over whatever it holds.
ListAnyway(p) ==
  /\ pc[p] = "list"
  /\ Goto(p, "create")
  /\ UNCHANGED marker /\ Unnoticed

\* Only an empty directory is taken over.
List(p) ==
  /\ pc[p] = "list"
  /\ Goto(p, IF marker = "absent" /\ ~lockFile /\ Existing = {} THEN "create" ELSE "off")
  /\ UNCHANGED marker /\ Unnoticed

\* O_CREATE|O_EXCL: if another process was faster, look again.
Create(p) ==
  /\ pc[p] = "create"
  /\ IF marker = "absent" THEN marker' = "partial" /\ Goto(p, "write")
     ELSE Goto(p, "inspect") /\ UNCHANGED marker
  /\ Unnoticed

Write(p) ==
  /\ pc[p] = "write"
  /\ \/ marker' = "valid" /\ Goto(p, "close")
     \/ Goto(p, "undo") /\ UNCHANGED marker
  /\ Unnoticed

CloseMarker(p) ==
  /\ pc[p] = "close"
  /\ \E next \in {"lock", "undo"} : Goto(p, next)
  /\ UNCHANGED marker /\ Unnoticed

\* The error paths remove the marker, and ignore it when that fails as well.
Undo(p) ==
  /\ pc[p] = "undo"
  /\ marker' \in {marker, "absent"}
  /\ Goto(p, "off")
  /\ Unnoticed

-----------------------------------------------------------------------------
(* lockCacheRoot and removeOwnedDirectories.                               *)

\* Mutant: the lock of another process is not an error.
LockShared(p) ==
  /\ pc[p] = "lock"
  /\ lockFile' = TRUE /\ lease' = p /\ Goto(p, "clean")
  /\ todo' = [todo EXCEPT ![p] = Existing]
  /\ UNCHANGED <<marker, maker>>

\* flock without waiting, then the list of what former owners left.
Lock(p) ==
  /\ pc[p] = "lock"
  /\ \/ lockFile' = TRUE /\ lease = NoProc
        /\ lease' = p /\ Goto(p, "clean") /\ todo' = [todo EXCEPT ![p] = Existing]
     \/ lockFile' \in {lockFile, TRUE} /\ Goto(p, "off") /\ UNCHANGED <<lease, todo>>
  /\ UNCHANGED <<marker, maker>>

Clean(p, d) ==
  /\ pc[p] = "clean" /\ d \in todo[p]
  /\ maker' = [maker EXCEPT ![d] = NoProc]
  /\ todo' = [todo EXCEPT ![p] = @ \ {d}]
  /\ UNCHANGED <<pc, marker, lockFile, lease>>

\* Mutant: cleanup that fails is left to the sweeper.
CleanSkips(p) ==
  /\ pc[p] = "clean" /\ todo[p] # {}
  /\ Goto(p, "run")
  /\ todo' = [todo EXCEPT ![p] = {}]
  /\ UNCHANGED <<marker, lockFile, lease, maker>>

\* A directory cannot be removed: the cache is closed again, before it served.
CleanFails(p) ==
  /\ pc[p] = "clean" /\ todo[p] # {}
  /\ lease' = NoProc /\ Goto(p, "off")
  /\ todo' = [todo EXCEPT ![p] = {}]
  /\ UNCHANGED <<marker, lockFile, maker>>

Serve(p) ==
  /\ pc[p] = "clean" /\ todo[p] = {}
  /\ Goto(p, "run")
  /\ UNCHANGED marker /\ Unnoticed

-----------------------------------------------------------------------------
(* A process that serves, and its end.                                     *)

\* MkdirTemp of a job, and the rename of its pages to an entry directory.
MakeDir(p, d) ==
  /\ pc[p] = "run" /\ maker[d] = NoProc
  /\ maker' = [maker EXCEPT ![d] = p]
  /\ UNCHANGED <<pc, marker, lockFile, lease, todo>>

RemoveDir(p, d) ==
  /\ pc[p] = "run" /\ maker[d] = p
  /\ maker' = [maker EXCEPT ![d] = NoProc]
  /\ UNCHANGED <<pc, marker, lockFile, lease, todo>>

\* pageCache.close: what cannot be deleted stays, and the lease is given up.
Close(p) ==
  /\ pc[p] = "run"
  /\ maker' \in {m \in [Dir -> {maker[d] : d \in Dir} \cup {NoProc, Former}] :
                   \A d \in Dir : IF maker[d] = p THEN m[d] \in {NoProc, Former}
                                  ELSE m[d] = maker[d]}
  /\ lease' = NoProc /\ Goto(p, "off")
  /\ UNCHANGED <<marker, lockFile, todo>>

\* The kernel drops the lock of a killed process; the extractor child dies with
\* it (Pdeathsig).
Crash(p) ==
  /\ pc[p] # "off" /\ Goto(p, "off")
  /\ lease' = IF lease = p THEN NoProc ELSE lease
  /\ maker' = [d \in Dir |-> IF maker[d] = p THEN Former ELSE maker[d]]
  /\ todo' = [todo EXCEPT ![p] = {}]
  /\ UNCHANGED <<marker, lockFile>>

Next ==
  \E p \in Proc :
    \/ Start(p) \/ Inspect(p) \/ Verify(p) \/ List(p) \/ Create(p) \/ Write(p)
    \/ CloseMarker(p) \/ Undo(p) \/ Lock(p) \/ CleanFails(p) \/ Serve(p)
    \/ \E d \in Dir : Clean(p, d) \/ MakeDir(p, d) \/ RemoveDir(p, d)
    \/ Close(p) \/ Crash(p)

Spec == Init /\ [][Next]_vars

-----------------------------------------------------------------------------
TypeOK ==
  /\ pc \in [Proc -> Step]
  /\ marker \in {"absent", "partial", "valid"}
  /\ lockFile \in BOOLEAN
  /\ lease \in Proc \cup {NoProc}
  /\ maker \in [Dir -> Proc \cup {NoProc, Former, User}]
  /\ todo \in [Proc -> SUBSET Dir]

\* README.md: the next startup removes leftover jobs and pages before accepting
\* new work.  A process that serves is alone in the directory, and nothing that
\* it has not made itself lies there uncharged to its budget.
StartsClean ==
  \A p \in Proc : pc[p] = "run" => \A d \in Dir : maker[d] \in {NoProc, p}

\* A startup never removes a directory of the process that serves, whatever the
\* two do meanwhile; only that process and its end do.
ServerUndisturbed ==
  [][\A p \in Proc, d \in Dir :
       maker[d] = p /\ maker'[d] # p => pc[p] = "run" /\ lease = p /\ todo' = todo]_vars

\* README.md: the plugin rejects nonempty directories it does not own.  What a
\* user keeps there stays, even under names like those of the cache.
ForeignUntouched ==
  [][\A d \in Dir : maker[d] = User => maker'[d] = User]_vars

\* What makes StartsClean inductive: the lease is held exactly from the lock to
\* the end, directories belong to the process that serves, a cleanup has listed
\* all that was left, and a user's directory keeps every process out.
IInv ==
  /\ TypeOK
  /\ \A p \in Proc : pc[p] \in {"clean", "run"} <=> lease = p
  /\ \A d \in Dir : maker[d] \in Proc => pc[maker[d]] = "run"
  /\ \A p \in Proc : pc[p] = "clean" => Existing \subseteq todo[p]
  /\ \A p \in Proc : pc[p] # "clean" => todo[p] = {}
  /\ StartsClean
  /\ (\E d \in Dir : maker[d] = User)
       => marker = "absent" /\ \A p \in Proc : pc[p] \in {"off", "inspect", "list"}

\* docs/cache-cleanup.md: after a crash the next startup recovers by itself.
\* When no process is left, the next one finds a root that it can use.
Recoverable ==
  (\A p \in Proc : pc[p] = "off") =>
    \/ marker = "valid"
    \/ marker = "absent" /\ ~lockFile /\ \A d \in Dir : maker[d] = NoProc
    \/ \E d \in Dir : maker[d] = User
=============================================================================
