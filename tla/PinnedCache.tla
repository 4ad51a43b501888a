----------------------------- MODULE PinnedCache -----------------------------
(***************************************************************************)
(* What the page cache of internal/silo/cache.go promises to the requests  *)
(* that read from it, without bytes, lifetimes, directories or failures:   *)
(* a shelf of chapters of which each is lent only while it is on the       *)
(* shelf, is deleted or replaced only while nobody holds it, and, once     *)
(* withdrawn, is lent again only after it has been published anew.         *)
(***************************************************************************)
EXTENDS Naturals

CONSTANTS Key, Reader, NoKey

VARIABLES
  stock,  \* key -> "absent", "shelved" or "withdrawn"
  held    \* reader -> the key it holds, or NoKey

vars == <<stock, held>>

Free(k) == \A r \in Reader : held[r] # k

Init ==
  /\ stock = [k \in Key |-> "absent"]
  /\ held = [r \in Reader |-> NoKey]

Borrow(r, k) ==
  /\ held[r] = NoKey
  /\ stock[k] = "shelved"
  /\ held' = [held EXCEPT ![r] = k]
  /\ UNCHANGED stock

Return(r) ==
  /\ held[r] # NoKey
  /\ held' = [held EXCEPT ![r] = NoKey]
  /\ UNCHANGED stock

Publish(k) ==
  /\ Free(k)
  /\ stock' = [stock EXCEPT ![k] = "shelved"]
  /\ UNCHANGED held

\* A sweep, an eviction or a lookup of a dead chapter: some chapters are
\* withdrawn, and some that nobody holds are gone.
Clear(withdrawn, gone) ==
  /\ \A k \in withdrawn : stock[k] # "absent"
  /\ \A k \in gone : Free(k)
  /\ stock' = [k \in Key |-> IF k \in gone THEN "absent"
                             ELSE IF k \in withdrawn THEN "withdrawn" ELSE stock[k]]
  /\ UNCHANGED held

\* The owner of the shelf closes it or dies, and every reader with it.
Restart ==
  /\ stock' = [k \in Key |-> "absent"]
  /\ held' = [r \in Reader |-> NoKey]

Next ==
  \/ \E r \in Reader : Return(r) \/ \E k \in Key : Borrow(r, k)
  \/ \E k \in Key : Publish(k)
  \/ \E withdrawn, gone \in SUBSET Key : Clear(withdrawn, gone)
  \/ Restart

Spec == Init /\ [][Next]_vars
=============================================================================
