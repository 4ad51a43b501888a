--------------------------- MODULE PageCacheProofs ---------------------------
(***************************************************************************)
(* Proofs about PageCache for every set of keys, jobs and readers and all  *)
(* limits: the lemmas on byte counts, the inductive invariant IInv, and    *)
(* the theorems that follow from it.                                       *)
(***************************************************************************)
EXTENDS PageCache, FiniteSetTheorems, TLAPS

\* The peak of a job (backend.go: peakBytes) is positive and above what is extracted.
LEMMA PeakNat == PeakBytes \in Nat \ {0} /\ MaxTotalBytes < PeakBytes
  BY LimitsAssumption DEF PeakBytes

-----------------------------------------------------------------------------
(* Byte counts.                                                            *)

\* A count over a finite set is a natural number.
LEMMA ChargeNat ==
  ASSUME NEW f, NEW S, IsFiniteSet(S)
  PROVE  IsFiniteSet(Units(f, S)) /\ Charge(f, S) \in Nat
<1>1. IsFiniteSet(S \X (1..PeakBytes))
  <2>1. 1 \in Int /\ PeakBytes \in Int
    BY PeakNat
  <2>2. IsFiniteSet(1..PeakBytes)
    BY <2>1, FS_Interval
  <2> QED  BY <2>2, FS_Product
<1>2. Units(f, S) \in SUBSET (S \X (1..PeakBytes))
  BY DEF Units
<1> QED  BY <1>1, <1>2, FS_Subset, FS_CardinalityType DEF Charge

\* Only the values on the set count.
LEMMA ChargeAgree ==
  ASSUME NEW f, NEW g, NEW S, \A x \in S : f[x] = g[x]
  PROVE  Charge(f, S) = Charge(g, S)
<1>1. Units(f, S) = Units(g, S)
  BY DEF Units
<1> QED  BY <1>1 DEF Charge

\* Nothing is charged for no directory.
LEMMA ChargeEmpty ==
  ASSUME NEW f
  PROVE  Charge(f, {}) = 0
<1>1. Units(f, {}) = {}
  BY DEF Units
<1> QED  BY <1>1, FS_EmptySet DEF Charge

\* A count splits over a subset and the rest.
LEMMA ChargeSplit ==
  ASSUME NEW f, NEW S, IsFiniteSet(S), NEW T \in SUBSET S
  PROVE  Charge(f, S) = Charge(f, T) + Charge(f, S \ T)
<1>1. IsFiniteSet(T) /\ IsFiniteSet(S \ T)
  BY FS_Subset
<1>2. Units(f, S) = Units(f, T) \cup Units(f, S \ T)
  BY DEF Units
<1>3. Units(f, T) \cap Units(f, S \ T) = {}
  BY DEF Units
<1>4. /\ IsFiniteSet(Units(f, T)) /\ IsFiniteSet(Units(f, S \ T))
      /\ Charge(f, T) \in Nat /\ Charge(f, S \ T) \in Nat
  BY <1>1, ChargeNat
<1>5. Cardinality(Units(f, S)) =
        Cardinality(Units(f, T)) + Cardinality(Units(f, S \ T)) - Cardinality({})
  BY <1>2, <1>3, <1>4, FS_Union
<1> QED  BY <1>4, <1>5, FS_EmptySet DEF Charge

\* One directory is charged its own bytes.
LEMMA ChargeSingleton ==
  ASSUME NEW f, NEW x, f[x] \in 0..PeakBytes
  PROVE  Charge(f, {x}) = f[x]
<1>1. Units(f, {x}) = {x} \X (1..f[x])
  BY PeakNat DEF Units
<1>2. IsFiniteSet({x}) /\ Cardinality({x}) = 1
  BY FS_Singleton
<1>3. f[x] \in Int /\ f[x] >= 0
  BY PeakNat
<1>4. /\ IsFiniteSet(1..f[x])
      /\ Cardinality(1..f[x]) = IF 1 > f[x] THEN 0 ELSE f[x] - 1 + 1
  BY <1>3, FS_Interval
<1>5. Cardinality(1..f[x]) = f[x]
  BY <1>3, <1>4
<1>6. Cardinality({x} \X (1..f[x])) = Cardinality({x}) * Cardinality(1..f[x])
  BY <1>2, <1>4, FS_Product
<1>7. Cardinality({x} \X (1..f[x])) = f[x]
  BY <1>2, <1>3, <1>5, <1>6
<1> QED  BY <1>1, <1>7 DEF Charge

\* Smaller values count for less.
LEMMA ChargeMonotone ==
  ASSUME NEW f, NEW g, NEW S, IsFiniteSet(S),
         \A x \in S : f[x] \in Int /\ g[x] \in Int /\ f[x] <= g[x]
  PROVE  Charge(f, S) <= Charge(g, S)
<1>1. Units(f, S) \in SUBSET Units(g, S)
  BY PeakNat DEF Units
<1> QED  BY <1>1, ChargeNat, FS_Subset DEF Charge

\* Empty directories are charged nothing.
LEMMA ChargeZero ==
  ASSUME NEW f, NEW S, \A x \in S : f[x] = 0
  PROVE  Charge(f, S) = 0
<1>1. Units(f, S) = {}
  BY PeakNat DEF Units
<1> QED  BY <1>1, FS_EmptySet DEF Charge

\* Setting one value in a set that may be new to it.
LEMMA ChargePut ==
  ASSUME NEW f, NEW g, NEW S, IsFiniteSet(S), NEW x,
         g[x] \in 0..PeakBytes, \A y \in S \ {x} : g[y] = f[y]
  PROVE  Charge(g, S \cup {x}) = Charge(f, S \ {x}) + g[x]
<1>1. IsFiniteSet(S \cup {x})
  BY FS_AddElement
<1>2. Charge(g, S \cup {x}) = Charge(g, {x}) + Charge(g, (S \cup {x}) \ {x})
  BY <1>1, ChargeSplit
<1>3. (S \cup {x}) \ {x} = S \ {x}
  OBVIOUS
<1>4. Charge(g, S \ {x}) = Charge(f, S \ {x})
  BY ChargeAgree
<1>5. Charge(f, S \ {x}) \in Nat
  BY FS_Difference, ChargeNat
<1>6. Charge(g, {x}) = g[x]
  BY ChargeSingleton
<1>7. Charge(g, (S \cup {x}) \ {x}) = Charge(f, S \ {x})
  BY <1>3, <1>4, Zenon
<1>8. g[x] \in Int
  BY PeakNat
<1> QED  BY <1>2, <1>5, <1>6, <1>7, <1>8
-----------------------------------------------------------------------------
(* The budget of the directory follows from the ledger.                    *)

\* The sets of directories that bytes are counted over are finite.
LEMMA Finite ==
  ASSUME TypeOK
  PROVE  /\ IsFiniteSet(DOMAIN entries) /\ IsFiniteSet(DOMAIN pending)
         /\ IsFiniteSet(DOMAIN jobs) /\ IsFiniteSet(Dir)
<1>1. IsFiniteSet(Dir)
  BY SetsAssumption, FS_Union DEF Dir
<1> QED  BY <1>1, SetsAssumption, FS_Subset DEF TypeOK

\* While the cache is open, the files are within the budget because each
\* directory is within its charge and the charges are within the budget.
LEMMA OpenBudget == open /\ Ledger => DiskWithinBudget
<1> SUFFICES ASSUME open, Ledger
             PROVE  DiskWithinBudget
  OBVIOUS
<1> DEFINE Allowed == [d \in Dir |-> Allowance(d)]
           E == DOMAIN entries
           J == DOMAIN jobs
           P == DOMAIN pending
<1>1. /\ IsFiniteSet(E) /\ IsFiniteSet(P) /\ IsFiniteSet(J) /\ IsFiniteSet(Dir)
  BY Finite DEF Ledger
<1>2. /\ E \subseteq Key /\ J \subseteq Job /\ P \subseteq Job
      /\ E \cap J = {} /\ E \cap P = {} /\ J \cap P = {}
      /\ E \subseteq Dir /\ J \subseteq Dir \ E /\ P \subseteq (Dir \ E) \ J
  BY SetsAssumption DEF Ledger, TypeOK, JobsApart, Dir
<1>3. /\ \A d \in E : Allowed[d] = Totals[d]
      /\ \A d \in J : Allowed[d] = JobBytes[d]
      /\ \A d \in P : Allowed[d] = pending[d]
      /\ \A d \in ((Dir \ E) \ J) \ P : Allowed[d] = 0
  BY <1>2 DEF Allowance, Totals, JobBytes
<1>4. \A d \in Dir : Allowed[d] \in Int /\ disk[d] \in Int /\ disk[d] <= Allowed[d]
  <2>1. \A d \in Dir : Allowance(d) \in Int
    BY <1>2, LimitsAssumption, PeakNat
       DEF Ledger, TypeOK, Entry, Reservation, Allowance, Dir
  <2> QED  BY <2>1, PeakNat DEF Ledger, TypeOK, DiskCharged
<1>5. Charge(disk, Dir) <= Charge(Allowed, Dir)
  BY <1>1, <1>4, ChargeMonotone
<1>6. /\ IsFiniteSet(Dir \ E) /\ IsFiniteSet((Dir \ E) \ J)
      /\ IsFiniteSet(((Dir \ E) \ J) \ P)
  BY <1>1, FS_Difference
<1> HIDE DEF Allowed, E, J, P
<1>7. /\ Charge(Allowed, Dir) = Charge(Allowed, E) + Charge(Allowed, Dir \ E)
      /\ Charge(Allowed, Dir \ E) = Charge(Allowed, J) + Charge(Allowed, (Dir \ E) \ J)
      /\ Charge(Allowed, (Dir \ E) \ J)
           = Charge(Allowed, P) + Charge(Allowed, ((Dir \ E) \ J) \ P)
  BY <1>1, <1>2, <1>6, ChargeSplit
<1>8. /\ Charge(Allowed, E) = Charge(Totals, E)
      /\ Charge(Allowed, J) = Charge(JobBytes, J)
      /\ Charge(Allowed, P) = Charge(pending, P)
      /\ Charge(Allowed, ((Dir \ E) \ J) \ P) = 0
  BY <1>3, ChargeAgree, ChargeZero
<1>9. /\ usedBytes = Charge(Totals, E)
      /\ reserved = Charge(JobBytes, J) + Charge(pending, P)
      /\ usedBytes + reserved <= MaxBytes
  BY DEF Ledger, Accounting, WithinBudget, E, J, P
<1>10. /\ Charge(disk, Dir) \in Nat /\ Charge(Totals, E) \in Nat
       /\ Charge(JobBytes, J) \in Nat /\ Charge(pending, P) \in Nat
  BY <1>1, ChargeNat
<1>11. Charge(Allowed, Dir) = usedBytes + reserved
  BY <1>7, <1>8, <1>9, <1>10
<1>12. MaxBytes \in Int
  BY LimitsAssumption
<1>13. Charge(disk, Dir) <= usedBytes + reserved
  BY <1>5, <1>11, Zenon
<1>14. usedBytes \in Int /\ reserved \in Int
  BY <1>9, <1>10
<1> QED  BY <1>9, <1>10, <1>12, <1>13, <1>14 DEF DiskWithinBudget
-----------------------------------------------------------------------------
(* What a round of removals does, whoever calls it.                        *)

\* removeLocked and what it leaves in c.entries: survivors keep their size and pins.
LEMMA DiscardEntries ==
  ASSUME TypeOK,
         NEW gone \in SUBSET DOMAIN entries, NEW retire \in SUBSET DOMAIN entries,
         NEW cleaned \in SUBSET DOMAIN pending,
         Discard(gone, retire, cleaned)
  PROVE  /\ DOMAIN entries' = DOMAIN entries \ gone
         /\ entries' \in [DOMAIN entries' -> Entry]
         /\ \A k \in DOMAIN entries' :
              /\ entries'[k].total = entries[k].total
              /\ entries'[k].active = entries[k].active
              /\ entries'[k].retired = (entries[k].retired \/ k \in retire)
<1>1. \A k \in DOMAIN entries : entries[k] \in Entry
  BY DEF TypeOK
<1>2. entries' = [k \in DOMAIN entries \ gone |->
                    [entries[k] EXCEPT !.retired = @ \/ k \in retire]]
  BY DEF Discard
<1>3. \A k \in DOMAIN entries \ gone :
        [entries[k] EXCEPT !.retired = @ \/ k \in retire] \in Entry
  <2> SUFFICES ASSUME NEW k \in DOMAIN entries
               PROVE  [entries[k] EXCEPT !.retired = @ \/ k \in retire] \in Entry
    OBVIOUS
  <2>1. (entries[k].retired \/ k \in retire) \in BOOLEAN
    OBVIOUS
  <2> QED  BY <1>1, <2>1 DEF Entry
<1> QED  BY <1>1, <1>2, <1>3 DEF Entry

\* The bytes of the removed entries leave usedBytes, those of the cleaned jobs
\* leave the charge of the pending ones.
LEMMA DiscardCounts ==
  ASSUME TypeOK, Accounting,
         NEW gone \in SUBSET DOMAIN entries, NEW retire \in SUBSET DOMAIN entries,
         NEW cleaned \in SUBSET DOMAIN pending,
         Discard(gone, retire, cleaned)
  PROVE  /\ usedBytes' = Charge(Totals', DOMAIN entries')
         /\ usedBytes' = usedBytes - Charge(Totals, gone)
         /\ usedBytes' \in Nat /\ usedBytes' <= usedBytes
         /\ DOMAIN pending' = DOMAIN pending \ cleaned
         /\ pending' \in [DOMAIN pending' -> 0..PeakBytes]
         /\ \A j \in DOMAIN pending' : pending'[j] = pending[j]
         /\ Charge(pending', DOMAIN pending')
              = Charge(pending, DOMAIN pending) - Charge(pending, cleaned)
         /\ Charge(pending', DOMAIN pending') \in Nat
         /\ Charge(pending, cleaned) \in Nat
<1> DEFINE E == DOMAIN entries
           P == DOMAIN pending
<1>1. /\ IsFiniteSet(E) /\ IsFiniteSet(E \ gone) /\ IsFiniteSet(gone)
      /\ IsFiniteSet(P) /\ IsFiniteSet(P \ cleaned) /\ IsFiniteSet(cleaned)
  BY Finite, FS_Subset, FS_Difference
<1>2. DOMAIN entries' = E \ gone /\ \A k \in E \ gone : Totals'[k] = Totals[k]
  BY DiscardEntries DEF Totals
<1>3. /\ pending' = [j \in P \ cleaned |-> pending[j]]
      /\ usedBytes' = usedBytes - Charge(Totals, gone)
  BY DEF Discard
<1>4. /\ DOMAIN pending' = P \ cleaned
      /\ \A j \in P \ cleaned : pending'[j] = pending[j]
      /\ pending' \in [DOMAIN pending' -> 0..PeakBytes]
  BY <1>3 DEF TypeOK
<1>5. /\ Charge(Totals, E) = Charge(Totals, gone) + Charge(Totals, E \ gone)
      /\ Charge(pending, P) = Charge(pending, cleaned) + Charge(pending, P \ cleaned)
  BY <1>1, ChargeSplit
<1>6. /\ Charge(Totals', E \ gone) = Charge(Totals, E \ gone)
      /\ Charge(pending', P \ cleaned) = Charge(pending, P \ cleaned)
  BY <1>2, <1>4, ChargeAgree
<1>7. /\ Charge(Totals, gone) \in Nat /\ Charge(Totals, E \ gone) \in Nat
      /\ Charge(pending, cleaned) \in Nat /\ Charge(pending, P \ cleaned) \in Nat
  BY <1>1, ChargeNat
<1>8. usedBytes = Charge(Totals, E)
  BY DEF Accounting
<1> HIDE DEF E, P
<1>9. usedBytes' = Charge(Totals, E \ gone)
  BY <1>3, <1>5, <1>7, <1>8
<1>10. usedBytes' = Charge(Totals', DOMAIN entries')
  BY <1>2, <1>6, <1>9
<1>11. Charge(pending', DOMAIN pending') = Charge(pending, P) - Charge(pending, cleaned)
  BY <1>4, <1>5, <1>6, <1>7
<1>12. Charge(pending', DOMAIN pending') \in Nat
  BY <1>4, <1>6, <1>7
<1>13. usedBytes' \in Nat /\ usedBytes' <= usedBytes
  BY <1>5, <1>7, <1>8, <1>9
<1> QED  BY <1>3, <1>4, <1>7, <1>10, <1>11, <1>12, <1>13 DEF E, P

\* No directory grows, removed ones are empty, and only an unpinned entry that
\* is retired may lose files.
LEMMA DiscardDisk ==
  ASSUME TypeOK,
         NEW gone \in SUBSET DOMAIN entries, NEW retire \in SUBSET DOMAIN entries,
         NEW cleaned \in SUBSET DOMAIN pending,
         Discard(gone, retire, cleaned)
  PROVE  /\ disk' \in [Dir -> 0..PeakBytes]
         /\ \A d \in Dir : disk'[d] <= disk[d]
         /\ \A d \in gone \cup cleaned : disk'[d] = 0
         /\ \A j \in Job \ cleaned : disk'[j] = disk[j]
         /\ \A k \in DOMAIN entries \ gone :
              entries[k].active # 0 \/ k \notin retire => disk'[k] = disk[k]
<1>1. PICK torn \in SUBSET (Unpinned(retire) \ gone) :
        disk' = [d \in Dir |-> IF d \in gone \cup torn \cup cleaned THEN 0 ELSE disk[d]]
  BY DEF Discard
<1>2. /\ DOMAIN entries \subseteq Key /\ DOMAIN pending \subseteq Job
      /\ Key \cap Job = {} /\ Key \subseteq Dir /\ Job \subseteq Dir
  BY SetsAssumption DEF TypeOK, Dir
<1>3. \A k \in torn : k \in retire /\ entries[k].active = 0
  BY DEF Unpinned
<1>4. disk \in [Dir -> 0..PeakBytes] /\ PeakBytes \in Nat
  BY PeakNat DEF TypeOK
<1>5. \A d \in Dir : disk'[d] = IF d \in gone \cup torn \cup cleaned THEN 0 ELSE disk[d]
  BY <1>1
<1>6. disk' \in [Dir -> 0..PeakBytes]
  BY <1>1, <1>4
<1>7. \A d \in Dir : disk'[d] <= disk[d]
  BY <1>4, <1>5
<1>8. \A d \in gone \cup cleaned : disk'[d] = 0
  BY <1>2, <1>5
<1>9. \A j \in Job \ cleaned : disk'[j] = disk[j]
  BY <1>2, <1>3, <1>5
<1>10. \A k \in DOMAIN entries \ gone :
         entries[k].active # 0 \/ k \notin retire => disk'[k] = disk[k]
  BY <1>2, <1>3, <1>5
<1> QED  BY <1>6, <1>7, <1>8, <1>9, <1>10
\* What is lent stays lent and complete as long as no entry in use is deleted.
LEMMA DiscardLending ==
  ASSUME TypeOK, Lending,
         NEW gone \in SUBSET DOMAIN entries, NEW retire \in SUBSET DOMAIN entries,
         NEW cleaned \in SUBSET DOMAIN pending,
         \A k \in gone : entries[k].active = 0,
         Discard(gone, retire, cleaned), UNCHANGED reader
  PROVE  Lending'
<1>1. \A k \in DOMAIN entries' :
        /\ k \in DOMAIN entries \ gone
        /\ entries'[k].total = entries[k].total
        /\ entries'[k].active = entries[k].active
        /\ entries'[k].retired = (entries[k].retired \/ k \in retire)
  BY DiscardEntries
<1>2. DOMAIN entries' = DOMAIN entries \ gone
  BY DiscardEntries
<1>3. \A k \in DOMAIN entries \ gone :
        entries[k].active # 0 \/ k \notin retire => disk'[k] = disk[k]
  BY DiscardDisk
<1>4. PinsExact'
  BY <1>1 DEF Lending, PinsExact
<1>5. ASSUME NEW r \in Reader, reader[r] # NoKey
      PROVE  reader[r] \in DOMAIN entries /\ entries[reader[r]].active # 0
  <2>1. reader[r] \in DOMAIN entries
    BY <1>5 DEF Lending, ReaderFilesStay
  <2>2. IsFiniteSet({q \in Reader : reader[q] = reader[r]})
    BY SetsAssumption, FS_Subset
  <2>3. {q \in Reader : reader[q] = reader[r]} # {}
    OBVIOUS
  <2>4. Cardinality({q \in Reader : reader[q] = reader[r]}) # 0
    BY <2>2, <2>3, FS_EmptySet
  <2> QED  BY <2>1, <2>4 DEF Lending, PinsExact
<1>6. ReaderFilesStay'
  BY <1>1, <1>2, <1>3, <1>5 DEF Lending, ReaderFilesStay
<1>7. ServableIsComplete'
  BY <1>1, <1>2, <1>3 DEF Lending, ServableIsComplete
<1> QED  BY <1>4, <1>6, <1>7 DEF Lending

\* A round of removals while the jobs keep what they have charged.
LEMMA DiscardKeeps ==
  ASSUME IInv, open,
         NEW gone \in SUBSET DOMAIN entries, NEW retire \in SUBSET DOMAIN entries,
         NEW cleaned \in SUBSET DOMAIN pending,
         \A k \in gone : entries[k].active = 0,
         Discard(gone, retire, cleaned), UNCHANGED <<open, reader>>,
         reserved' = reserved - Charge(pending, cleaned),
         DOMAIN jobs' = DOMAIN jobs, jobs' \in [DOMAIN jobs -> Reservation],
         \A j \in DOMAIN jobs :
           /\ jobs'[j].bytes = jobs[j].bytes /\ jobs'[j].pages = jobs[j].pages
           /\ jobs'[j].phase \in {jobs[j].phase, "over"}
  PROVE  IInv'
<1>0. /\ Ledger /\ Lending /\ PendingBounded
      /\ TypeOK /\ Accounting /\ WithinBudget /\ JobsApart /\ JobFiles
      /\ DownForgets /\ DiskCharged
  BY DEF IInv, Ledger
<1>1. /\ DOMAIN entries' = DOMAIN entries \ gone
      /\ entries' \in [DOMAIN entries' -> Entry]
      /\ \A k \in DOMAIN entries' : entries'[k].total = entries[k].total
  BY <1>0, DiscardEntries
<1>2. /\ usedBytes' = Charge(Totals', DOMAIN entries')
      /\ usedBytes' \in Nat /\ usedBytes' <= usedBytes
      /\ DOMAIN pending' = DOMAIN pending \ cleaned
      /\ pending' \in [DOMAIN pending' -> 0..PeakBytes]
      /\ \A j \in DOMAIN pending' : pending'[j] = pending[j]
      /\ Charge(pending', DOMAIN pending')
           = Charge(pending, DOMAIN pending) - Charge(pending, cleaned)
      /\ Charge(pending', DOMAIN pending') \in Nat
      /\ Charge(pending, cleaned) \in Nat
  BY <1>0, DiscardCounts
<1>3. /\ disk' \in [Dir -> 0..PeakBytes]
      /\ \A d \in Dir : disk'[d] <= disk[d]
      /\ \A d \in gone \cup cleaned : disk'[d] = 0
      /\ \A j \in Job \ cleaned : disk'[j] = disk[j]
      /\ \A k \in DOMAIN entries \ gone :
           entries[k].active # 0 \/ k \notin retire => disk'[k] = disk[k]
  <2>1. TypeOK
    BY <1>0
  <2> QED  BY <2>1, DiscardDisk
<1>4. Charge(JobBytes', DOMAIN jobs') = Charge(JobBytes, DOMAIN jobs)
  <2>1. \A j \in DOMAIN jobs : JobBytes'[j] = JobBytes[j]
    BY DEF JobBytes
  <2> QED  BY <2>1, ChargeAgree
<1>5. Charge(JobBytes, DOMAIN jobs) \in Nat
  BY <1>0, Finite, ChargeNat
<1>6. /\ reserved' = Charge(JobBytes', DOMAIN jobs') + Charge(pending', DOMAIN pending')
      /\ reserved' \in Nat /\ reserved' <= reserved
  <2>1. reserved = Charge(JobBytes, DOMAIN jobs) + Charge(pending, DOMAIN pending)
    BY <1>0 DEF Accounting
  <2>2. Charge(pending, DOMAIN pending) \in Nat
    BY <1>0, Finite, ChargeNat
  <2> QED  BY <1>2, <1>4, <1>5, <2>1, <2>2
<1>7. TypeOK'
  BY <1>0, <1>1, <1>2, <1>3, <1>6 DEF TypeOK
<1>8. Accounting'
  BY <1>2, <1>6 DEF Accounting
<1>9. WithinBudget'
  BY <1>0, <1>2, <1>6, LimitsAssumption DEF WithinBudget, TypeOK
<1>10. JobsApart'
  BY <1>0, <1>2 DEF JobsApart
<1>11. JobFiles'
  <2>1. \A j \in DOMAIN jobs : j \in Job \ cleaned
    BY <1>0 DEF JobsApart, TypeOK
  <2> QED  BY <1>0, <1>3, <2>1 DEF JobFiles
<1>12. DownForgets'
  BY <1>0 DEF DownForgets
<1>13. DiskCharged'
  <2> SUFFICES ASSUME NEW d \in Dir
               PROVE  disk'[d] <= Allowance(d)'
    BY DEF DiskCharged
  <2>1. CASE d \in gone \cup cleaned
    <3>1. Allowance(d)' >= 0
      BY <1>1, <1>2, <1>7, PeakNat, LimitsAssumption DEF Allowance, TypeOK, Entry, Reservation
    <3> QED  BY <1>3, <2>1, <3>1
  <2>2. CASE d \notin gone \cup cleaned
    <3>1. Allowance(d)' = Allowance(d)
      BY <1>1, <1>2, <2>2 DEF Allowance
    <3>2. Allowance(d) \in Int
      BY <1>0, PeakNat, LimitsAssumption DEF Allowance, TypeOK, Entry, Reservation
    <3>3. disk[d] <= Allowance(d)
      BY <1>0 DEF DiskCharged
    <3> QED  BY <1>0, <1>3, <3>1, <3>2, <3>3, PeakNat DEF TypeOK
  <2> QED  BY <2>1, <2>2
<1>14. Ledger'
  BY <1>7, <1>8, <1>9, <1>10, <1>11, <1>12, <1>13 DEF Ledger
<1>15. Lending'
  BY <1>0, DiscardLending
<1>16. PendingBounded'
  <2>1. Cardinality(DOMAIN pending') <= Cardinality(DOMAIN pending)
    BY <1>0, <1>2, Finite, FS_Subset
  <2>2. /\ Cardinality(DOMAIN pending) \in Nat /\ Cardinality(DOMAIN pending') \in Nat
        /\ Cardinality(DOMAIN jobs) \in Nat
    BY <1>0, <1>2, Finite, FS_Subset, FS_CardinalityType
  <2> QED  BY <1>0, <2>1, <2>2, LimitsAssumption DEF PendingBounded
<1>17. DiskWithinBudget'
  <2>1. open'
    OBVIOUS
  <2> QED  BY <1>14, <2>1, OpenBudget, PTL
<1> QED  BY <1>14, <1>15, <1>16, <1>17 DEF IInv
-----------------------------------------------------------------------------
(* The actions that leave the directory and the ledger alone: lookups,     *)
(* releases and time.                                                      *)

\* A step that changes only the use counts, ages and handles of entries keeps the
\* invariant if the handles still match the counts.
LEMMA EntriesTouched ==
  ASSUME IInv, UNCHANGED <<open, usedBytes, reserved, pending, jobs, disk>>,
         DOMAIN entries' = DOMAIN entries,
         entries' \in [DOMAIN entries -> Entry],
         \A k \in DOMAIN entries : /\ entries'[k].total = entries[k].total
                                  /\ entries'[k].retired = entries[k].retired,
         reader' \in [Reader -> Key \cup {NoKey}],
         \A r \in Reader : reader'[r] # NoKey =>
           /\ open /\ reader'[r] \in DOMAIN entries
           /\ disk[reader'[r]] = entries[reader'[r]].total,
         PinsExact'
  PROVE  IInv'
<1>1. TypeOK'
  BY DEF IInv, Ledger, TypeOK
<1>2. Accounting'
  <2>1. \A k \in DOMAIN entries : Totals'[k] = Totals[k]
    BY DEF Totals
  <2>2. Charge(Totals', DOMAIN entries) = Charge(Totals, DOMAIN entries)
    BY <2>1, ChargeAgree
  <2>3. JobBytes' = JobBytes
    BY DEF JobBytes
  <2> QED  BY <2>2, <2>3 DEF IInv, Ledger, Accounting
<1>3. WithinBudget' /\ JobsApart' /\ JobFiles' /\ DownForgets'
  BY DEF IInv, Ledger, WithinBudget, JobsApart, JobFiles, DownForgets
<1>4. DiskCharged'
  BY DEF IInv, Ledger, DiskCharged, Allowance
<1>5. ReaderFilesStay' /\ ServableIsComplete'
  BY DEF IInv, Lending, ReaderFilesStay, ServableIsComplete
<1>6. PendingBounded' /\ DiskWithinBudget'
  BY DEF IInv, PendingBounded, DiskWithinBudget
<1> QED  BY <1>1, <1>2, <1>3, <1>4, <1>5, <1>6 DEF IInv, Ledger, Lending

\* lookup that returns a handle keeps the invariant.
LEMMA LookupInv ==
  ASSUME IInv, NEW r \in Reader, NEW k \in Key, Lookup(r, k)
  PROVE  IInv'
<1>1. /\ TypeOK /\ PinsExact /\ ReaderFilesStay /\ ServableIsComplete
  BY DEF IInv, Ledger, Lending
<1>2. k \in DOMAIN entries /\ ~entries[k].retired /\ entries[k] \in Entry
  BY <1>1 DEF Lookup, Due, TypeOK
<1>3. entries' = [entries EXCEPT ![k] =
                    [entries[k] EXCEPT !.active = entries[k].active + 1, !.idle = 0]]
  BY <1>1, <1>2 DEF Lookup, TypeOK, Entry
<1>4. [entries[k] EXCEPT !.active = entries[k].active + 1, !.idle = 0] \in Entry
  <2>1. 0 \in 0..CacheIdleTTL /\ entries[k].active + 1 \in Nat
    BY <1>2, LimitsAssumption DEF Entry
  <2> QED  BY <1>2, <2>1 DEF Entry
<1>5. /\ DOMAIN entries' = DOMAIN entries /\ entries' \in [DOMAIN entries -> Entry]
      /\ \A x \in DOMAIN entries : /\ entries'[x].total = entries[x].total
                                   /\ entries'[x].retired = entries[x].retired
  BY <1>1, <1>2, <1>3, <1>4 DEF TypeOK, Entry
<1>6. PinsExact'
  <2> SUFFICES ASSUME NEW x \in DOMAIN entries
               PROVE  entries'[x].active = Cardinality({q \in Reader : reader'[q] = x})
    BY <1>5 DEF PinsExact
  <2> DEFINE old == {q \in Reader : reader[q] = x}
             new == {q \in Reader : reader'[q] = x}
  <2>1. IsFiniteSet(old) /\ entries[x].active = Cardinality(old)
    BY <1>1, SetsAssumption, FS_Subset DEF PinsExact
  <2>2. reader' = [reader EXCEPT ![r] = k] /\ reader[r] = NoKey /\ x # NoKey
    BY <1>1, SetsAssumption DEF Lookup, TypeOK
  <2>3. CASE x = k
    <3>1. new = old \cup {r} /\ r \notin old
      BY <1>1, <2>2, <2>3 DEF TypeOK
    <3>2. Cardinality(new) = Cardinality(old) + 1
      BY <2>1, <3>1, FS_AddElement
    <3>3. entries'[x].active = entries[x].active + 1
      BY <1>1, <1>2, <1>3, <2>3 DEF TypeOK, Entry
    <3> QED  BY <2>1, <3>2, <3>3
  <2>4. CASE x # k
    <3>1. new = old
      BY <1>1, <2>2, <2>4 DEF TypeOK
    <3>2. entries'[x].active = entries[x].active
      BY <1>1, <1>3, <2>4 DEF TypeOK
    <3> QED  BY <2>1, <3>1, <3>2
  <2> QED  BY <2>3, <2>4
<1>7. /\ reader' \in [Reader -> Key \cup {NoKey}]
      /\ UNCHANGED <<open, usedBytes, reserved, pending, jobs, disk>>
      /\ \A q \in Reader : reader'[q] # NoKey =>
           /\ open /\ reader'[q] \in DOMAIN entries
           /\ disk[reader'[q]] = entries[reader'[q]].total
  BY <1>1, <1>2 DEF Lookup, TypeOK, ReaderFilesStay, ServableIsComplete
<1> QED  BY <1>5, <1>6, <1>7, EntriesTouched

\* pageHandle.release keeps the invariant.
LEMMA ReleaseHandleInv ==
  ASSUME IInv, NEW r \in Reader, ReleaseHandle(r)
  PROVE  IInv'
<1> DEFINE k == reader[r]
<1>1. TypeOK /\ PinsExact /\ ReaderFilesStay /\ DownForgets
  BY DEF IInv, Ledger, Lending
<1>2. k \in DOMAIN entries /\ entries[k] \in Entry /\ open
  BY <1>1 DEF ReleaseHandle, ReaderFilesStay, TypeOK, DownForgets
<1>3. entries' = [entries EXCEPT ![k] =
        [entries[k] EXCEPT !.active =
           IF entries[k].active > 0 THEN entries[k].active - 1 ELSE entries[k].active]]
  BY <1>1, <1>2 DEF ReleaseHandle, TypeOK, Entry
<1>4. [entries[k] EXCEPT !.active =
         IF entries[k].active > 0 THEN entries[k].active - 1 ELSE entries[k].active]
       \in Entry
  BY <1>2 DEF Entry
<1>5. /\ DOMAIN entries' = DOMAIN entries /\ entries' \in [DOMAIN entries -> Entry]
      /\ \A x \in DOMAIN entries : /\ entries'[x].total = entries[x].total
                                   /\ entries'[x].retired = entries[x].retired
  BY <1>1, <1>2, <1>3, <1>4 DEF TypeOK, Entry
<1>6. PinsExact'
  <2> SUFFICES ASSUME NEW x \in DOMAIN entries
               PROVE  entries'[x].active = Cardinality({q \in Reader : reader'[q] = x})
    BY <1>5 DEF PinsExact
  <2> DEFINE old == {q \in Reader : reader[q] = x}
             new == {q \in Reader : reader'[q] = x}
  <2>1. IsFiniteSet(old) /\ entries[x].active = Cardinality(old)
    BY <1>1, SetsAssumption, FS_Subset DEF PinsExact
  <2>2. reader' = [reader EXCEPT ![r] = NoKey] /\ x # NoKey
    BY <1>1, SetsAssumption DEF ReleaseHandle, TypeOK
  <2>3. CASE x = k
    <3>1. new = old \ {r} /\ r \in old
      BY <1>1, <2>2, <2>3 DEF TypeOK
    <3>2. Cardinality(new) = Cardinality(old) - 1
      BY <2>1, <3>1, FS_RemoveElement
    <3>3. Cardinality(old) \in Nat /\ Cardinality(old) # 0
      BY <2>1, <3>1, FS_EmptySet, FS_CardinalityType
    <3>4. entries[x].active > 0
      BY <2>1, <3>3
    <3>5. entries'[x].active = entries[x].active - 1
      BY <1>1, <1>2, <1>3, <2>3, <3>4 DEF TypeOK, Entry
    <3> QED  BY <2>1, <3>2, <3>5
  <2>4. CASE x # k
    <3>1. new = old
      BY <1>1, <2>2, <2>4 DEF TypeOK
    <3>2. entries'[x].active = entries[x].active
      BY <1>1, <1>3, <2>4 DEF TypeOK
    <3> QED  BY <2>1, <3>1, <3>2
  <2> QED  BY <2>3, <2>4
<1>7. /\ reader' \in [Reader -> Key \cup {NoKey}]
      /\ UNCHANGED <<open, usedBytes, reserved, pending, jobs, disk>>
      /\ \A q \in Reader : reader'[q] # NoKey =>
           /\ open /\ reader'[q] \in DOMAIN entries
           /\ disk[reader'[q]] = entries[reader'[q]].total
  BY <1>1, <1>2 DEF ReleaseHandle, TypeOK, ReaderFilesStay
<1> QED  BY <1>5, <1>6, <1>7, EntriesTouched

\* The passing of time keeps the invariant.
LEMMA TickInv ==
  ASSUME IInv, Tick
  PROVE  IInv'
<1>1. TypeOK /\ PinsExact /\ ReaderFilesStay /\ DownForgets
  BY DEF IInv, Ledger, Lending
<1>2. \A k \in DOMAIN entries : entries[k] \in Entry
  BY <1>1 DEF TypeOK
<1>3. \A n : \A bound \in Nat : n \in 0..bound => Saturate(n, bound) \in 0..bound
  BY DEF Saturate
<1>4. \A k \in DOMAIN entries :
        /\ Saturate(entries[k].idle, CacheIdleTTL) \in 0..CacheIdleTTL
        /\ Saturate(entries[k].age, CacheFallbackTTL) \in 0..CacheFallbackTTL
  BY <1>2, <1>3, LimitsAssumption DEF Entry
<1>5. /\ DOMAIN entries' = DOMAIN entries /\ entries' \in [DOMAIN entries -> Entry]
      /\ \A x \in DOMAIN entries : /\ entries'[x].total = entries[x].total
                                   /\ entries'[x].retired = entries[x].retired
                                   /\ entries'[x].active = entries[x].active
  BY <1>2, <1>4 DEF Tick, Entry
<1>6. PinsExact'
  <2>1. reader' = reader
    BY DEF Tick
  <2> QED  BY <1>1, <1>5, <2>1 DEF PinsExact
<1>7. /\ reader' \in [Reader -> Key \cup {NoKey}]
      /\ UNCHANGED <<open, usedBytes, reserved, pending, jobs, disk>>
      /\ \A q \in Reader : reader'[q] # NoKey =>
           /\ open /\ reader'[q] \in DOMAIN entries
           /\ disk[reader'[q]] = entries[reader'[q]].total
  BY <1>1 DEF Tick, TypeOK, ReaderFilesStay, DownForgets
<1> QED  BY <1>5, <1>6, <1>7, EntriesTouched
-----------------------------------------------------------------------------
(* The actions that remove.                                                *)

\* An unpinned entry is on loan to nobody.
LEMMA UnpinnedIdle ==
  ASSUME NEW S
  PROVE  Unpinned(S) \subseteq S /\ \A k \in Unpinned(S) : entries[k].active = 0
  BY DEF Unpinned

\* Only completed chapters are due.
LEMMA DueKnown == Due \subseteq DOMAIN entries
  BY DEF Due

\* lookup that removes a dead entry keeps the invariant.
LEMMA LookupRemovesInv ==
  ASSUME IInv, NEW k \in Key, LookupRemoves(k)
  PROVE  IInv'
<1>1. PICK bad \in SUBSET {k} : Discard(Unpinned({k}) \ bad, {k}, {})
  BY DEF LookupRemoves
<1>2. /\ Unpinned({k}) \ bad \in SUBSET DOMAIN entries
      /\ {k} \in SUBSET DOMAIN entries /\ {} \in SUBSET DOMAIN pending
      /\ \A x \in Unpinned({k}) \ bad : entries[x].active = 0
  BY UnpinnedIdle DEF LookupRemoves
<1>3. /\ open /\ UNCHANGED <<open, reader>> /\ jobs' = jobs /\ reserved' = reserved
      /\ TypeOK
  BY DEF LookupRemoves, IInv, Ledger
<1>4. reserved' = reserved - Charge(pending, {})
  BY <1>3, ChargeEmpty DEF TypeOK
<1>5. /\ DOMAIN jobs' = DOMAIN jobs /\ jobs' \in [DOMAIN jobs -> Reservation]
      /\ \A j \in DOMAIN jobs :
           /\ jobs'[j].bytes = jobs[j].bytes /\ jobs'[j].pages = jobs[j].pages
           /\ jobs'[j].phase \in {jobs[j].phase, "over"}
  BY <1>3 DEF TypeOK
<1> QED  BY <1>1, <1>2, <1>3, <1>4, <1>5, DiscardKeeps

\* sweepLocked keeps the invariant.
LEMMA SweepInv ==
  ASSUME IInv, NEW bad, SweepExcept(bad)
  PROVE  IInv'
<1>1. /\ Unpinned(Due) \ bad \in SUBSET DOMAIN entries
      /\ Due \in SUBSET DOMAIN entries /\ DOMAIN pending \ bad \in SUBSET DOMAIN pending
      /\ \A x \in Unpinned(Due) \ bad : entries[x].active = 0
  BY UnpinnedIdle, DueKnown
<1>2. /\ open /\ UNCHANGED <<open, reader>> /\ jobs' = jobs /\ TypeOK
      /\ Discard(Unpinned(Due) \ bad, Due, DOMAIN pending \ bad)
      /\ reserved' = reserved - Charge(pending, DOMAIN pending \ bad)
  BY DEF SweepExcept, IInv, Ledger
<1>3. /\ DOMAIN jobs' = DOMAIN jobs /\ jobs' \in [DOMAIN jobs -> Reservation]
      /\ \A j \in DOMAIN jobs :
           /\ jobs'[j].bytes = jobs[j].bytes /\ jobs'[j].pages = jobs[j].pages
           /\ jobs'[j].phase \in {jobs[j].phase, "over"}
  BY <1>2 DEF TypeOK
<1> QED  BY <1>1, <1>2, <1>3, DiscardKeeps

\* The job of a commit that fails keeps its whole reservation.
LEMMA OverKeeps ==
  ASSUME TypeOK, NEW j \in DOMAIN jobs, jobs' = [jobs EXCEPT ![j].phase = "over"]
  PROVE  /\ DOMAIN jobs' = DOMAIN jobs /\ jobs' \in [DOMAIN jobs -> Reservation]
         /\ \A i \in DOMAIN jobs :
              /\ jobs'[i].bytes = jobs[i].bytes /\ jobs'[i].pages = jobs[i].pages
              /\ jobs'[i].phase \in {jobs[i].phase, "over"}
<1>1. \A i \in DOMAIN jobs : jobs[i] \in Reservation
  BY DEF TypeOK
<1>2. jobs' = [jobs EXCEPT ![j] = [jobs[j] EXCEPT !.phase = "over"]]
  BY DEF Reservation
<1>3. [jobs[j] EXCEPT !.phase = "over"] \in Reservation
  BY <1>1 DEF Reservation
<1> QED  BY <1>1, <1>2, <1>3 DEF TypeOK, Reservation

\* commit that cannot replace the old entry keeps the invariant.
LEMMA CommitBlockedInv ==
  ASSUME IInv, NEW j \in Job, NEW k \in Key, CommitBlocked(j, k)
  PROVE  IInv'
<1>1. /\ Discard({}, Unpinned({k}), {}) /\ open /\ UNCHANGED <<open, reader>>
      /\ reserved' = reserved /\ TypeOK /\ j \in DOMAIN jobs
      /\ jobs' = [jobs EXCEPT ![j].phase = "over"]
  BY DEF CommitBlocked, CommitCalled, IInv, Ledger
<1>2. /\ {} \in SUBSET DOMAIN entries /\ {} \in SUBSET DOMAIN pending
      /\ Unpinned({k}) \in SUBSET DOMAIN entries
      /\ \A x \in {} : entries[x].active = 0
  BY UnpinnedIdle DEF CommitBlocked
<1>3. reserved' = reserved - Charge(pending, {})
  BY <1>1, ChargeEmpty DEF TypeOK
<1>4. /\ DOMAIN jobs' = DOMAIN jobs /\ jobs' \in [DOMAIN jobs -> Reservation]
      /\ \A i \in DOMAIN jobs :
           /\ jobs'[i].bytes = jobs[i].bytes /\ jobs'[i].pages = jobs[i].pages
           /\ jobs'[i].phase \in {jobs[i].phase, "over"}
  BY <1>1, OverKeeps
<1> QED  BY <1>1, <1>2, <1>3, <1>4, DiscardKeeps

\* commit whose rename fails keeps the invariant.
LEMMA CommitNotRenamedInv ==
  ASSUME IInv, NEW j \in Job, NEW k \in Key, CommitNotRenamed(j, k)
  PROVE  IInv'
<1>1. /\ Discard({k} \cap DOMAIN entries, {}, {}) /\ open /\ UNCHANGED <<open, reader>>
      /\ reserved' = reserved /\ TypeOK /\ j \in DOMAIN jobs
      /\ jobs' = [jobs EXCEPT ![j].phase = "over"]
  BY DEF CommitNotRenamed, CommitCalled, IInv, Ledger
<1>2. /\ {} \in SUBSET DOMAIN entries /\ {} \in SUBSET DOMAIN pending
      /\ {k} \cap DOMAIN entries \in SUBSET DOMAIN entries
      /\ \A x \in {k} \cap DOMAIN entries : entries[x].active = 0
  BY UnpinnedIdle DEF CommitNotRenamed
<1>3. reserved' = reserved - Charge(pending, {})
  BY <1>1, ChargeEmpty DEF TypeOK
<1>4. /\ DOMAIN jobs' = DOMAIN jobs /\ jobs' \in [DOMAIN jobs -> Reservation]
      /\ \A i \in DOMAIN jobs :
           /\ jobs'[i].bytes = jobs[i].bytes /\ jobs'[i].pages = jobs[i].pages
           /\ jobs'[i].phase \in {jobs[i].phase, "over"}
  BY <1>1, OverKeeps
<1> QED  BY <1>1, <1>2, <1>3, <1>4, DiscardKeeps

-----------------------------------------------------------------------------
(* Start, shutdown and crash.                                              *)

\* A process that remembers nothing, over a directory within the budget that
\* is empty if the cache is open.
DownState ==
  /\ entries \in [{} -> Entry] /\ pending \in [{} -> 0..PeakBytes]
  /\ jobs \in [{} -> Reservation]
  /\ usedBytes = 0 /\ reserved = 0 /\ reader \in [Reader -> {NoKey}]
  /\ open \in BOOLEAN /\ disk \in [Dir -> 0..PeakBytes]
  /\ open => \A d \in Dir : disk[d] = 0
  /\ DiskWithinBudget

\* A cache that remembers nothing satisfies the invariant while what lies on disk
\* fits the budget, and it may be open once nothing lies there.
LEMMA DownInv == DownState => IInv
<1> SUFFICES ASSUME DownState
             PROVE  IInv
  OBVIOUS
<1>0. DOMAIN entries = {} /\ DOMAIN pending = {} /\ DOMAIN jobs = {}
  BY DEF DownState
<1>1. TypeOK
  BY <1>0 DEF TypeOK, DownState
<1>2. Accounting
  BY <1>0, ChargeEmpty DEF Accounting, DownState
<1>3. WithinBudget
  BY LimitsAssumption DEF WithinBudget, DownState
<1>4. JobsApart /\ JobFiles /\ DownForgets
  BY <1>0 DEF JobsApart, JobFiles, DownForgets, DownState
<1>5. DiskCharged
  BY <1>0 DEF DiskCharged, Allowance, DownState
<1>6. Lending
  BY <1>0 DEF Lending, PinsExact, ReaderFilesStay, ServableIsComplete, DownState
<1>7. PendingBounded
  BY <1>0, FS_EmptySet, LimitsAssumption DEF PendingBounded
<1> QED  BY <1>1, <1>2, <1>3, <1>4, <1>5, <1>6, <1>7 DEF IInv, Ledger, DownState

\* The initial state satisfies the invariant.
LEMMA InitInv == Init => IInv
<1> SUFFICES ASSUME Init
             PROVE  DownState
  BY DownInv
<1>1. disk \in [Dir -> 0..PeakBytes]
  BY PeakNat DEF Init
<1>2. DiskWithinBudget
  BY ChargeZero, LimitsAssumption DEF Init, DiskWithinBudget
<1> QED  BY <1>1, <1>2 DEF Init, None, DownState

\* Files that only disappear stay within the budget.
LEMMA ShrinkingDisk ==
  ASSUME TypeOK, DiskWithinBudget, disk' \in [Dir -> 0..PeakBytes],
         \A d \in Dir : disk'[d] <= disk[d]
  PROVE  DiskWithinBudget'
<1>1. \A d \in Dir : disk'[d] \in Int /\ disk[d] \in Int /\ disk'[d] <= disk[d]
  BY PeakNat DEF TypeOK
<1>2. IsFiniteSet(Dir)
  BY Finite
<1>3. Charge(disk', Dir) <= Charge(disk, Dir)
  BY <1>1, <1>2, ChargeMonotone
<1>4. Charge(disk', Dir) \in Nat /\ Charge(disk, Dir) \in Nat
  BY <1>2, ChargeNat
<1> QED  BY <1>3, <1>4, LimitsAssumption DEF DiskWithinBudget

\* newPageCache keeps the invariant.
LEMMA OpenInv ==
  ASSUME IInv, Open
  PROVE  IInv'
<1>1. TypeOK /\ Accounting /\ DownForgets /\ DiskWithinBudget /\ ~open
  BY DEF IInv, Ledger, Open
<1>2. /\ DOMAIN entries = {} /\ DOMAIN jobs = {} /\ DOMAIN pending = {}
      /\ \A r \in Reader : reader[r] = NoKey
  BY <1>1 DEF DownForgets
<1>3. usedBytes = 0 /\ reserved = 0
  BY <1>1, <1>2, ChargeEmpty DEF Accounting
<1>4. PICK left \in SUBSET {d \in Dir : disk[d] > 0} :
        /\ disk' = [d \in Dir |-> IF d \in left THEN disk[d] ELSE 0]
        /\ open' = (left = {})
  BY DEF Open
<1>5. disk' \in [Dir -> 0..PeakBytes] /\ \A d \in Dir : disk'[d] <= disk[d]
  BY <1>1, <1>4, PeakNat DEF TypeOK
<1>6. DiskWithinBudget'
  BY <1>1, <1>5, ShrinkingDisk
<1>7. UNCHANGED <<entries, usedBytes, reserved, pending, jobs, reader>>
  BY DEF Open
<1>8. DownState'
  BY <1>1, <1>2, <1>3, <1>4, <1>5, <1>6, <1>7 DEF TypeOK, DownState
<1> QED  BY <1>8, DownInv, PTL

\* What Close and Crash have in common.
LEMMA ForgetInv ==
  ASSUME IInv, Forget, disk' \in [Dir -> 0..PeakBytes],
         \A d \in Dir : disk'[d] <= disk[d]
  PROVE  IInv'
<1>1. DiskWithinBudget'
  BY ShrinkingDisk DEF IInv, Ledger
<1>2. DownState'
  BY <1>1 DEF Forget, None, DownState
<1> QED  BY <1>2, DownInv, PTL

\* close keeps the invariant.
LEMMA CloseInv ==
  ASSUME IInv, Close
  PROVE  IInv'
<1>1. disk \in [Dir -> 0..PeakBytes] /\ PeakBytes \in Nat
  BY PeakNat DEF IInv, Ledger, TypeOK
<1>2. disk' \in [Dir -> 0..PeakBytes] /\ \A d \in Dir : disk'[d] <= disk[d]
  BY <1>1 DEF Close
<1> QED  BY <1>2, ForgetInv DEF Close

\* A crash keeps the invariant.
LEMMA CrashInv ==
  ASSUME IInv, Crash
  PROVE  IInv'
<1>1. disk \in [Dir -> 0..PeakBytes] /\ PeakBytes \in Nat
  BY PeakNat DEF IInv, Ledger, TypeOK
<1>2. disk' \in [Dir -> 0..PeakBytes] /\ \A d \in Dir : disk'[d] <= disk[d]
  BY <1>1 DEF Crash
<1> QED  BY <1>2, ForgetInv DEF Crash

-----------------------------------------------------------------------------
(* The actions of a job.                                                   *)

\* Steps of a job on its own directory, which keep what it has charged.
LEMMA JobWorks ==
  ASSUME IInv, open, NEW j \in DOMAIN jobs,
         UNCHANGED <<open, entries, usedBytes, reserved, pending, reader>>,
         DOMAIN jobs' = DOMAIN jobs, jobs' \in [DOMAIN jobs -> Reservation],
         \A i \in DOMAIN jobs : jobs'[i].bytes = jobs[i].bytes,
         disk' \in [Dir -> 0..PeakBytes], \A d \in Dir \ {j} : disk'[d] = disk[d],
         disk'[j] <= jobs[j].bytes, JobFiles'
  PROVE  IInv'
<1>0. /\ TypeOK /\ Accounting /\ WithinBudget /\ JobsApart /\ DownForgets /\ DiskCharged
      /\ Lending /\ PendingBounded
  BY DEF IInv, Ledger
<1>1. DOMAIN entries \subseteq Dir \ {j} /\ j \notin DOMAIN entries /\ j \in Dir
  BY <1>0, SetsAssumption DEF TypeOK, Dir
<1>2. TypeOK'
  BY <1>0 DEF TypeOK
<1>3. Accounting'
  <2>1. \A i \in DOMAIN jobs : JobBytes'[i] = JobBytes[i]
    BY DEF JobBytes
  <2>2. Charge(JobBytes', DOMAIN jobs) = Charge(JobBytes, DOMAIN jobs)
    BY <2>1, ChargeAgree
  <2>3. Totals' = Totals
    BY DEF Totals
  <2> QED  BY <1>0, <2>2, <2>3 DEF Accounting
<1>4. WithinBudget' /\ JobsApart' /\ DownForgets'
  BY <1>0 DEF WithinBudget, JobsApart, DownForgets
<1>5. DiskCharged'
  <2> SUFFICES ASSUME NEW d \in Dir
               PROVE  disk'[d] <= Allowance(d)'
    BY DEF DiskCharged
  <2>1. Allowance(d)' = Allowance(d)
    BY DEF Allowance
  <2>2. d = j => Allowance(d) = jobs[j].bytes
    BY <1>1 DEF Allowance
  <2> QED  BY <1>0, <2>1, <2>2 DEF DiskCharged
<1>6. Lending'
  <2>1. \A k \in DOMAIN entries : disk'[k] = disk[k]
    BY <1>1
  <2> QED  BY <1>0, <2>1 DEF Lending, PinsExact, ReaderFilesStay, ServableIsComplete
<1>7. PendingBounded'
  BY <1>0 DEF PendingBounded
<1>8. Ledger'
  BY <1>2, <1>3, <1>4, <1>5 DEF Ledger
<1>9. open'
  OBVIOUS
<1>10. DiskWithinBudget'
  BY <1>8, <1>9, OpenBudget, PTL
<1> QED  BY <1>6, <1>7, <1>8, <1>10 DEF IInv

\* Making the job directory keeps the invariant.
LEMMA MakeJobDirInv ==
  ASSUME IInv, NEW j \in Job, MakeJobDir(j)
  PROVE  IInv'
<1>1. /\ TypeOK /\ DiskCharged /\ JobFiles /\ DownForgets /\ j \in DOMAIN jobs
      /\ jobs[j].phase = "new" /\ jobs' = [jobs EXCEPT ![j].phase = "dir"]
      /\ UNCHANGED <<open, entries, usedBytes, reserved, pending, reader, disk>>
  BY DEF IInv, Ledger, MakeJobDir
<1>2. open /\ jobs[j] \in Reservation
  BY <1>1 DEF DownForgets, TypeOK
<1>3. jobs' = [jobs EXCEPT ![j] = [jobs[j] EXCEPT !.phase = "dir"]]
  BY <1>1, <1>2 DEF Reservation
<1>4. [jobs[j] EXCEPT !.phase = "dir"] \in Reservation
  BY <1>2 DEF Reservation
<1>5. /\ DOMAIN jobs' = DOMAIN jobs /\ jobs' \in [DOMAIN jobs -> Reservation]
      /\ jobs'[j].phase = "dir" /\ \A i \in DOMAIN jobs \ {j} : jobs'[i] = jobs[i]
      /\ jobs'[j].bytes = jobs[j].bytes /\ jobs'[j].pages = jobs[j].pages
  BY <1>1, <1>2, <1>3, <1>4 DEF TypeOK, Reservation
<1>6. disk[j] = 0 /\ jobs[j].bytes = PeakBytes
  BY <1>1 DEF JobFiles
<1>7. JobFiles'
  BY <1>1, <1>5 DEF JobFiles
<1>8. /\ disk' \in [Dir -> 0..PeakBytes] /\ \A d \in Dir \ {j} : disk'[d] = disk[d]
      /\ disk'[j] <= jobs[j].bytes
  BY <1>1, <1>6, PeakNat DEF TypeOK
<1>9. \A i \in DOMAIN jobs : jobs'[i].bytes = jobs[i].bytes
  BY <1>5
<1> QED  BY <1>1, <1>2, <1>5, <1>7, <1>8, <1>9, JobWorks

\* Downloading and extracting keep the invariant.
LEMMA FillJobInv ==
  ASSUME IInv, NEW j \in Job, FillJob(j)
  PROVE  IInv'
<1>1. /\ TypeOK /\ JobFiles /\ DownForgets /\ j \in DOMAIN jobs /\ jobs[j].phase = "dir"
      /\ UNCHANGED <<open, entries, usedBytes, reserved, pending, reader>>
  BY DEF IInv, Ledger, FillJob
<1>2. PICK archive \in 0..(MaxArchiveBytes + 1), pages \in 0..MaxTotalBytes :
        /\ pages > 0 => archive \in 1..MaxArchiveBytes
        /\ disk' = [disk EXCEPT ![j] = archive + pages]
        /\ jobs' = [jobs EXCEPT ![j].phase = "filled", ![j].pages = pages]
  BY DEF FillJob
<1>3. /\ archive + pages \in 0..PeakBytes /\ pages <= archive + pages
      /\ pages \in 0..MaxTotalBytes
  BY <1>2, LimitsAssumption DEF PeakBytes
<1>4. open /\ jobs[j] \in Reservation /\ j \in Dir /\ jobs[j].bytes = PeakBytes
  BY <1>1 DEF DownForgets, TypeOK, JobFiles, Dir
<1>5. jobs' = [jobs EXCEPT ![j] = [jobs[j] EXCEPT !.phase = "filled", !.pages = pages]]
  BY <1>1, <1>2, <1>4 DEF Reservation, TypeOK
<1>6. [jobs[j] EXCEPT !.phase = "filled", !.pages = pages] \in Reservation
  BY <1>3, <1>4 DEF Reservation
<1>7. /\ DOMAIN jobs' = DOMAIN jobs /\ jobs' \in [DOMAIN jobs -> Reservation]
      /\ jobs'[j].phase = "filled" /\ \A i \in DOMAIN jobs \ {j} : jobs'[i] = jobs[i]
      /\ jobs'[j].bytes = jobs[j].bytes /\ jobs'[j].pages = pages
  BY <1>1, <1>4, <1>5, <1>6 DEF TypeOK, Reservation
<1>8. /\ disk' \in [Dir -> 0..PeakBytes] /\ \A d \in Dir \ {j} : disk'[d] = disk[d]
      /\ disk'[j] = archive + pages /\ disk'[j] <= jobs[j].bytes
  BY <1>1, <1>2, <1>3, <1>4, PeakNat DEF TypeOK
<1>9. JobFiles'
  <2>1. \A i \in DOMAIN jobs : i # j => i \in Dir \ {j}
    BY <1>1 DEF TypeOK, Dir
  <2> QED  BY <1>1, <1>3, <1>4, <1>7, <1>8, <2>1 DEF JobFiles
<1>10. \A i \in DOMAIN jobs : jobs'[i].bytes = jobs[i].bytes
  BY <1>7
<1> QED  BY <1>1, <1>4, <1>7, <1>8, <1>9, <1>10, JobWorks
\* The one job there is accounts for all that jobs charge.
LEMMA OneJob ==
  ASSUME TypeOK, JobsApart, NEW j \in DOMAIN jobs
  PROVE  /\ DOMAIN jobs = {j} /\ j \in Job /\ jobs[j] \in Reservation
         /\ Charge(JobBytes, DOMAIN jobs) = jobs[j].bytes
<1>1. DOMAIN jobs = {j} /\ j \in Job /\ jobs[j] \in Reservation
  BY DEF TypeOK, JobsApart
<1>2. JobBytes[j] = jobs[j].bytes /\ JobBytes[j] \in 0..PeakBytes
  BY <1>1 DEF JobBytes, Reservation
<1>3. Charge(JobBytes, {j}) = JobBytes[j]
  BY <1>2, ChargeSingleton
<1> QED  BY <1>1, <1>2, <1>3

\* While the cache is open the budget on disk follows from the ledger.
LEMMA OpenInvariant == open /\ Ledger /\ Lending /\ PendingBounded => IInv
  BY OpenBudget DEF IInv

\* Lending depends on entries, readers and entry directories only.
LEMMA LendingKept ==
  ASSUME Lending, UNCHANGED <<entries, reader>>,
         \A k \in DOMAIN entries : disk'[k] = disk[k]
  PROVE  Lending'
  BY DEF Lending, PinsExact, ReaderFilesStay, ServableIsComplete

\* cacheReservation.release keeps the invariant.
LEMMA ReleaseJobInv ==
  ASSUME IInv, NEW j \in Job, ReleaseJob(j)
  PROVE  IInv'
<1> DEFINE P == DOMAIN pending
<1>0. /\ TypeOK /\ Accounting /\ WithinBudget /\ JobsApart /\ DownForgets /\ DiskCharged
      /\ Lending /\ PendingBounded /\ Ledger
  BY DEF IInv, Ledger
<1>1. /\ DOMAIN jobs = {j} /\ jobs[j] \in Reservation /\ j \notin P
      /\ Charge(JobBytes, DOMAIN jobs) = jobs[j].bytes /\ open
  BY <1>0, OneJob DEF ReleaseJob, JobsApart, DownForgets
<1>2. /\ jobs' = None /\ DOMAIN jobs' = {} /\ Totals' = Totals
      /\ UNCHANGED <<open, entries, usedBytes, reader>>
  BY DEF ReleaseJob, None, Totals
<1>3. jobs[j].bytes \in 0..PeakBytes /\ PeakBytes \in Nat
  BY <1>1, PeakNat DEF Reservation
<1>4. IsFiniteSet(P) /\ Charge(pending, P) \in Nat /\ Cardinality(P) \in Nat
  BY <1>0, Finite, ChargeNat, FS_CardinalityType
<1>5. reserved = jobs[j].bytes + Charge(pending, P)
  BY <1>0, <1>1 DEF Accounting
<1>6. Charge(JobBytes', DOMAIN jobs') = 0
  BY <1>2, ChargeEmpty
<1>7. j \in Dir /\ j \notin DOMAIN entries /\ DOMAIN entries \subseteq Dir \ {j}
  BY <1>0, SetsAssumption DEF Dir, TypeOK
<1>8. Cardinality(P) + 1 <= MaxPendingCleanup /\ MaxPendingCleanup \in Nat
  <2>1. Cardinality(DOMAIN jobs) = 1
    BY <1>1, FS_Singleton
  <2> QED  BY <1>0, <2>1, LimitsAssumption DEF PendingBounded
<1>9. Cardinality(DOMAIN jobs') = 0
  BY <1>2, FS_EmptySet
<1>10. CASE /\ reserved' = reserved - jobs[j].bytes
            /\ disk' = [disk EXCEPT ![j] = 0]
            /\ UNCHANGED pending
  <2>1. reserved' = Charge(pending, P) /\ reserved' \in Nat /\ reserved' <= reserved
    BY <1>3, <1>4, <1>5, <1>10
  <2>2. Charge(pending', DOMAIN pending') = Charge(pending, P)
    BY <1>10
  <2>3. TypeOK'
    <3>1. disk' \in [Dir -> 0..PeakBytes]
      <4>1. 0 \in 0..PeakBytes
        BY <1>3
      <4>2. disk \in [Dir -> 0..PeakBytes]
        BY <1>0 DEF TypeOK
      <4> QED  BY <1>10, <4>1, <4>2
    <3>2. jobs' \in [DOMAIN jobs' -> Reservation]
      BY <1>2 DEF None
    <3>3. DOMAIN pending' \subseteq Job /\ pending' \in [DOMAIN pending' -> 0..PeakBytes]
      BY <1>0, <1>10 DEF TypeOK
    <3> QED  BY <1>0, <1>2, <2>1, <3>1, <3>2, <3>3 DEF TypeOK
  <2>4. Accounting'
    <3>1. usedBytes' = Charge(Totals', DOMAIN entries')
      BY <1>0, <1>2 DEF Accounting
    <3>2. reserved' = Charge(JobBytes', DOMAIN jobs') + Charge(pending', DOMAIN pending')
      BY <1>4, <1>6, <2>1, <2>2
    <3> QED  BY <3>1, <3>2 DEF Accounting
  <2>5. WithinBudget'
    BY <1>0, <1>2, <2>1, LimitsAssumption DEF WithinBudget, TypeOK
  <2>6. JobsApart' /\ JobFiles' /\ DownForgets'
    BY <1>1, <1>2 DEF JobsApart, JobFiles, DownForgets
  <2>7. DiskCharged'
    <3> SUFFICES ASSUME NEW d \in Dir
                 PROVE  disk'[d] <= Allowance(d)'
      BY DEF DiskCharged
    <3>1. CASE d = j
      BY <1>0, <1>1, <1>2, <1>7, <1>10, <3>1 DEF Allowance, TypeOK
    <3>2. CASE d # j
      BY <1>0, <1>1, <1>2, <1>10, <3>2 DEF Allowance, DiskCharged, TypeOK
    <3> QED  BY <3>1, <3>2
  <2>8. Ledger'
    BY <2>3, <2>4, <2>5, <2>6, <2>7 DEF Ledger
  <2>9. Lending'
    <3>1. \A k \in DOMAIN entries : disk'[k] = disk[k]
      BY <1>0, <1>7, <1>10 DEF TypeOK
    <3> QED  BY <1>0, <1>2, <3>1, LendingKept
  <2>10. PendingBounded'
    <3>1. DOMAIN pending' = P
      BY <1>10
    <3> QED  BY <1>4, <1>8, <1>9, <3>1 DEF PendingBounded
  <2>11. open'
    BY <1>1, <1>2
  <2> QED  BY <2>8, <2>9, <2>10, <2>11, OpenInvariant, PTL
<1>11. CASE /\ jobs[j].phase # "new"
            /\ pending' = [x \in DOMAIN pending \cup {j} |->
                             IF x = j THEN jobs[j].bytes ELSE pending[x]]
            /\ UNCHANGED <<reserved, disk>>
  <2>1. /\ DOMAIN pending' = P \cup {j} /\ P \ {j} = P
        /\ pending'[j] = jobs[j].bytes /\ \A x \in P \ {j} : pending'[x] = pending[x]
        /\ pending' \in [DOMAIN pending' -> 0..PeakBytes]
    BY <1>0, <1>1, <1>3, <1>11 DEF TypeOK
  <2>2. Charge(pending', P \cup {j}) = Charge(pending, P \ {j}) + pending'[j]
    BY <1>3, <1>4, <2>1, ChargePut
  <2>3. Charge(pending', DOMAIN pending') = Charge(pending, P) + jobs[j].bytes
    BY <2>1, <2>2
  <2>4. reserved' = reserved
    BY <1>11
  <2>5. reserved' = Charge(pending', DOMAIN pending')
    BY <1>3, <1>4, <1>5, <2>3, <2>4
  <2>6. TypeOK'
    BY <1>0, <1>2, <1>11, <2>1 DEF TypeOK, None
  <2>7. Accounting'
    <3>1. Charge(pending', DOMAIN pending') \in Int
      BY <1>3, <1>4, <2>3
    <3> QED  BY <1>0, <1>2, <1>6, <2>5, <3>1 DEF Accounting
  <2>8. WithinBudget'
    BY <1>0, <1>2, <2>4 DEF WithinBudget
  <2>9. JobsApart' /\ JobFiles' /\ DownForgets'
    BY <1>1, <1>2 DEF JobsApart, JobFiles, DownForgets
  <2>10. DiskCharged'
    <3>1. \A d \in Dir : Allowance(d)' = Allowance(d)
      BY <1>1, <1>2, <1>7, <2>1 DEF Allowance
    <3> QED  BY <1>0, <1>1, <1>11, <3>1 DEF DiskCharged
  <2>11. Ledger'
    BY <2>6, <2>7, <2>8, <2>9, <2>10 DEF Ledger
  <2>12. Lending'
    BY <1>0, <1>2, <1>11, LendingKept
  <2>13. PendingBounded'
    <3>1. Cardinality(P \cup {j}) = Cardinality(P) + 1
      BY <1>1, <1>4, FS_AddElement
    <3> QED  BY <1>4, <1>8, <1>9, <2>1, <3>1 DEF PendingBounded
  <2>14. open'
    BY <1>1, <1>2
  <2> QED  BY <2>11, <2>12, <2>13, <2>14, OpenInvariant, PTL
<1> QED  BY <1>10, <1>11 DEF ReleaseJob
\* The archive stays charged to the job, the pages move to the entry.
LEMMA CommitInv ==
  ASSUME IInv, NEW j \in Job, NEW k \in Key, NEW validated \in BOOLEAN,
         Commit(j, k, validated)
  PROVE  IInv'
<1> DEFINE E == DOMAIN entries
           old == {k} \cap E
           total == jobs[j].pages
           new == [total |-> total, idle |-> 0, age |-> 0, validated |-> validated,
                   active |-> 0, retired |-> FALSE]
<1>0. /\ TypeOK /\ Accounting /\ WithinBudget /\ JobsApart /\ JobFiles /\ DownForgets
      /\ DiskCharged /\ Lending /\ PendingBounded
  BY DEF IInv, Ledger
<1>1. /\ open /\ j \in DOMAIN jobs /\ jobs[j].phase = "filled" /\ total > 0
      /\ \A x \in old : entries[x].active = 0
      /\ UNCHANGED <<open, pending, reader>>
  BY UnpinnedIdle DEF Commit, CommitCalled
<1>2. /\ DOMAIN jobs = {j} /\ jobs[j] \in Reservation /\ j \notin DOMAIN pending
      /\ Charge(JobBytes, DOMAIN jobs) = jobs[j].bytes
  BY <1>0, <1>1, OneJob DEF JobsApart
<1>3. /\ total \in 1..MaxTotalBytes /\ total \in Nat /\ total <= PeakBytes
      /\ total <= disk[j] /\ disk[j] \in 0..PeakBytes /\ PeakBytes \in Nat
      /\ jobs[j].bytes = PeakBytes
  BY <1>0, <1>1, <1>2, PeakNat, LimitsAssumption DEF Reservation, JobFiles, TypeOK, Dir
<1>4. /\ j \in Dir /\ k \in Dir /\ j # k /\ j \notin Key /\ E \subseteq Key /\ k \notin DOMAIN jobs
      /\ Key \subseteq Dir
  BY <1>0, <1>2, SetsAssumption DEF Dir, TypeOK
<1>5. /\ DOMAIN entries' = E \cup {k} /\ entries'[k] = new
      /\ \A x \in E \ {k} : entries'[x] = entries[x]
      /\ entries' \in [DOMAIN entries' -> Entry]
  <2>1. entries' = [x \in E \cup {k} |-> IF x = k THEN new ELSE entries[x]]
    BY DEF Commit
  <2>2. new \in Entry
    BY <1>3, LimitsAssumption DEF Entry
  <2> QED  BY <1>0, <2>1, <2>2 DEF TypeOK
<1>6. /\ jobs' = [jobs EXCEPT ![j] = [jobs[j] EXCEPT !.bytes = PeakBytes - total,
                                                  !.phase = "over", !.pages = 0]]
      /\ [jobs[j] EXCEPT !.bytes = PeakBytes - total, !.phase = "over", !.pages = 0]
           \in Reservation
  BY <1>0, <1>1, <1>2, <1>3, LimitsAssumption DEF Commit, Reservation, TypeOK
<1>7. /\ DOMAIN jobs' = {j} /\ jobs' \in [DOMAIN jobs' -> Reservation]
      /\ jobs'[j].bytes = PeakBytes - total /\ jobs'[j].phase = "over" /\ jobs'[j].pages = 0
  BY <1>0, <1>2, <1>6 DEF TypeOK, Reservation
<1>8. /\ disk' \in [Dir -> 0..PeakBytes] /\ disk'[k] = total /\ disk'[j] = disk[j] - total
      /\ \A d \in Dir \ {j, k} : disk'[d] = disk[d]
  BY <1>0, <1>3, <1>4 DEF Commit, TypeOK
<1>9. /\ IsFiniteSet(E) /\ IsFiniteSet(old) /\ IsFiniteSet(E \ {k})
      /\ Charge(Totals, old) \in Nat /\ Charge(Totals, E \ {k}) \in Nat
      /\ Charge(pending, DOMAIN pending) \in Nat
  <2>1. IsFiniteSet(E) /\ IsFiniteSet(DOMAIN pending) /\ old \in SUBSET E
    BY <1>0, Finite
  <2>2. IsFiniteSet(old) /\ IsFiniteSet(E \ {k})
    BY <2>1, FS_Subset
  <2> QED  BY <2>1, <2>2, ChargeNat
<1>10. usedBytes = Charge(Totals, old) + Charge(Totals, E \ {k})
  <2>1. E \ old = E \ {k} /\ old \in SUBSET E
    OBVIOUS
  <2>2. Charge(Totals, E) = Charge(Totals, old) + Charge(Totals, E \ old)
    BY <1>9, <2>1, ChargeSplit
  <2>3. usedBytes = Charge(Totals, E)
    BY <1>0 DEF Accounting
  <2> QED  BY <2>1, <2>2, <2>3
<1>11. Charge(Totals', DOMAIN entries') = Charge(Totals, E \ {k}) + total
  <2>1. /\ Totals'[k] = total /\ Totals'[k] \in 0..PeakBytes
        /\ \A x \in E \ {k} : Totals'[x] = Totals[x]
    BY <1>3, <1>5 DEF Totals
  <2>2. Charge(Totals', E \cup {k}) = Charge(Totals, E \ {k}) + Totals'[k]
    <3> HIDE DEF E, old, total, new
    <3>1. IsFiniteSet(E)
      BY <1>9
    <3> QED  BY <2>1, <3>1, ChargePut
  <2> QED  BY <1>5, <2>1, <2>2
<1>12. Charge(JobBytes', DOMAIN jobs') = PeakBytes - total
  <2>1. JobBytes'[j] = PeakBytes - total /\ JobBytes'[j] \in 0..PeakBytes
    BY <1>3, <1>7 DEF JobBytes
  <2> QED  BY <1>7, <2>1, ChargeSingleton
<1>13. /\ usedBytes' = usedBytes - Charge(Totals, old) + total
       /\ reserved' = reserved - total
       /\ reserved = PeakBytes + Charge(pending, DOMAIN pending)
  BY <1>0, <1>2, <1>3 DEF Commit, Accounting
<1>14. usedBytes' \in Nat /\ reserved' \in Nat /\ usedBytes' + reserved' <= usedBytes + reserved
  BY <1>3, <1>9, <1>10, <1>13
<1>15. TypeOK'
  BY <1>0, <1>1, <1>2, <1>4, <1>5, <1>7, <1>8, <1>14 DEF TypeOK
<1>16. Accounting'
  <2>1. usedBytes' = Charge(Totals', DOMAIN entries')
    BY <1>3, <1>9, <1>10, <1>11, <1>13
  <2>2. reserved' = Charge(JobBytes', DOMAIN jobs') + Charge(pending', DOMAIN pending')
    BY <1>1, <1>3, <1>9, <1>12, <1>13
  <2> QED  BY <2>1, <2>2 DEF Accounting
<1>17. WithinBudget'
  BY <1>0, <1>14, LimitsAssumption DEF WithinBudget, TypeOK
<1>18. JobsApart' /\ DownForgets'
  BY <1>1, <1>2, <1>7 DEF JobsApart, DownForgets
<1>19. JobFiles'
  BY <1>3, <1>7, <1>8 DEF JobFiles
<1>20. DiskCharged'
  <2> SUFFICES ASSUME NEW d \in Dir
               PROVE  disk'[d] <= Allowance(d)'
    BY DEF DiskCharged
  <2>1. CASE d = k
    BY <1>3, <1>5, <1>8, <2>1 DEF Allowance
  <2>2. CASE d = j
    <3>1. Allowance(d)' = PeakBytes - total
      BY <1>4, <1>5, <1>7, <2>2 DEF Allowance
    <3> QED  BY <1>3, <1>8, <2>2, <3>1
  <2>3. CASE d # k /\ d # j
    <3>1. Allowance(d)' = Allowance(d)
      BY <1>1, <1>2, <1>5, <1>7, <2>3 DEF Allowance
    <3> QED  BY <1>0, <1>1, <1>8, <2>3, <3>1 DEF DiskCharged
  <2> QED  BY <2>1, <2>2, <2>3
<1>21. Lending'
  <2>1. \A r \in Reader : reader[r] # k
    <3> SUFFICES ASSUME NEW r \in Reader, reader[r] = k
                 PROVE  FALSE
      OBVIOUS
    <3>1. k \in E /\ entries[k].active = 0
      BY <1>0, <1>1, SetsAssumption DEF Lending, ReaderFilesStay
    <3>2. IsFiniteSet({q \in Reader : reader[q] = k})
      BY SetsAssumption, FS_Subset
    <3>3. Cardinality({q \in Reader : reader[q] = k}) = 0
      BY <1>0, <3>1 DEF Lending, PinsExact
    <3> QED  BY <3>2, <3>3, FS_EmptySet
  <2>2. {r \in Reader : reader[r] = k} = {}
    BY <2>1
  <2>3. PinsExact'
    <3>1. entries'[k].active = Cardinality({r \in Reader : reader[r] = k})
      BY <1>5, <2>2, FS_EmptySet
    <3>2. \A x \in E \ {k} : entries'[x].active = Cardinality({r \in Reader : reader[r] = x})
      BY <1>0, <1>5 DEF Lending, PinsExact
    <3>3. reader' = reader
      BY <1>1
    <3> QED  BY <1>5, <3>1, <3>2, <3>3 DEF PinsExact
  <2>4. \A x \in E \ {k} : disk'[x] = disk[x]
    BY <1>4, <1>8
  <2>5. ReaderFilesStay' /\ ServableIsComplete'
    BY <1>0, <1>1, <1>5, <1>8, <2>1, <2>4 DEF Lending, ReaderFilesStay, ServableIsComplete
  <2> QED  BY <2>3, <2>5 DEF Lending
<1>22. PendingBounded'
  BY <1>0, <1>1, <1>2, <1>7 DEF PendingBounded
<1>23. Ledger' /\ open'
  BY <1>1, <1>15, <1>16, <1>17, <1>18, <1>19, <1>20 DEF Ledger
<1> QED  BY <1>21, <1>22, <1>23, OpenInvariant, PTL
\* A job that is refused: what was swept and evicted is gone, nothing else.
LEMMA ReserveRefused ==
  ASSUME IInv, open, jobs = None, jobs' = None, UNCHANGED <<open, reader>>,
         NEW gone \in SUBSET DOMAIN entries, NEW retire \in SUBSET DOMAIN entries,
         NEW cleaned \in SUBSET DOMAIN pending,
         \A k \in gone : entries[k].active = 0,
         Discard(gone, retire, cleaned),
         reserved' = reserved - Charge(pending, cleaned)
  PROVE  IInv'
<1>1. DOMAIN jobs = {} /\ DOMAIN jobs' = DOMAIN jobs /\ jobs' \in [DOMAIN jobs -> Reservation]
  BY DEF None
<1> QED  BY <1>1, DiscardKeeps

\* A job that is admitted fits the budget with all that is left, and leaves
\* room for its own directory among the pending ones.
LEMMA ReserveAdmitted ==
  ASSUME IInv, open, jobs = None, UNCHANGED <<open, reader>>,
         NEW j \in Job, j \notin DOMAIN pending, disk[j] = 0,
         jobs' = [x \in {j} |-> [bytes |-> PeakBytes, phase |-> "new", pages |-> 0]],
         NEW gone \in SUBSET DOMAIN entries, NEW retire \in SUBSET DOMAIN entries,
         NEW cleaned \in SUBSET DOMAIN pending,
         \A k \in gone : entries[k].active = 0,
         Discard(gone, retire, cleaned),
         reserved' = reserved - Charge(pending, cleaned) + PeakBytes,
         usedBytes - Charge(Totals, gone) + reserved - Charge(pending, cleaned) + PeakBytes
           <= MaxBytes,
         Cardinality(DOMAIN pending \ cleaned) < MaxPendingCleanup
  PROVE  IInv'
<1>0. /\ TypeOK /\ Accounting /\ DownForgets /\ DiskCharged /\ Lending
  BY DEF IInv, Ledger
<1>1. /\ DOMAIN entries' = DOMAIN entries \ gone
      /\ entries' \in [DOMAIN entries' -> Entry]
      /\ \A k \in DOMAIN entries' : entries'[k].total = entries[k].total
  BY <1>0, DiscardEntries
<1>2. /\ usedBytes' = Charge(Totals', DOMAIN entries')
      /\ usedBytes' = usedBytes - Charge(Totals, gone) /\ usedBytes' \in Nat
      /\ DOMAIN pending' = DOMAIN pending \ cleaned
      /\ pending' \in [DOMAIN pending' -> 0..PeakBytes]
      /\ \A i \in DOMAIN pending' : pending'[i] = pending[i]
      /\ Charge(pending', DOMAIN pending')
           = Charge(pending, DOMAIN pending) - Charge(pending, cleaned)
      /\ Charge(pending', DOMAIN pending') \in Nat
      /\ Charge(pending, cleaned) \in Nat
  BY <1>0, DiscardCounts
<1>3. /\ disk' \in [Dir -> 0..PeakBytes]
      /\ \A d \in Dir : disk'[d] <= disk[d]
      /\ \A d \in gone \cup cleaned : disk'[d] = 0
      /\ \A i \in Job \ cleaned : disk'[i] = disk[i]
      /\ \A k \in DOMAIN entries \ gone :
           entries[k].active # 0 \/ k \notin retire => disk'[k] = disk[k]
  <2>1. TypeOK
    BY <1>0
  <2> QED  BY <2>1, DiscardDisk
<1>4. PeakBytes \in Nat /\ disk'[j] = 0 /\ j \notin DOMAIN entries /\ j \in Dir
  BY <1>0, <1>3, PeakNat, SetsAssumption DEF TypeOK, Dir
<1>5. /\ DOMAIN jobs' = {j} /\ jobs'[j].bytes = PeakBytes /\ jobs'[j].phase = "new"
      /\ jobs'[j].pages = 0 /\ jobs' \in [DOMAIN jobs' -> Reservation]
  BY <1>4, LimitsAssumption DEF Reservation
<1>6. Charge(JobBytes', DOMAIN jobs') = PeakBytes
  <2>1. JobBytes'[j] = PeakBytes /\ JobBytes'[j] \in 0..PeakBytes
    BY <1>4, <1>5 DEF JobBytes
  <2> QED  BY <1>5, <2>1, ChargeSingleton
<1>7. reserved = Charge(pending, DOMAIN pending) /\ Charge(pending, DOMAIN pending) \in Nat
  <2>1. DOMAIN jobs = {}
    BY DEF None
  <2>2. Charge(JobBytes, DOMAIN jobs) = 0
    BY <2>1, ChargeEmpty
  <2>3. Charge(pending, DOMAIN pending) \in Nat
    BY <1>0, Finite, ChargeNat
  <2>4. reserved = Charge(JobBytes, DOMAIN jobs) + Charge(pending, DOMAIN pending)
    BY <1>0 DEF Accounting
  <2> QED  BY <2>2, <2>3, <2>4
<1>8. /\ reserved' = Charge(JobBytes', DOMAIN jobs') + Charge(pending', DOMAIN pending')
      /\ reserved' \in Nat
  BY <1>2, <1>4, <1>6, <1>7
<1>9. TypeOK'
  BY <1>0, <1>1, <1>2, <1>3, <1>5, <1>8 DEF TypeOK
<1>10. Accounting'
  BY <1>2, <1>8 DEF Accounting
<1>11. WithinBudget'
  <2>1. reserved \in Nat /\ MaxBytes \in Nat
    BY <1>0, LimitsAssumption DEF TypeOK
  <2> QED  BY <1>2, <1>4, <2>1 DEF WithinBudget
<1>12. JobsApart' /\ JobFiles' /\ DownForgets'
  BY <1>0, <1>2, <1>4, <1>5 DEF JobsApart, JobFiles, DownForgets
<1>13. DiskCharged'
  <2> SUFFICES ASSUME NEW d \in Dir
               PROVE  disk'[d] <= Allowance(d)'
    BY DEF DiskCharged
  <2>1. Allowance(d)' >= 0
    BY <1>5, <1>9, <1>4, LimitsAssumption DEF Allowance, TypeOK, Entry, Reservation
  <2>2. CASE d \in gone \cup cleaned \cup {j}
    BY <1>3, <1>4, <2>1, <2>2
  <2>3. CASE d \notin gone \cup cleaned \cup {j}
    <3>1. Allowance(d)' = Allowance(d)
      BY <1>1, <1>2, <1>5, <2>3 DEF Allowance, None
    <3>2. Allowance(d) \in Int
      BY <1>0, <1>4, LimitsAssumption DEF Allowance, TypeOK, Entry, Reservation
    <3>3. disk[d] <= Allowance(d) /\ disk[d] \in Int /\ disk'[d] \in Int
      BY <1>0, <1>3, <1>4 DEF DiskCharged, TypeOK
    <3> QED  BY <1>3, <3>1, <3>2, <3>3
  <2> QED  BY <2>2, <2>3
<1>14. Lending'
  BY <1>0, DiscardLending
<1>15. PendingBounded'
  <2>1. Cardinality(DOMAIN jobs') = 1
    BY <1>5, FS_Singleton
  <2>2. Cardinality(DOMAIN pending \ cleaned) \in Nat
    BY <1>0, Finite, FS_Difference, FS_CardinalityType
  <2> QED  BY <1>2, <2>1, <2>2, LimitsAssumption DEF PendingBounded
<1>16. Ledger' /\ open'
  BY <1>9, <1>10, <1>11, <1>12, <1>13 DEF Ledger
<1> QED  BY <1>14, <1>15, <1>16, OpenInvariant, PTL

\* reserve, admitted or refused, keeps the invariant.
LEMMA ReserveInv ==
  ASSUME IInv, NEW j \in Job, Reserve(j)
  PROVE  IInv'
<1> DEFINE pool == Unpinned(DOMAIN entries \ Due)
           gone(bad, victims) == (Unpinned(Due) \ bad) \cup (victims \ bad)
           cleaned(bad) == DOMAIN pending \ bad
           stuck(bad) == TooManyPending(Cardinality(DOMAIN pending \cap bad))
           over(bad, victims) ==
             usedBytes - Charge(Totals, gone(bad, victims)) + reserved
               - Charge(pending, cleaned(bad)) + PeakBytes > MaxBytes
           admit(bad, victims) == ~stuck(bad) /\ ~over(bad, victims)
<1>0. /\ open /\ jobs = None /\ j \notin DOMAIN pending /\ disk[j] = 0
      /\ UNCHANGED <<open, reader>> /\ TypeOK
  BY DEF Reserve, IInv, Ledger
<1>1. PICK bad \in SUBSET (DOMAIN entries \cup DOMAIN pending), victims \in SUBSET pool :
        /\ Discard(gone(bad, victims), Due \cup victims, cleaned(bad))
        /\ reserved' = reserved - Charge(pending, cleaned(bad))
                         + IF admit(bad, victims) THEN PeakBytes ELSE 0
        /\ jobs' = IF admit(bad, victims)
                   THEN [x \in {j} |-> [bytes |-> PeakBytes, phase |-> "new", pages |-> 0]]
                   ELSE None
  BY DEF Reserve
<1>2. /\ gone(bad, victims) \in SUBSET DOMAIN entries
      /\ Due \cup victims \in SUBSET DOMAIN entries
      /\ cleaned(bad) \in SUBSET DOMAIN pending
      /\ \A k \in gone(bad, victims) : entries[k].active = 0
  BY UnpinnedIdle, DueKnown
<1>3. CASE ~admit(bad, victims)
  <2>1. /\ reserved' = reserved - Charge(pending, cleaned(bad)) + 0 /\ jobs' = None
    BY <1>1, <1>3
  <2>2. Charge(pending, cleaned(bad)) \in Nat /\ reserved \in Nat
    BY <1>0, Finite, FS_Subset, ChargeNat DEF TypeOK
  <2>3. reserved' = reserved - Charge(pending, cleaned(bad))
    BY <2>1, <2>2
  <2>4. Discard(gone(bad, victims), Due \cup victims, cleaned(bad))
    BY <1>1
  <2> HIDE DEF gone, cleaned, admit
  <2> QED  BY <1>0, <1>2, <2>1, <2>3, <2>4, ReserveRefused
<1>4. CASE admit(bad, victims)
  <2>1. /\ reserved' = reserved - Charge(pending, cleaned(bad)) + PeakBytes
        /\ jobs' = [x \in {j} |-> [bytes |-> PeakBytes, phase |-> "new", pages |-> 0]]
    BY <1>1, <1>4
  <2>2. ~(usedBytes - Charge(Totals, gone(bad, victims)) + reserved
            - Charge(pending, cleaned(bad)) + PeakBytes > MaxBytes)
    BY <1>4
  <2>3. /\ Charge(pending, cleaned(bad)) \in Nat /\ Charge(Totals, gone(bad, victims)) \in Nat
        /\ usedBytes \in Nat /\ reserved \in Nat /\ PeakBytes \in Nat /\ MaxBytes \in Nat
    BY <1>0, <1>2, Finite, FS_Subset, ChargeNat, PeakNat, LimitsAssumption DEF TypeOK
  <2>4. usedBytes - Charge(Totals, gone(bad, victims)) + reserved
          - Charge(pending, cleaned(bad)) + PeakBytes <= MaxBytes
    BY <2>2, <2>3
  <2>5. Cardinality(DOMAIN pending \ cleaned(bad)) < MaxPendingCleanup
    <3>1. DOMAIN pending \ cleaned(bad) = DOMAIN pending \cap bad
      OBVIOUS
    <3>2. Cardinality(DOMAIN pending \cap bad) \in Nat
      BY <1>0, Finite, FS_Intersection, FS_CardinalityType
    <3>3. ~TooManyPending(Cardinality(DOMAIN pending \cap bad))
      BY <1>4
    <3>4. Cardinality(DOMAIN pending \cap bad) < MaxPendingCleanup
      BY <3>2, <3>3, LimitsAssumption DEF TooManyPending
    <3> QED  BY <3>1, <3>4
  <2>6. Discard(gone(bad, victims), Due \cup victims, cleaned(bad))
    BY <1>1
  <2> HIDE DEF gone, cleaned, admit
  <2> QED  BY <1>0, <1>2, <2>1, <2>4, <2>5, <2>6, ReserveAdmitted
<1> QED  BY <1>3, <1>4

-----------------------------------------------------------------------------
(* The theorems.                                                           *)

\* A stuttering step keeps the invariant.
LEMMA StutterInv ==
  ASSUME IInv, UNCHANGED vars
  PROVE  IInv'
<1>1. /\ TypeOK' /\ WithinBudget' /\ JobsApart' /\ JobFiles' /\ DownForgets' /\ DiskCharged'
      /\ PinsExact' /\ ReaderFilesStay' /\ ServableIsComplete'
      /\ PendingBounded' /\ DiskWithinBudget' /\ Accounting'
  BY DEF IInv, Ledger, Lending, TypeOK, WithinBudget, JobsApart, JobFiles, DownForgets,
         DiskCharged, Allowance, PinsExact, ReaderFilesStay, ServableIsComplete,
         PendingBounded, DiskWithinBudget, Accounting, Totals, JobBytes, vars
<1> QED  BY <1>1 DEF IInv, Ledger, Lending

\* Every step keeps the invariant.
LEMMA NextInv == IInv /\ [Next]_vars => IInv'
<1> SUFFICES ASSUME IInv, [Next]_vars
             PROVE  IInv'
  OBVIOUS
<1>1. ASSUME NEW r \in Reader, ReleaseHandle(r) PROVE IInv'
  BY <1>1, ReleaseHandleInv
<1>2. ASSUME NEW r \in Reader, NEW k \in Key, Lookup(r, k) PROVE IInv'
  BY <1>2, LookupInv
<1>3. ASSUME NEW k \in Key, LookupRemoves(k) PROVE IInv'
  BY <1>3, LookupRemovesInv
<1>4. ASSUME NEW j \in Job, JobStep(j) PROVE IInv'
  <2>1. CASE Reserve(j)
    BY <2>1, ReserveInv
  <2>2. CASE MakeJobDir(j)
    BY <2>2, MakeJobDirInv
  <2>3. CASE FillJob(j)
    BY <2>3, FillJobInv
  <2>4. CASE ReleaseJob(j)
    BY <2>4, ReleaseJobInv
  <2>5. ASSUME NEW k \in Key, CommitBlocked(j, k) PROVE IInv'
    BY <2>5, CommitBlockedInv
  <2>6. ASSUME NEW k \in Key, CommitNotRenamed(j, k) PROVE IInv'
    BY <2>6, CommitNotRenamedInv
  <2>7. ASSUME NEW k \in Key, NEW validated \in BOOLEAN, Commit(j, k, validated) PROVE IInv'
    BY <2>7, CommitInv
  <2> QED  BY <1>4, <2>1, <2>2, <2>3, <2>4, <2>5, <2>6, <2>7 DEF JobStep
<1>5. CASE Sweep
  <2>1. PICK bad \in SUBSET (DOMAIN entries \cup DOMAIN pending) : SweepExcept(bad)
    BY <1>5 DEF Sweep
  <2> QED  BY <2>1, SweepInv
<1>6. CASE Tick
  BY <1>6, TickInv
<1>7. CASE Open
  BY <1>7, OpenInv
<1>8. CASE Close
  BY <1>8, CloseInv
<1>9. CASE Crash
  BY <1>9, CrashInv
<1>10. CASE UNCHANGED vars
  BY <1>10, StutterInv
<1> QED  BY <1>1, <1>2, <1>3, <1>4, <1>5, <1>6, <1>7, <1>8, <1>9, <1>10 DEF Next

\* The inductive invariant holds in every reachable state of the cache, for
\* every set of keys, jobs and readers and every limit.
THEOREM Inductive == Spec => []IInv
  BY InitInv, NextInv, PTL DEF Spec

\* Every variable keeps its type; usedBytes and reserved never go below zero.
THEOREM TypeCorrect == Spec => []TypeOK
<1>1. IInv => TypeOK
  BY DEF IInv, Ledger
<1> QED  BY <1>1, Inductive, PTL

\* The counters of the cache are the sums they stand for, whatever deletions
\* and renames fail.
THEOREM AccountingExact == Spec => []Accounting
<1>1. IInv => Accounting
  BY DEF IInv, Ledger
<1> QED  BY <1>1, Inductive, PTL

\* The directory never holds more bytes than max_cache_bytes, neither while
\* the cache runs nor between a crash and the next start.
THEOREM BudgetKept == Spec => []DiskWithinBudget
<1>1. IInv => DiskWithinBudget
  BY DEF IInv
<1> QED  BY <1>1, Inductive, PTL

\* The files of a chapter stay complete as long as a request holds it.
THEOREM ReadersKeepFiles == Spec => []ReaderFilesStay
<1>1. IInv => ReaderFilesStay
  BY DEF IInv, Lending
<1> QED  BY <1>1, Inductive, PTL

\* A chapter a lookup may return is complete on disk.
THEOREM ServesComplete == Spec => []ServableIsComplete
<1>1. IInv => ServableIsComplete
  BY DEF IInv, Lending
<1> QED  BY <1>1, Inductive, PTL

\* Every byte in the directory of an open cache is charged to an entry or job.
THEOREM DiskStaysCharged == Spec => []DiskCharged
<1>1. IInv => DiskCharged
  BY DEF IInv, Ledger
<1> QED  BY <1>1, Inductive, PTL

\* The use count of an entry is the number of handles on it.
THEOREM PinsStayExact == Spec => []PinsExact
<1>1. IInv => PinsExact
  BY DEF IInv, Lending
<1> QED  BY <1>1, Inductive, PTL

\* Undeleted job directories never exceed their bound.
THEOREM PendingStaysBounded == Spec => []PendingBounded
<1>1. IInv => PendingBounded
  BY DEF IInv
<1> QED  BY <1>1, Inductive, PTL
-----------------------------------------------------------------------------
(* The cache implements PinnedCache.                                       *)

Stock == [k \in Key |-> IF k \notin DOMAIN entries THEN "absent"
                       ELSE IF entries[k].retired THEN "withdrawn" ELSE "shelved"]

\* Nobody holds a chapter whose use count is zero, nor one that is not there.
LEMMA UnheldFree ==
  ASSUME IInv, NEW k \in Key, k \in DOMAIN entries => entries[k].active = 0
  PROVE  Pinned!Free(k)
<1> SUFFICES ASSUME NEW r \in Reader, reader[r] = k
             PROVE  FALSE
  BY DEF Pinned!Free
<1>1. PinsExact /\ ReaderFilesStay
  BY DEF IInv, Lending
<1>2. k \in DOMAIN entries /\ entries[k].active = 0
  BY <1>1, SetsAssumption DEF ReaderFilesStay
<1>3. IsFiniteSet({q \in Reader : reader[q] = k})
  BY SetsAssumption, FS_Subset
<1>4. Cardinality({q \in Reader : reader[q] = k}) = 0
  BY <1>1, <1>2 DEF PinsExact
<1> QED  BY <1>3, <1>4, FS_EmptySet

\* A round of removals clears the shelf of what was retired and deleted.
LEMMA DiscardClears ==
  ASSUME IInv,
         NEW gone \in SUBSET DOMAIN entries, NEW retire \in SUBSET DOMAIN entries,
         NEW cleaned \in SUBSET DOMAIN pending,
         \A k \in gone : entries[k].active = 0,
         Discard(gone, retire, cleaned), UNCHANGED reader
  PROVE  Pinned!Next
<1>1. TypeOK /\ gone \in SUBSET Key /\ retire \in SUBSET Key
  BY DEF IInv, Ledger, TypeOK
<1>2. /\ DOMAIN entries' = DOMAIN entries \ gone
      /\ \A k \in DOMAIN entries' : entries'[k].retired = (entries[k].retired \/ k \in retire)
  BY <1>1, DiscardEntries
<1>3. \A k \in gone : Pinned!Free(k)
  BY <1>1, UnheldFree
<1>4. \A k \in retire : Stock[k] # "absent"
  BY <1>1 DEF Stock
<1>5. Stock' = [k \in Key |-> IF k \in gone THEN "absent"
                             ELSE IF k \in retire THEN "withdrawn" ELSE Stock[k]]
  <2>1. \A k \in Key : Stock'[k] = IF k \in gone THEN "absent"
                                  ELSE IF k \in retire THEN "withdrawn" ELSE Stock[k]
    BY <1>1, <1>2 DEF Stock
  <2> QED  BY <2>1 DEF Stock
<1>6. Pinned!Clear(retire, gone)
  BY <1>3, <1>4, <1>5 DEF Pinned!Clear, Stock
<1> QED  BY <1>1, <1>6 DEF Pinned!Next

\* The initial cache is an empty shelf.
LEMMA RefinesInit == Init => Pinned!Init
  BY DEF Init, Pinned!Init, None
\* Steps that touch neither the entries' fate nor the readers.
LEMMA RefinesStutter ==
  ASSUME DOMAIN entries' = DOMAIN entries, UNCHANGED reader,
         \A k \in DOMAIN entries : entries'[k].retired = entries[k].retired
  PROVE  UNCHANGED Pinned!vars
<1>1. Stock' = Stock
  BY DEF Stock
<1> QED  BY <1>1 DEF Pinned!vars, Stock

\* lookup that returns a handle is Borrow.
LEMMA RefinesLookup ==
  ASSUME IInv, NEW r \in Reader, NEW k \in Key, Lookup(r, k)
  PROVE  Pinned!Next
<1>1. TypeOK
  BY DEF IInv, Ledger
<1>2. /\ k \in DOMAIN entries /\ ~entries[k].retired /\ reader[r] = NoKey
      /\ reader' = [reader EXCEPT ![r] = k]
  BY DEF Lookup, Due
<1>3. /\ DOMAIN entries' = DOMAIN entries
      /\ \A x \in DOMAIN entries : entries'[x].retired = entries[x].retired
  <2>1. entries[k] \in Entry
    BY <1>1, <1>2 DEF TypeOK
  <2> QED  BY <1>1, <1>2, <2>1 DEF Lookup, TypeOK, Entry
<1>4. Stock[k] = "shelved" /\ Stock' = Stock
  BY <1>2, <1>3 DEF Stock
<1>5. Pinned!Borrow(r, k)
  BY <1>2, <1>4 DEF Pinned!Borrow, Stock
<1> QED  BY <1>5 DEF Pinned!Next

\* pageHandle.release is Return.
LEMMA RefinesRelease ==
  ASSUME IInv, NEW r \in Reader, ReleaseHandle(r)
  PROVE  Pinned!Next
<1>1. TypeOK /\ ReaderFilesStay
  BY DEF IInv, Ledger, Lending
<1>2. reader[r] # NoKey /\ reader' = [reader EXCEPT ![r] = NoKey]
  BY DEF ReleaseHandle
<1>3. reader[r] \in DOMAIN entries /\ entries[reader[r]] \in Entry
  BY <1>1, <1>2 DEF ReaderFilesStay, TypeOK
<1>4. /\ DOMAIN entries' = DOMAIN entries
      /\ \A x \in DOMAIN entries : entries'[x].retired = entries[x].retired
  BY <1>1, <1>3 DEF ReleaseHandle, TypeOK, Entry
<1>5. Stock' = Stock
  BY <1>4 DEF Stock
<1>6. Pinned!Return(r)
  BY <1>2, <1>5 DEF Pinned!Return, Stock
<1> QED  BY <1>6 DEF Pinned!Next

\* commit is Publish.
LEMMA RefinesCommit ==
  ASSUME IInv, NEW j \in Job, NEW k \in Key, NEW validated \in BOOLEAN,
         Commit(j, k, validated)
  PROVE  Pinned!Next
<1>1. k \in DOMAIN entries => entries[k].active = 0
  BY UnpinnedIdle DEF Commit
<1>2. Pinned!Free(k)
  BY <1>1, UnheldFree
<1>3. /\ DOMAIN entries' = DOMAIN entries \cup {k} /\ ~entries'[k].retired
      /\ \A x \in DOMAIN entries \ {k} : entries'[x] = entries[x]
      /\ reader' = reader
  BY DEF Commit
<1>4. Stock' = [Stock EXCEPT ![k] = "shelved"]
  BY <1>3 DEF Stock
<1>5. Pinned!Publish(k)
  BY <1>2, <1>3, <1>4 DEF Pinned!Publish, Stock
<1> QED  BY <1>5 DEF Pinned!Next

\* close and a crash are Restart.
LEMMA RefinesForget ==
  ASSUME Forget
  PROVE  Pinned!Next
<1>1. Stock' = [k \in Key |-> "absent"] /\ reader' = [r \in Reader |-> NoKey]
  BY DEF Forget, None, Stock
<1>2. Pinned!Restart
  BY <1>1 DEF Pinned!Restart, Stock
<1> QED  BY <1>2 DEF Pinned!Next

\* Every step of the cache is a step of the shelf or a stutter.
LEMMA RefinesNext == IInv /\ [Next]_vars => [Pinned!Next]_(Pinned!vars)
<1> SUFFICES ASSUME IInv, [Next]_vars
             PROVE  Pinned!Next \/ UNCHANGED Pinned!vars
  OBVIOUS
<1>0. TypeOK
  BY DEF IInv, Ledger
<1>1. ASSUME NEW r \in Reader, ReleaseHandle(r) PROVE Pinned!Next
  BY <1>1, RefinesRelease
<1>2. ASSUME NEW r \in Reader, NEW k \in Key, Lookup(r, k) PROVE Pinned!Next
  BY <1>2, RefinesLookup
<1>3. ASSUME NEW k \in Key, LookupRemoves(k) PROVE Pinned!Next
  <2>1. PICK bad \in SUBSET {k} : Discard(Unpinned({k}) \ bad, {k}, {})
    BY <1>3 DEF LookupRemoves
  <2>2. /\ Unpinned({k}) \ bad \in SUBSET DOMAIN entries
        /\ {k} \in SUBSET DOMAIN entries /\ {} \in SUBSET DOMAIN pending
        /\ \A x \in Unpinned({k}) \ bad : entries[x].active = 0
    BY <1>3, UnpinnedIdle DEF LookupRemoves
  <2>3. UNCHANGED reader
    BY <1>3 DEF LookupRemoves
  <2> QED  BY <2>1, <2>2, <2>3, DiscardClears
<1>4. ASSUME NEW j \in Job, Reserve(j) PROVE Pinned!Next
  <2>1. PICK bad \in SUBSET (DOMAIN entries \cup DOMAIN pending),
             victims \in SUBSET Unpinned(DOMAIN entries \ Due) :
          Discard((Unpinned(Due) \ bad) \cup (victims \ bad), Due \cup victims,
                  DOMAIN pending \ bad)
    BY <1>4 DEF Reserve
  <2>2. /\ (Unpinned(Due) \ bad) \cup (victims \ bad) \in SUBSET DOMAIN entries
        /\ Due \cup victims \in SUBSET DOMAIN entries
        /\ DOMAIN pending \ bad \in SUBSET DOMAIN pending
        /\ \A x \in (Unpinned(Due) \ bad) \cup (victims \ bad) : entries[x].active = 0
    BY UnpinnedIdle, DueKnown
  <2>3. UNCHANGED reader
    BY <1>4 DEF Reserve
  <2> QED  BY <2>1, <2>2, <2>3, DiscardClears
<1>5. ASSUME NEW j \in Job, NEW k \in Key, CommitBlocked(j, k) PROVE Pinned!Next
  <2>1. /\ Discard({}, Unpinned({k}), {}) /\ UNCHANGED reader
        /\ Unpinned({k}) \in SUBSET DOMAIN entries
    BY <1>5, UnpinnedIdle DEF CommitBlocked
  <2>2. /\ {} \in SUBSET DOMAIN entries /\ {} \in SUBSET DOMAIN pending
        /\ \A x \in {} : entries[x].active = 0
    OBVIOUS
  <2> QED  BY <2>1, <2>2, DiscardClears
<1>6. ASSUME NEW j \in Job, NEW k \in Key, CommitNotRenamed(j, k) PROVE Pinned!Next
  <2>1. /\ Discard({k} \cap DOMAIN entries, {}, {}) /\ UNCHANGED reader
        /\ \A x \in {k} \cap DOMAIN entries : entries[x].active = 0
    BY <1>6, UnpinnedIdle DEF CommitNotRenamed
  <2>2. /\ {} \in SUBSET DOMAIN entries /\ {} \in SUBSET DOMAIN pending
        /\ {k} \cap DOMAIN entries \in SUBSET DOMAIN entries
    OBVIOUS
  <2> QED  BY <2>1, <2>2, DiscardClears
<1>7. ASSUME NEW j \in Job, NEW k \in Key, NEW validated \in BOOLEAN, Commit(j, k, validated)
      PROVE  Pinned!Next
  BY <1>7, RefinesCommit
<1>8. ASSUME NEW j \in Job, MakeJobDir(j) \/ FillJob(j) \/ ReleaseJob(j)
      PROVE  UNCHANGED Pinned!vars
  <2>1. UNCHANGED <<entries, reader>>
    BY <1>8 DEF MakeJobDir, FillJob, ReleaseJob
  <2> QED  BY <2>1, RefinesStutter
<1>9. CASE Sweep
  <2>1. PICK bad \in SUBSET (DOMAIN entries \cup DOMAIN pending) : SweepExcept(bad)
    BY <1>9 DEF Sweep
  <2>2. /\ Discard(Unpinned(Due) \ bad, Due, DOMAIN pending \ bad) /\ UNCHANGED reader
        /\ \A x \in Unpinned(Due) \ bad : entries[x].active = 0
    BY <2>1, UnpinnedIdle DEF SweepExcept
  <2>3. /\ Unpinned(Due) \ bad \in SUBSET DOMAIN entries
        /\ Due \in SUBSET DOMAIN entries /\ DOMAIN pending \ bad \in SUBSET DOMAIN pending
    BY UnpinnedIdle, DueKnown
  <2> QED  BY <2>2, <2>3, DiscardClears
<1>10. CASE Tick
  <2>1. /\ DOMAIN entries' = DOMAIN entries /\ UNCHANGED reader
        /\ \A k \in DOMAIN entries : entries'[k].retired = entries[k].retired
    BY <1>0, <1>10 DEF Tick, TypeOK, Entry
  <2> QED  BY <2>1, RefinesStutter
<1>11. CASE Open \/ UNCHANGED vars
  <2>1. UNCHANGED <<entries, reader>>
    BY <1>11 DEF Open, vars
  <2> QED  BY <2>1, RefinesStutter
<1>12. CASE Close \/ Crash
  BY <1>12, RefinesForget DEF Close, Crash
<1> QED  BY <1>1, <1>2, <1>3, <1>4, <1>5, <1>6, <1>7, <1>8, <1>9, <1>10, <1>11, <1>12
         DEF Next, JobStep

\* The cache implements what PinnedCache promises its readers: a chapter in use
\* is neither deleted nor replaced, and a withdrawn one is not lent again
\* before it is published anew.
THEOREM ImplementsPromise == Spec => ImplementsPinnedCache
<1>1. Spec => Pinned!Spec
  BY RefinesInit, RefinesNext, Inductive, PTL DEF Spec, Pinned!Spec
<1> QED  BY <1>1 DEF ImplementsPinnedCache
=============================================================================
