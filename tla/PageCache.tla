------------------------------ MODULE PageCache ------------------------------
(***************************************************************************)
(* The extraction cache of internal/silo/cache.go: completed chapters in   *)
(* ".entry-" directories, extraction jobs in ".job-" directories, one byte *)
(* budget over both, idle and freshness expiry, LRU eviction, deletions    *)
(* that the filesystem may refuse, and the crash and restart of the        *)
(* process that owns the directory.                                        *)
(*                                                                         *)
(* Every method of pageCache runs under c.mu, so each is one action.  The  *)
(* variables entries .. jobs are what the process remembers; disk is what  *)
(* the directory really holds, which no method reads: the budget is right  *)
(* when the two agree.                                                     *)
(*                                                                         *)
(* Time is measured in ages instead of timestamps: idle is now - lastUsed  *)
(* and age is now - (time of publication), both kept only up to the        *)
(* lifetime they are compared with.                                        *)
(***************************************************************************)
EXTENDS Integers, FiniteSets

CONSTANTS
  Key,                \* cache keys (hashes of a source revision)
  Job,                \* names MkdirTemp gives to job directories
  Reader,             \* callers that hold a page handle
  NoKey,              \* what a caller without a handle holds
  MaxBytes,           \* the configured cache budget
  MaxArchiveBytes,    \* bound of a downloaded archive
  MaxTotalBytes,      \* bound of the bytes extracted from it
  MaxPendingCleanup,  \* job directories awaiting deletion, at most
  CacheIdleTTL,       \* lifetime since the last lookup
  CacheFallbackTTL    \* lifetime since publication, without validators

PeakBytes == MaxArchiveBytes + MaxTotalBytes

ASSUME SetsAssumption ==
  /\ IsFiniteSet(Key) /\ IsFiniteSet(Job) /\ IsFiniteSet(Reader)
  /\ Key \cap Job = {}
  /\ NoKey \notin Key

ASSUME LimitsAssumption ==
  /\ MaxBytes \in Nat \ {0}
  /\ MaxArchiveBytes \in Nat \ {0}
  /\ MaxTotalBytes \in Nat \ {0}
  /\ MaxPendingCleanup \in Nat \ {0}
  /\ CacheIdleTTL \in Nat \ {0}
  /\ CacheFallbackTTL \in Nat \ {0}

VARIABLES
  open,       \* the process holds the lease and the cache is not closed
  entries,    \* key -> completed chapter
  usedBytes,  \* c.usedBytes
  reserved,   \* c.reserved
  pending,    \* job directory -> bytes it keeps charged
  jobs,       \* job directory -> live reservation
  reader,     \* the key each caller's handle refers to
  disk        \* directory -> bytes it holds on the filesystem

vars == <<open, entries, usedBytes, reserved, pending, jobs, reader, disk>>

Entry ==
  [total: 1..MaxTotalBytes, idle: 0..CacheIdleTTL, age: 0..CacheFallbackTTL,
   validated: BOOLEAN, active: Nat, retired: BOOLEAN]

\* "new": reserved; "dir": job directory made; "filled": archive downloaded
\* and extracted; "over": commit has been called.
Reservation ==
  [bytes: 0..PeakBytes, phase: {"new", "dir", "filled", "over"},
   pages: 0..MaxTotalBytes]

Dir == Key \cup Job

-----------------------------------------------------------------------------
(* Byte counts.  Charge(f, S) is the sum of f over S, for counts of at     *)
(* most PeakBytes: the number of units <<x, i>> with i <= f[x].  It is     *)
(* written as a cardinality, not as a fold, so that the proofs can use the *)
(* theorems on finite sets.                                                *)

Units(f, S) == {u \in S \X (1..PeakBytes) : u[2] <= f[u[1]]}
Charge(f, S) == Cardinality(Units(f, S))

Totals == [k \in DOMAIN entries |-> entries[k].total]
JobBytes == [j \in DOMAIN jobs |-> jobs[j].bytes]

None == [x \in {} |-> 0]

-----------------------------------------------------------------------------
\* Mutant: entries with validators have no lifetime at all.
ExpiredWithoutIdle(e) == ~e.validated /\ e.age >= CacheFallbackTTL

Expired(e) ==
  \/ e.idle >= CacheIdleTTL
  \/ ~e.validated /\ e.age >= CacheFallbackTTL

\* Mutant: sweeps and lookups forget that an entry was retired.
DueIgnoresRetired == {k \in DOMAIN entries : Expired(entries[k])}

Due == {k \in DOMAIN entries : entries[k].retired \/ Expired(entries[k])}

\* Mutant: removal does not look at the use count.
UnpinnedAll(S) == S

Unpinned(S) == {k \in S : entries[k].active = 0}

\* Mutant: a failed removal is not retired, and is tried again by the next sweep.
DiscardKeepsServing(gone, retire, cleaned) ==
  /\ entries' = [k \in DOMAIN entries \ gone |->
                   [entries[k] EXCEPT !.retired = @ \/ (k \in retire /\ entries[k].active > 0)]]
  /\ usedBytes' = usedBytes - Charge(Totals, gone)
  /\ pending' = [j \in DOMAIN pending \ cleaned |-> pending[j]]
  /\ \E torn \in SUBSET (Unpinned(retire) \ gone) :
       disk' = [d \in Dir |-> IF d \in gone \cup torn \cup cleaned THEN 0 ELSE disk[d]]

\* Mutant: the bytes are given back before the removal is known to have worked.
DiscardFreesEarly(gone, retire, cleaned) ==
  /\ entries' = [k \in DOMAIN entries \ gone |->
                   [entries[k] EXCEPT !.retired = @ \/ k \in retire]]
  /\ usedBytes' = usedBytes - Charge(Totals, gone \cup Unpinned(retire))
  /\ pending' = [j \in DOMAIN pending \ cleaned |-> pending[j]]
  /\ disk' = [d \in Dir |-> IF d \in gone \cup cleaned THEN 0 ELSE disk[d]]

\* removeLocked on the entries of retire, of which gone could be deleted, and
\* removeAll on the pending jobs, of which cleaned could.  An entry in use, or
\* whose directory the filesystem keeps, is retired instead; a removal that
\* fails may still have taken the files (torn).
Discard(gone, retire, cleaned) ==
  /\ entries' = [k \in DOMAIN entries \ gone |->
                   [entries[k] EXCEPT !.retired = @ \/ k \in retire]]
  /\ usedBytes' = usedBytes - Charge(Totals, gone)
  /\ pending' = [j \in DOMAIN pending \ cleaned |-> pending[j]]
  /\ \E torn \in SUBSET (Unpinned(retire) \ gone) :
       disk' = [d \in Dir |-> IF d \in gone \cup torn \cup cleaned THEN 0 ELSE disk[d]]

-----------------------------------------------------------------------------
Init ==
  /\ open = FALSE
  /\ entries = None
  /\ usedBytes = 0
  /\ reserved = 0
  /\ pending = None
  /\ jobs = None
  /\ reader = [r \in Reader |-> NoKey]
  /\ disk = [d \in Dir |-> 0]

\* Mutant: a leftover that cannot be deleted does not keep the cache shut.
OpenAnyway ==
  /\ ~open
  /\ \E left \in SUBSET {d \in Dir : disk[d] > 0} :
       disk' = [d \in Dir |-> IF d \in left THEN disk[d] ELSE 0]
  /\ open' = TRUE
  /\ UNCHANGED <<entries, usedBytes, reserved, pending, jobs, reader>>

\* newPageCache: take the lease and delete what an earlier process left.  The
\* cache opens only if every leftover could be deleted.
Open ==
  /\ ~open
  /\ \E left \in SUBSET {d \in Dir : disk[d] > 0} :
       /\ disk' = [d \in Dir |-> IF d \in left THEN disk[d] ELSE 0]
       /\ open' = (left = {})
  /\ UNCHANGED <<entries, usedBytes, reserved, pending, jobs, reader>>

\* lookup that returns a handle.
Lookup(r, k) ==
  /\ open /\ reader[r] = NoKey
  /\ k \in DOMAIN entries \ Due
  /\ entries' = [entries EXCEPT ![k].active = @ + 1, ![k].idle = 0]
  /\ reader' = [reader EXCEPT ![r] = k]
  /\ UNCHANGED <<open, usedBytes, reserved, pending, jobs, disk>>

\* lookup that finds the entry retired, expired, or with a page file that is
\* missing or of another size (something outside the plugin touched it), and
\* removes it.  bad is the set of directories that cannot be deleted.
LookupRemoves(k) ==
  /\ open /\ k \in DOMAIN entries
  /\ \E bad \in SUBSET {k} : Discard(Unpinned({k}) \ bad, {k}, {})
  /\ UNCHANGED <<open, reserved, jobs, reader>>

\* Mutant: the handle is cleared, the use count is not.
ReleaseKeepsPin(r) ==
  /\ reader[r] # NoKey
  /\ reader' = [reader EXCEPT ![r] = NoKey]
  /\ UNCHANGED <<open, entries, usedBytes, reserved, pending, jobs, disk>>

\* pageHandle.release.
ReleaseHandle(r) ==
  /\ reader[r] # NoKey
  /\ entries' = [entries EXCEPT ![reader[r]].active = IF @ > 0 THEN @ - 1 ELSE @]
  /\ reader' = [reader EXCEPT ![r] = NoKey]
  /\ UNCHANGED <<open, usedBytes, reserved, pending, jobs, disk>>

\* Mutant: the sweep does not retry the pending deletions.
SweepEntriesOnly(bad) ==
  /\ open
  /\ Discard(Unpinned(Due) \ bad, Due, {})
  /\ UNCHANGED <<open, reserved, jobs, reader>>

\* sweepLocked: retry the pending deletions, then remove what is due.
SweepExcept(bad) ==
  /\ open
  /\ Discard(Unpinned(Due) \ bad, Due, DOMAIN pending \ bad)
  /\ reserved' = reserved - Charge(pending, DOMAIN pending \ bad)
  /\ UNCHANGED <<open, jobs, reader>>

Sweep == \E bad \in SUBSET (DOMAIN entries \cup DOMAIN pending) : SweepExcept(bad)

-----------------------------------------------------------------------------
(* reserve: sweep, then evict the least recently used unpinned entries     *)
(* until the job's peak fits, then admit it or not.  What was swept and    *)
(* evicted stays so when the job is refused.                               *)

\* evictUntilLocked visits victims: least recently used first, until excess
\* bytes are free, skipping what cannot be deleted.
Evicts(victims, pool, bad, excess) ==
  /\ \A v \in victims, e \in pool \ victims : entries[v].idle >= entries[e].idle
  /\ victims = pool \/ Charge(Totals, victims \ bad) >= excess
  /\ victims # {} =>
       \E last \in victims :
         /\ \A v \in victims : entries[v].idle >= entries[last].idle
         /\ Charge(Totals, (victims \ {last}) \ bad) < excess

\* Mutant: the bound is compared one too late.
TooManyPendingOffByOne(n) == n > MaxPendingCleanup

TooManyPending(n) == n >= MaxPendingCleanup

Reserve(j) ==
  LET pool == Unpinned(DOMAIN entries \ Due) IN
  /\ open
  /\ jobs = None                      \* the caller holds the extract slot
  /\ j \notin DOMAIN pending /\ disk[j] = 0
  /\ PeakBytes <= MaxBytes
  /\ \E bad \in SUBSET (DOMAIN entries \cup DOMAIN pending),
        victims \in SUBSET pool :
       LET swept == Unpinned(Due) \ bad
           cleaned == DOMAIN pending \ bad
           stuck == TooManyPending(Cardinality(DOMAIN pending \cap bad))
           charged(freed) == usedBytes - Charge(Totals, swept \cup freed)
                               + reserved - Charge(pending, cleaned)
           excess == charged({}) + PeakBytes - MaxBytes
           admit == ~stuck /\ ~(charged(victims \ bad) + PeakBytes > MaxBytes)
       IN /\ IF stuck THEN victims = {} ELSE Evicts(victims, pool, bad, excess)
          /\ Discard(swept \cup (victims \ bad), Due \cup victims, cleaned)
          /\ reserved' = reserved - Charge(pending, cleaned)
                           + IF admit THEN PeakBytes ELSE 0
          /\ jobs' = IF admit
                     THEN [x \in {j} |-> [bytes |-> PeakBytes, phase |-> "new",
                                          pages |-> 0]]
                     ELSE None
  /\ UNCHANGED <<open, reader>>

\* extractJob makes its private directory, and the reservation names it.
MakeJobDir(j) ==
  /\ j \in DOMAIN jobs /\ jobs[j].phase = "new"
  /\ jobs' = [jobs EXCEPT ![j].phase = "dir"]
  /\ UNCHANGED <<open, entries, usedBytes, reserved, pending, reader, disk>>

\* What download and extraction leave in the job directory: the archive, cut
\* off one byte past its bound, and, if it kept to it, at most MaxTotalBytes of
\* pages, fewer when a step fails half way.  Files that the extractor drops are
\* taken to be gone (Extraction shows what happens when they are not).
FillJob(j) ==
  /\ j \in DOMAIN jobs /\ jobs[j].phase = "dir"
  /\ \E archive \in 0..(MaxArchiveBytes + 1), pages \in 0..MaxTotalBytes :
       /\ pages > 0 => archive \in 1..MaxArchiveBytes
       /\ disk' = [disk EXCEPT ![j] = archive + pages]
       /\ jobs' = [jobs EXCEPT ![j].phase = "filled", ![j].pages = pages]
  /\ UNCHANGED <<open, entries, usedBytes, reserved, pending, reader>>

-----------------------------------------------------------------------------
(* commit: replace the entry of the same key, rename the pages out of the  *)
(* job directory, and move their bytes from the reservation to the entry.  *)

CommitCalled(j, k) ==
  /\ open /\ k \in Key
  /\ j \in DOMAIN jobs /\ jobs[j].phase = "filled" /\ jobs[j].pages > 0

\* The entry to replace is in use, or cannot be deleted.
CommitBlocked(j, k) ==
  /\ CommitCalled(j, k) /\ k \in DOMAIN entries
  /\ Discard({}, Unpinned({k}), {})
  /\ jobs' = [jobs EXCEPT ![j].phase = "over"]
  /\ UNCHANGED <<open, reserved, reader>>

\* The old entry is gone, and the rename fails.
CommitNotRenamed(j, k) ==
  /\ CommitCalled(j, k)
  /\ Unpinned({k} \cap DOMAIN entries) = {k} \cap DOMAIN entries
  /\ Discard({k} \cap DOMAIN entries, {}, {})
  /\ jobs' = [jobs EXCEPT ![j].phase = "over"]
  /\ UNCHANGED <<open, reserved, reader>>

Commit(j, k, validated) ==
  LET total == jobs[j].pages
      old == {k} \cap DOMAIN entries IN
  /\ CommitCalled(j, k)
  /\ Unpinned(old) = old
  /\ entries' = [x \in DOMAIN entries \cup {k} |->
                   IF x = k
                   THEN [total |-> total, idle |-> 0, age |-> 0,
                         validated |-> validated, active |-> 0, retired |-> FALSE]
                   ELSE entries[x]]
  /\ usedBytes' = usedBytes - Charge(Totals, old) + total
  /\ reserved' = reserved - total
  /\ jobs' = [jobs EXCEPT ![j].bytes = @ - total, ![j].phase = "over", ![j].pages = 0]
  /\ disk' = [disk EXCEPT ![k] = total, ![j] = @ - total]
  /\ UNCHANGED <<open, pending, reader>>

\* Mutant: the reservation is given back although the directory stays, and
\* again when the directory is deleted.
ReleaseTwice(j) ==
  /\ j \in DOMAIN jobs
  /\ jobs' = None
  /\ reserved' = reserved - jobs[j].bytes
  /\ \/ disk' = [disk EXCEPT ![j] = 0] /\ UNCHANGED pending
     \/ /\ jobs[j].phase # "new"
        /\ pending' = [x \in DOMAIN pending \cup {j} |->
                         IF x = j THEN jobs[j].bytes ELSE pending[x]]
        /\ UNCHANGED disk
  /\ UNCHANGED <<open, entries, usedBytes, reader>>

\* Mutant: a directory that cannot be deleted is forgotten.
ReleaseForgets(j) ==
  /\ j \in DOMAIN jobs
  /\ jobs' = None
  /\ reserved' = reserved - jobs[j].bytes
  /\ \E gone \in BOOLEAN : disk' = [disk EXCEPT ![j] = IF gone THEN 0 ELSE @]
  /\ UNCHANGED <<open, entries, usedBytes, pending, reader>>

\* cacheReservation.release, deferred by every outcome of the job.  A job
\* directory that cannot be deleted keeps the rest of the reservation charged.
ReleaseJob(j) ==
  /\ j \in DOMAIN jobs
  /\ jobs' = None
  /\ \/ /\ reserved' = reserved - jobs[j].bytes
        /\ disk' = [disk EXCEPT ![j] = 0]
        /\ UNCHANGED pending
     \/ /\ jobs[j].phase # "new"
        /\ pending' = [x \in DOMAIN pending \cup {j} |->
                         IF x = j THEN jobs[j].bytes ELSE pending[x]]
        /\ UNCHANGED <<reserved, disk>>
  /\ UNCHANGED <<open, entries, usedBytes, reader>>

-----------------------------------------------------------------------------
\* The process forgets everything it knew of the cache.
Forget ==
  /\ open' = FALSE
  /\ entries' = None /\ usedBytes' = 0
  /\ pending' = None /\ reserved' = 0
  /\ jobs' = None
  /\ reader' = [r \in Reader |-> NoKey]

\* close, after the runtime has drained requests and jobs: one attempt at
\* every directory, and the lease is given up whatever comes of it.
Close ==
  /\ open /\ jobs = None /\ \A r \in Reader : reader[r] = NoKey
  /\ \E bad \in SUBSET (DOMAIN entries \cup DOMAIN pending) :
       disk' = [d \in Dir |-> IF d \in (DOMAIN entries \cup DOMAIN pending) \ bad
                             THEN 0 ELSE disk[d]]
  /\ Forget

\* A kill or a power loss at any moment.
Crash ==
  /\ open
  /\ Forget
  /\ UNCHANGED disk

Saturate(n, bound) == IF n < bound THEN n + 1 ELSE n

Tick ==
  /\ entries' = [k \in DOMAIN entries |->
                   [entries[k] EXCEPT
                      !.idle = Saturate(@, CacheIdleTTL),
                      !.age = IF entries[k].validated THEN @
                              ELSE Saturate(@, CacheFallbackTTL)]]
  /\ UNCHANGED <<open, usedBytes, reserved, pending, jobs, reader, disk>>

-----------------------------------------------------------------------------
JobStep(j) ==
  \/ Reserve(j) \/ MakeJobDir(j) \/ FillJob(j) \/ ReleaseJob(j)
  \/ \E k \in Key :
       \/ CommitBlocked(j, k) \/ CommitNotRenamed(j, k)
       \/ \E validated \in BOOLEAN : Commit(j, k, validated)

Next ==
  \/ \E r \in Reader : ReleaseHandle(r) \/ \E k \in Key : Lookup(r, k)
  \/ \E k \in Key : LookupRemoves(k)
  \/ \E j \in Job : JobStep(j)
  \/ Sweep \/ Tick \/ Open \/ Close \/ Crash

Spec == Init /\ [][Next]_vars

(***************************************************************************)
(* Fairness.  The sweeper's ticker fires for as long as the runtime lives, *)
(* and handlers and jobs end in their deferred releases.  SweepExcept({})  *)
(* assumes that the filesystem does not refuse a deletion for ever.        *)
(***************************************************************************)
Fairness ==
  /\ WF_vars(Tick)
  /\ WF_vars(SweepExcept({}))
  /\ \A r \in Reader : WF_vars(ReleaseHandle(r))

FairSpec == Spec /\ Fairness

-----------------------------------------------------------------------------
TypeOK ==
  /\ open \in BOOLEAN
  /\ DOMAIN entries \subseteq Key /\ entries \in [DOMAIN entries -> Entry]
  /\ usedBytes \in Nat /\ reserved \in Nat
  /\ DOMAIN pending \subseteq Job /\ pending \in [DOMAIN pending -> 0..PeakBytes]
  /\ DOMAIN jobs \subseteq Job /\ jobs \in [DOMAIN jobs -> Reservation]
  /\ reader \in [Reader -> Key \cup {NoKey}]
  /\ disk \in [Dir -> 0..PeakBytes]

\* The two counters are exactly what the entries, the live reservation and the
\* undeleted job directories add up to, through every failed deletion: budget
\* is neither lost nor freed twice.
Accounting ==
  /\ usedBytes = Charge(Totals, DOMAIN entries)
  /\ reserved = Charge(JobBytes, DOMAIN jobs) + Charge(pending, DOMAIN pending)

\* What a directory may hold without exceeding its charge; a directory nobody
\* remembers may hold nothing.
Allowance(d) ==
  IF d \in DOMAIN entries THEN entries[d].total
  ELSE IF d \in DOMAIN jobs THEN jobs[d].bytes
  ELSE IF d \in DOMAIN pending THEN pending[d]
  ELSE 0

\* While the cache is open every byte in the directory is charged to the entry
\* or job that will delete it: no removal, commit or restart leaves an orphan.
DiskCharged == open => \A d \in Dir : disk[d] <= Allowance(d)

\* The budget the README states: the files of the directory, pages and
\* temporary job data together, stay within max_cache_bytes, also between a
\* crash and the next start.
DiskWithinBudget == Charge(disk, Dir) <= MaxBytes

\* An active read keeps its files: the chapter a handle refers to is complete
\* on disk until release, whatever expires, is evicted or is published.
ReaderFilesStay ==
  \A r \in Reader : reader[r] # NoKey =>
    /\ reader[r] \in DOMAIN entries
    /\ disk[reader[r]] = entries[reader[r]].total

\* The use count that protects an entry is the number of handles on it, so a
\* released chapter can be deleted and a chapter in use cannot.
PinsExact ==
  \A k \in DOMAIN entries :
    entries[k].active = Cardinality({r \in Reader : reader[r] = k})

\* A chapter that lookup may still return has all its files, also after a
\* deletion that failed half way.
ServableIsComplete ==
  \A k \in DOMAIN entries :
    ~entries[k].retired => disk[k] = entries[k].total

\* Job directories that cannot be deleted are bounded in number, counting the
\* one the running job may still leave.
PendingBounded ==
  Cardinality(DOMAIN pending) + Cardinality(DOMAIN jobs) <= MaxPendingCleanup

\* The inductive invariant behind the ones above.  It adds what they rest on:
\* the admitted bytes fit the budget, one job runs at a time, a running job is
\* not also a leftover, its directory is empty until it is filled and holds its
\* pages afterwards, and a process that is down remembers nothing.
WithinBudget == usedBytes + reserved <= MaxBytes

JobsApart ==
  /\ \A i, j \in DOMAIN jobs : i = j
  /\ DOMAIN jobs \cap DOMAIN pending = {}

JobFiles ==
  \A j \in DOMAIN jobs :
    /\ jobs[j].phase # "over" => jobs[j].bytes = PeakBytes
    /\ jobs[j].phase \in {"new", "dir"} => disk[j] = 0
    /\ jobs[j].pages <= disk[j]

DownForgets ==
  ~open => /\ DOMAIN entries = {} /\ DOMAIN jobs = {} /\ DOMAIN pending = {}
           /\ \A r \in Reader : reader[r] = NoKey

Ledger ==
  /\ TypeOK /\ Accounting /\ WithinBudget
  /\ JobsApart /\ JobFiles /\ DownForgets /\ DiskCharged

Lending == PinsExact /\ ReaderFilesStay /\ ServableIsComplete

IInv == Ledger /\ Lending /\ PendingBounded /\ DiskWithinBudget

\* What the cache promises the requests that use it, in PinnedCache.
Pinned == INSTANCE PinnedCache WITH
  stock <- [k \in Key |-> IF k \notin DOMAIN entries THEN "absent"
                          ELSE IF entries[k].retired THEN "withdrawn" ELSE "shelved"],
  held <- reader

\* Every step of the cache is a step PinnedCache allows: a chapter in use is
\* neither deleted nor replaced, and one that was withdrawn is not lent again
\* before a new publication, through evictions, failed deletions and crashes.
ImplementsPinnedCache == Pinned!Spec

\* Unused chapters do not stay: again and again a chapter is gone or was looked
\* up within its idle lifetime.
IdlePagesExpire ==
  \A k \in Key :
    []<>(k \in DOMAIN entries => entries[k].idle < CacheIdleTTL)

\* A refused deletion is retried until the directory is gone and its bytes are
\* free again.
PendingCleanedUp ==
  \A j \in Job : j \in DOMAIN pending ~> j \notin DOMAIN pending

\* A retired chapter, even one retired while it was being read, is deleted or
\* replaced in the end.
RetiredDeleted ==
  \A k \in Key :
    (k \in DOMAIN entries /\ entries[k].retired)
      ~> (k \in DOMAIN entries => ~entries[k].retired)
=============================================================================
