# Verification of the comic-pages plugin

The plugin answers two requests of a reader client: *which pages does this
chapter have* (`Pages`) and *give me a chunk of this page* (`Page`).  It asks a
Silo server whether the caller may see the chapter, downloads the chapter's
archive, extracts the page images in a child process, keeps them in a cache
directory of bounded size, and serves chunks from there.

This directory holds TLA+ models of the parts of it that are hard to test, the
TLC configurations that check them on small instances, and TLAPS proofs of the
properties that matter most.  Paths below are relative to `src/`; *cache.go*,
*backend.go* and *client.go* are those of `internal/silo`, *archive.go* is
`internal/archive/archive.go`.

Contents: [1 The system](#1-the-system), [2 Plan](#2-plan),
[3 The models](#3-the-models), [4 The runs](#4-the-runs),
[5 Fairness](#5-fairness), [6 What is proved](#6-what-is-proved),
[7 Assumptions](#7-assumptions), [8 Disagreements](#8-disagreements-between-code-and-documentation),
[9 Not modelled](#9-not-modelled).

## 1 The system

| Component | Code | State it keeps | Operations |
| --- | --- | --- | --- |
| Backend | backend.go | `current` runtime, `lifecycleMu` | `Configure`, `Close`, `getRuntime` |
| Runtime | backend.go | `stopping`, `wg`, map of jobs, `extract` slot, context, sweeper goroutine | `acquireRequest`, `Pages`, `Page`, `authorize`, `getOrStartJob`, `waitForJob`, `runJob`, `extractJob`, `sweepCache`, `close` |
| Extraction cache | cache.go | entries with use counts and ages, `usedBytes`, `reserved`, `pending`; the files themselves | `newPageCache`, `lookup`, `release` of a handle, `sweep`, `reserve`, `commit`, `release` of a reservation, `close` |
| Cache directory | cache.go, cache_lock_linux.go | ownership marker, lock file and `flock`, directories | `ensureOwnedRoot`, `lockCacheRoot`, `removeOwnedDirectories` |
| Extraction | archive.go | remaining page and total bytes, files created, candidate pages | `Extract` with its entry loop, `consumeEntry`, `entryLimitReader.Read`, `materializePages`, `cleanup` |
| ZIP preflight | zip_preflight.go | none | scan of the ZIP end record before the library opens the file |
| Extractor child | extractor.go, resource_limits_linux.go | a child process | start, pipe, kill |
| Upstream client | client.go | HTTP client | authorization sequence, download with bound |
| Configuration | config.go | none | defaults, limits, URL normalization |
| HTTP adapter, entry point | internal/server, main.go | none; signal goroutine | translation of requests; `Close` on a signal |

How they interact.  A request is admitted to the current runtime
(`acquireRequest`), authorized upstream, looked up in the cache and, on a miss
of `Pages`, joins the job of its cache key or starts one.  A job reserves its
peak of disk, downloads into a directory of its own, runs the child over it,
and commits: the directory is renamed to an entry.  `Configure` takes the
current runtime out of service, cancels it, waits for its requests, jobs and
sweeper, empties its cache, gives up the directory and opens the next one,
often the same directory.  Several processes may be started on one directory;
marker and `flock` decide who owns it.

What is hard here:

* **bytes and files disagree**: a deletion may fail half way, a rename may fail
  after the old entry is gone, a process may be killed anywhere; the budget is a
  pair of counters that no code compares with the disk;
* **use counts against everything that deletes**: expiry, eviction,
  replacement, sweep and shutdown while a handle is out;
* **the drain**: requests, jobs, the sweeper, `Configure` and `Close` in any
  order, over the same directory;
* **shared jobs**: several callers with different credentials wait for one job,
  whose end is four steps under three locks;
* **ownership of the directory**: several processes between any two file
  operations of each other, and crashes;
* **limits to the byte**: at a limit, and one byte beyond, over many entries;
  a ZIP directory whose end record lies about it;
* **a chapter read over many requests**: between any two upstream calls of one
  request, and between any two chunks, Silo may replace the file or withdraw
  access, and the chapter may be evicted and extracted anew.

What makes the parts correct, by component: the cache must charge every byte on
disk exactly once, stay in budget, and keep the files of a chapter in use; the
runtime must never touch a directory that has changed hands, must run one
extraction at a time, must answer every request, and must shut down; the
directory must be clean before it is used and a user's directory must stay
untouched; extraction must accept exactly the archives within the limits, in
the right order, and leave nothing when it fails; a request must be answered
only with what its caller may see now, from the file as it is now; what a client
joins must be one revision; a configuration must mean what it says, in the
plugin and in its child.  `PROJECT.json` lists the
hazards one by one, at their lines, with the properties that cover each.

## 2 Plan

The modules, in the order in which they were written:

1. `PageCache`, and `PinnedCache`, the abstract specification it implements.
   The cache comes first: everything else relies on its promises.
2. `PageCacheProofs`: the inductive invariant and what follows from it.
3. `Backend`, which composes requests, jobs and lifecycle with `PinnedCache`:
   the abstract cache stands in for the detailed one, whose steps it covers.
4. `CacheRoot` and `CacheRootProofs`: who owns a directory.
5. `Extraction`: what the child does with an archive, with `ZipPreflight` and
   `NaturalOrder` as modules of operators; `DataLemmas` and `ArchiveProofs`, what
   is proved of the operators, and `ExtractionProofs`, which rests on both.
6. `BackendProofs`.
7. `ChapterRead`, which composes a client, the handlers, the upstream calls and
   the job with `PinnedCache`, and `ChapterReadProofs`.
8. `Configuration` and `ConfigurationProofs`.

What would come next:

* a composition of `Backend` and `CacheRoot` over one directory, for `Close` on
  a signal while `Configure` waits;
* `Backend` refined by `ChapterRead` for one runtime, which both describe at a
  different grain today (the end of a job is three steps in one and one step in
  the other);
* resource limits of the child as a fault of `Extraction` with a cause.

## 3 The models

### PageCache

Every method of `pageCache` runs under `c.mu`, so each is one action.

| Model | Code |
| --- | --- |
| `entries`, `usedBytes`, `reserved`, `pending` | fields of `pageCache` |
| `jobs` | live `cacheReservation`s, with what their job has put into the directory |
| `reader` | page handles that are out |
| `disk` | bytes that each directory really holds; no method reads it |
| `Open` | `newPageCache` after the lease was taken |
| `Lookup`, `LookupRemoves` | the two outcomes of `lookup` (a miss of an absent key changes nothing) |
| `ReleaseHandle` | `pageHandle.release` |
| `Sweep` | `sweepLocked` |
| `Reserve` | `reserve`, with `sweepLocked` and `evictUntilLocked`, admitted or refused |
| `MakeJobDir`, `FillJob` | `extractJob` up to the end of the child |
| `Commit`, `CommitBlocked`, `CommitNotRenamed` | the outcomes of `commit` |
| `ReleaseJob` | `cacheReservation.release` |
| `Close`, `Crash` | `close`; a kill or power loss |
| `Tick` | time |

All of the deletions share `Discard`, which is `removeLocked` on a set of
entries and `removeAll` on a set of pending directories: `gone` and `cleaned`
are those the filesystem let go, and an entry that stays may have lost files
nevertheless (`torn`).  Which deletions fail is chosen anew in each action.
Times are ages that stop at the lifetime they are compared with.  Byte counts
are cardinalities of sets of units (`Charge`), so that they can be reasoned
about with the theorems on finite sets.

### PinnedCache

The promise to the requests: a chapter is absent, shelved or withdrawn; only a
shelved one is lent, only one that nobody holds is deleted or replaced, and a
withdrawn one must be published anew to be lent again.  `PageCache` implements
it with `stock` read off `entries` (retired = withdrawn) and `held` =
`reader`.

### Backend

Each action is one critical section, or what lies between two, of one
goroutine.

| Model | Code |
| --- | --- |
| `current`, `life` | `Backend.current`; the `Configure` or `Close` that holds `lifecycleMu` |
| `status`, `sweeper` | `runtime.stopping` and `closed`; the goroutine of `sweepCache` |
| `lease` | the runtime that has the directory open |
| `listed`, `slot`, `job` | `runtime.jobs`, `runtime.extract`, the goroutines of `runJob` |
| `req` | handlers of `Pages` and `Page`, by where they are |
| `allowed` | callers the Silo server accepts at present |
| `stock`, `held` | the cache, by `PinnedCache` |

`Admitted` and `Working` are what `runtime.wg` counts besides the sweeper.
`Begin`, `Stop`, `CloseCache`, `OpenCache`, `OpenFails` and `Publish` are the
steps of `Configure` and `Close`.  `Arrive` and `Admit` are separate: the
pointer is read under `Backend.mu`, and the runtime may be stopping, closed or
replaced when the request enters it.  `FreeSlot`, `Unlist` and `End` are the
deferred calls at the end of a job, in their order; other requests may run
between them.  `End` hands `job.err` to all who wait, whatever their own
credentials are.  `Page` is the same path with fewer choices: it never starts a
job, which is the alternative of `LookupMiss` that ends the request.

### CacheRoot

One action per file operation of `ensureOwnedRoot`: look for the marker, read
it, list the directory, create the marker exclusively, write it, close it, and
undo; then the lock, and the removal of one leftover directory at a time.  Any
of them may fail, and `Crash` may come between any two.  A process that serves
makes and removes directories (`MakeDir`, `RemoveDir`).  `maker` records whose
a directory is, which no code can see: names are all it has.

### Extraction, ZipPreflight, NaturalOrder

An archive is its input file, its form (ZIP, RAR or neither), for ZIP the fields
of its end record and its directory headers by offset, and the sequence of its
entries (kind, length, name, whether it decodes and with which dimensions, and
`told`, the bytes that the child's JSON result spends on it if it is a page).
`RefuseInput` and `Begin` are the checks before the entry loop; `Begin` runs
`PreflightZIP`.  `OpenEntry`, `ReadChunk`, `ReadTooMuch` and `ReadEnd` are
`consumeEntry` and the limits of `entryLimitReader.Read`; `KeepPage`,
`DropOther` and `RefuseImage` are `inspectImage`; `EndOfArchive`, `NamePage` and
`RefuseName` are `materializePages`; `Fail` is every error return with its
deferred cleanup; `Kill` is the end of the job's deadline, which may come until
the result has been read.  Once the child has finished, its parent decides:
`Judgement` has the checks in the order in which they are made, the bound on the
result in `runExtractorChild`, the empty list and the sizes in `extractJob`, and
the files in `commit`; `Accept` publishes what passes them.  `LoseResult` is
everything else that may throw a finished chapter away: the child cannot write
its result or ends badly, the result cannot be read or decoded, or `commit` fails
over the old entry, the rename or a closed cache.  `Sorted` is what a stable sort
returns: the entries, each `Before` those that follow, where the archive's order
decides between equal names.

`ZipPreflight` has the scan as it is written (`PreflightZIP`, `Walk`), what the
library would allocate (`LibraryHeaders`), and a reference that says what a
well-formed directory is (`WellFormedZIP`: headers that tile the directory).
`NaturalOrder` has `NaturalCompare` over sequences of bytes, translated with its
loop, and a reference (`Precedes`) that splits names into letters and numbers.
The loops of both modules are recursive functions over pairs (an offset and a
count, a position in each name), so that they can be proved about.

### ChapterRead

One chapter.  A client (`session`) asks for the page list, polls, and joins
chunk after chunk; a handler (`req`) goes through its calls one at a time.

| Model | Code |
| --- | --- |
| `source`, `access` | the Silo server: which revision it serves, what it grants to whom |
| `req` | a request in `Pages` or `Page`: route, key, index, offset, the key made from HEAD, the answer |
| `stock`, `held`, `contents` | the cache, by `PinnedCache`, and which revision an entry was made from |
| `job` | the extraction job, with the caller whose credentials it downloads with |
| `session` | the client: the page list it got and the bytes it has joined |
| `seen` | what Silo granted and served at some time during the request; no code reads it |
| `TurnAway` | `decodeRequest`, `validateRequest`, `Handle`: refusals before any call |
| `Authenticate`, `AuthorizeItem`, `HeadFile` | the three calls of `runtime.authorize`, each able to fail (`Unavailable`) |
| `KeyChanged`, `Hit`, `Miss` | the comparison of keys and both lookups |
| `Join`, `Start`, `Refuse`, `GiveUp` | `getOrStartJob`, `waitForJob` |
| `ListPages`, `ServeChunk` | the rest of `Pages` and `Page` |
| `Answer`, `AnswerContent` | `responseForError`, `responseForResult` |
| `Download`, `SourceChanged`, `DownloadFails` | `download` and the comparisons after it |
| `Commit`, `ExtractFails` | the rest of `extractJob` |
| `AskPages` ... `StartOver` | the client of docs/protocol.md and `integration/plugin_test.go` |

A byte is a triple of revision, page and position, so that joining is visible.
`Elsewhere` starts the job of a caller that is not modelled otherwise, for any
key that HEAD may ever have given.  `AskAnything` sends requests that no client
of the protocol would make.  Time is not modelled: a timer may fire at any step.

### Configuration

Pure operators: `ConfigFromEntries`, `ReadInt`, `NormalizeConfig` and
`ValidateBaseURL` from entries to a configuration or `Refused`; `CommandLine`
and `NormalizeLimits` from there to the limits of the child.  A field is absent,
an integer, a fraction, something else, or *wide*: a float64 beyond int64, for
which Go leaves the result of the conversion open.  It may survive the test for
an integer as `Saturated`, or not; both are considered.

The manifest's schema asks for at least 1 where config.go takes 0 for the
default; `Meant` follows the code.

## 4 The runs

| Run | Instance | Shows |
| --- | --- | --- |
| `cache_safety` | 2 chapters, 3 job directories, 2 readers, budget of two peaks, 2 pending deletions | `TypeOK`, `IInv` and its parts; the refinement of `PinnedCache` |
| `cache_liveness` | 2 chapters, 2 job directories, 1 reader, 1 pending deletion | `IdlePagesExpire`, `PendingCleanedUp`, `RetiredDeleted` |
| `backend_safety` | 2 runtimes, 2 requests, 2 jobs, 1 chapter, one caller revocable | `OwnCacheOnly`, `OneExtraction`, `ClosedIsEmpty` |
| `backend_chapters` | 1 runtime at a time, 2 requests, 2 jobs, 2 chapters | `MapExact`, `WaitersHaveJob`, `OneExtraction` |
| `backend_liveness` | 1 runtime at a time, 2 requests, 1 job, 1 chapter | `RequestsEnd`, `LifecycleEnds` |
| `root_safety` | 3 processes, 2 directories | `IInv`, `StartsClean`, `ServerUndisturbed`, `ForeignUntouched` |
| `extraction_limits` | all archives of up to 3 small entries; pairs of names, sides of images, ZIP directories with one defect, lists about the result's bound | `VerdictRight`, `PagesRight`, `DirectoryBounded`, `OutputBounded`, `OutcomeRight`, `FailedLeavesNothing`, `ForeignKept` |
| `chapter_read` | 1 client, 3 revisions of which one has no validators, pages of 4, 3 and 1 bytes in chunks of 2 | `ServedIsAuthorized`, `ServedIsCurrent`, `JoinedIsChapter`, `ChunksInRange` |
| `denied_by_another`, `prepared_twice`, `root_recovery`, `stray_bytes` | small | the four disagreements of section 8 |

The properties, in words:

* **Cache.**  `Accounting`: the two counters are the sum of what they stand for,
  through every failed deletion.  `DiskCharged`: no byte on disk is without
  somebody who is charged for it and will delete it.  `DiskWithinBudget`: the
  directory never exceeds `max_cache_bytes`.  `ReaderFilesStay`, `PinsExact`: a
  handle keeps its chapter complete, and only handles do.
  `ServableIsComplete`: a chapter that lost files to a failed deletion is not
  served.  `PendingBounded`: undeletable job directories stay bounded.
  `ImplementsPinnedCache`: no step does anything that the shelf forbids.
  `IdlePagesExpire`, `PendingCleanedUp`, `RetiredDeleted`: deletion happens in
  the end, without requests.
* **Backend.**  `OwnCacheOnly`: whoever can touch the cache belongs to the
  runtime that owns it.  `OneExtraction`: one at a time, and the slot is neither
  lost nor doubled.  `MapExact`, `WaitersHaveJob`: map, jobs and waiters agree
  between the steps in which a job ends.  `ClosedIsEmpty`: after `Close`
  nothing is left.  `RequestsEnd`, `LifecycleEnds`: nobody waits for ever.
* **Directory.**  `StartsClean`: who serves is alone and owes nothing to former
  owners.  `ServerUndisturbed`: no other startup removes its directories.
  `ForeignUntouched`: a user's directory is not removed.
* **Extraction.**  `VerdictRight`: the streaming counters give the verdict that
  one reads off the archive, entry by entry, to the byte.  `PagesRight`: all
  pages, complete, in natural order.  `OutputBounded`: what is inspected and
  dropped counts as well.  `DirectoryBounded`: the library never sees more ZIP
  headers than the limit.  `OutcomeRight`: what becomes of a chapter that the
  child has finished follows from the archive.  It is published only if there is
  an image and the list of the images fits into the 1 MiB that the parent reads,
  and turned away only if not, or by a fault or a kill; the sizes that
  `extractJob` checks again and the files that `commit` looks at are never the
  reason.  So the limits of README.md are not all there is: names have no limit of
  their own, and an archive within all of those limits whose names are very long
  is answered 422 `invalid_archive` after it was extracted.  No document mentions
  this bound.  `FailedLeavesNothing`, `ForeignKept`: cleanup removes all of its own
  files and none of others.
* **Reading.**  `ServedIsAuthorized`: content goes only to a caller that Silo
  granted account, chapter and file during this very request, from the cache or
  not.  `ServedIsCurrent`: it comes from a revision Silo served during the
  request, never from an old one still in the cache or from one that replaced it
  during the download.  `JoinedIsChapter`: a client that has finished has every
  byte of one revision.  `ChunksInRange`: a client that follows the protocol is
  never told that a chunk is out of range.

Bounds, and why they are enough:

* The budget of `cache_safety` is two peaks (a peak is archive plus pages).  So
  one chapter fits beside a running job, a second forces an eviction, and with a
  pending directory the job is refused.  Three job names let two undeletable
  directories wait while a third job is admitted or refused, which is the limit
  `MaxPendingCleanup = 2`.  Two readers tell a use count from a flag.
  `MaxTotalBytes = 2` tells a full chapter from a torn one; the archive may be
  one byte over its bound, as in `writeBoundedFile`.  The lifetimes are 2 and 1,
  so each of them can be the first to run out.  What these bounds cannot show,
  the proofs do: they hold for all of them.
* `cache_liveness` drops one reader, since a fair reader releases in the end
  whatever the other does, and one pending directory.
* `backend_safety` needs two runtimes (old and new), two jobs (one that ends
  while the other starts) and two requests (one that waits in the old runtime
  while another enters the new one).  A runtime identifier is used again after
  its requests are gone, so reconfiguration is not bounded in number.
  `backend_chapters` gives up the second runtime for a second chapter, without
  which the map of jobs alone would keep a second extraction out; so
  `OneExtraction` is checked in both, across runtimes and across chapters.
  `backend_liveness` has one job; a second adds no cycle, since jobs do not
  wait for each other.
* `root_safety`: one process serves, one starts and one is about to; two
  directories let a cleanup be half done.  The proofs hold for all numbers.
* `extraction_limits`: with limits of 2 entries, 2 bytes per page and 3 in all,
  archives of up to three entries of up to 3 bytes reach each limit exactly and
  exceed it by one, over one, two and three entries.  Sides of images go to 5 with
  a limit of 4 pixels.  ZIP directories have up to three headers, with each
  field of the end record wrong in turn, and each header missing, too long or of
  another disk.  With `MaxResultBytes = 10`, lists of one and two images take 9 to
  20 bytes, so that the bound is met exactly and exceeded by one with either
  number, and an entry that is no image does not count.  `OrderIsMeant`, `OrderIsTotal` and `OrderIsTransitive` are
  assumptions of `MCExtraction` that TLC evaluates: for all names of up to three
  bytes (two for transitivity) over `.`, digits and letters in both cases,
  `NaturalCompare` is the order `Precedes`, total and transitive, as
  `sort.SliceStable` needs it.  What all these bounds leave open, `ArchiveProofs`
  and `ExtractionProofs` settle: they hold for archives, names and limits of any
  size.
* `chapter_read`: x and y differ in their validators only, as two versions of a
  file of one length do; u has no validators and other pages.  A chunk of 2 bytes
  with pages of 4, 3 and 1 has a page that ends at a chunk's end, one that ends
  inside, and one shorter than a chunk.  There is one reader, so that a
  replacement can come at every step of it; other callers are `Elsewhere`, and
  the number of readers is the business of the proofs.  One revision only has no
  validators, so two that the plugin cannot tell apart do not occur here; what is
  promised of them, `JoinedIsChapter` for lengths, is left to the proof.  The
  instance has no file
  that is too large for HEAD; that refusal ends the request like any other.
* `root_safety` also evaluates `ConfigurationIsMeant` and
  `ConfigurationIsPossible`, the assumptions of `MCCacheRoot`: all URLs, all
  pairs of fields with numbers from -1 to one beyond every bound, and
  combinations of absent, 0, 1 and wide in all six.

Deadlock.  `CHECK_DEADLOCK FALSE` is set for the cache, where an open cache
without requests may rest, for the backend and for readers, which may be idle,
and for one extraction, which ends.  `CacheRoot` never stops: a process can always be
started or killed; there deadlock is checked.
Symmetry is used in safety runs over sets whose members are interchangeable,
never with a liveness property, and over requests only when no caller is
singled out.

## 5 Fairness

* `PageCache`: time passes; the ticker of `sweepCache` fires every minute while
  the runtime lives, and `SweepExcept({})` takes it that the filesystem does not
  refuse a deletion for ever (docs/cache-cleanup.md says as much: disk stays
  occupied until the problem is resolved); handlers release their handles in
  deferred calls.  No fairness is assumed of `Open`, `Close`, `Crash`, of
  requests or of jobs.
* `Backend`: goroutines are scheduled, and every wait has a bound in the code:
  `UpstreamTimeout` for calls, `PreparationWait` for a job, `JobTimeout` for the
  job itself; cancellation ends all three.  `LifeStep` is the goroutine that
  holds `lifecycleMu`; the sweeper sees its cancelled context.  Nothing makes
  anybody send a request, call `Configure` or change access.  `ReqStep` is weakly
  fair as a whole: a handler that can do something does something, not every
  possible thing.
* `ChapterRead` and `CacheRoot` have no liveness property: a client may be
  answered 202 or 409 for ever (a chapter can be evicted each time), and gives up
  after `MaxPolls`, as docs/protocol.md asks it to.  That each request is
  answered is `RequestsEnd` of `Backend`.

## 6 What is proved

tlapm checks these theorems for every value of the constants that meets the
assumptions of the modules: for `PageCache` finite sets of keys, jobs and
readers and positive limits; distinct model values; for `Extraction` positive
limits and archives that a file can be (section 7); for `ChapterRead` that
validators tell revisions apart (section 7); for `Configuration` tables of
defaults and bounds that fit together.  Nothing else is assumed.

**PageCacheProofs.**  None of the safety properties is inductive alone:
the disk stays in budget only because each directory is within its charge, the
charges add up to the counters, and the counters are within the budget; and a
charge is only right after a failed commit if the job's directory holds no more
than the reservation at that point.  The inductive invariant is

    IInv == Ledger /\ Lending /\ PendingBounded /\ DiskWithinBudget

`Ledger` has the types, `Accounting`, `WithinBudget` (counters within the
budget), `JobsApart` (one live reservation, not also a leftover), `JobFiles`
(what a job's directory holds in each phase), `DownForgets` (a process that is
down knows nothing) and `DiskCharged`.  `Lending` has use counts, files in use
and servable chapters, and rests on `Ledger`.  `DiskWithinBudget` follows from
`Ledger` while the cache is open, by summing `DiskCharged`; it is kept in `IInv`
because it must survive a crash, when nothing but the disk is left, and the
startup that deletes.

The argument has three layers: lemmas about `Charge` (additive over disjoint
sets, monotone, what a changed or moved directory does to it), which rest on
the library's theorems about cardinalities; lemmas about `Discard` and about
each action, one part of the invariant at a time; and the theorems

* `Inductive`: `Spec => []IInv`;
* `TypeCorrect`, `AccountingExact`, `DiskStaysCharged`, `BudgetKept`,
  `PinsStayExact`, `ReadersKeepFiles`, `ServesComplete`, `PendingStaysBounded`:
  the properties of the runs;
* `ImplementsPromise`: `Spec => ImplementsPinnedCache`.  Initial states map to
  initial states, and each action maps to the step of `PinnedCache` that
  does what it does (`Lookup` to `Borrow`, `Commit` to `Publish`, everything
  that discards to `Clear`, `Open`, `Close` and `Crash` to `Restart` or a
  stutter), which needs `IInv`: only because use counts are exact does "no use
  count" mean "nobody holds it".

**CacheRootProofs.**  `StartsClean` becomes inductive with: the lease is held
exactly from the lock to the end (`Held`), the directories of a living process
are those of the one that serves (`Made`), a cleanup has listed all that exists
(`Listed`, `Unlisted`), and a user's directory keeps every process before the
marker (`KeptOut`).  The last one is why the emptiness check may come before
the lock.  Theorems: `RootInductive`, `RootStartsClean`,
`RootServerUndisturbed`, `RootForeignUntouched`; the last two are action
properties that follow from the invariant in each step.

**BackendProofs.**  `OwnCacheOnly` says that everybody inside belongs to the
runtime that owns the cache.  It is kept because the lease, the current runtime
and the state of each runtime determine each other at every step of `Configure`
and `Close` (`LifeExact`), and because a step that changes the lease has waited
for the drain.  `OneExtraction` counts; `AtMostOne` and `SlotExact` say the same
without counting, which is what a step can preserve: the slot is taken exactly
by the runtime of the job that extracts.  With the records of requests and jobs
(`RequestsFit`, `JobsFit`), `MapExact`, `WaitersHaveJob` and an empty shelf while
nobody has the lease (`ShelfEmpty`), this is inductive.  The sets of runtimes,
requests, jobs and keys may be infinite.  Theorems: `BackendInductive`,
`BackendTypeCorrect`, `CacheStaysOwn`, `ExtractsOneAtATime`, `MapStaysExact`,
`WaitersKeepJob`, `CloseLeavesNothing`.

**ChapterReadProofs.**  Four facts have to be carried from step to step.
`RequestsWitnessed`: what a request has been granted so far, and the key HEAD
gave it, were granted and served during it.  `JobFits` and `ContentsFit`: a job
past its download, and an entry on the shelf, hold a revision whose key is the
entry's, since `Unchanged` compared them; nobody ever looks at Silo again.
`RequestsFit`: what a handler reads or has answered fits the key it was
authorized for, and the key that the client asked for.  `SessionsFit`: the client
holds a page list of its key, complete pages before the one in hand, of that one
a multiple of the chunk, and, where there are validators, all of it bytes of one
revision in order (`JoinedFrom`).  From `SessionsFit`, an offset that is asked
for is aligned and inside its page, and `Expected` makes the pages come out
whole.  The lemmas on joining rest on the library's theorems about sequences.
Theorems: `ChapterInductive`, `ChapterTypeCorrect`, `ContentIsAuthorized`,
`ContentIsCurrent`, `ChapterIsWhole`, `ChunkIsInRange`.

**DataLemmas.**  Archives and names have any length, so what the operators over
them compute is proved by induction.  The library's induction theorems cannot be
used here, since they take an operator as a parameter; what can be used is that
`<` on the naturals and the strict subsets of a finite set are well-founded: a
set of counterexamples that is not empty has a least member.  From this come
induction over a set of naturals (`NatInduct`, `NatInductAll`), sums over finite
sets (`SumIsCount`: the sum that `MapThenSumSet` folds is a number of pairs, so
that `SumPut`, `SumPart` and the others follow from cardinalities), the existence
of recursive functions (`LoopDefined`: of one that stops or goes on elsewhere;
`RecursionDefined`: of one that steps up from zero) and that what has a strict
order can be sorted (`CanBeSorted`).

**ArchiveProofs.**  `OrderIsMeant`: for any two names, `NaturalCompare` is -1
exactly when `Precedes` says so, 1 when it says so of the other way round, and 0
only for equal names.  The loop is followed from one token to the next
(`RoundIs`): two runs of digits are one step of it and one token of each name;
`NumbersAre` has that trimming zeros and comparing lengths first compares values,
through what the digits of a run are worth (`ValueReads`).  `OrderIsTransitive`:
the reference is transitive, at the first place where two of three names
differ.  `PreflightIsRight`: the scan says "ok" for exactly the files whose
headers tile the directory; forwards the headers it met are the tiling
(`OkIsTiled`), backwards every tiling is walked to its end (`TiledIsOk`).
`LibraryIsBounded`: the library then appends exactly the headers the scan has
counted, and stops at the end record.

**ExtractionProofs.**  The files of an extraction: every file in the directory is
foreign or tracked, never both, and the temporary file at hand is tracked before
it is written (`FilesTracked`); page names are the only foreign names that could
be taken (`ForeignNamed`).  Theorems: `FilesInductive`, `NothingIsLeft`,
`ForeignIsKept`.  Everything else rests on

    IInv == /\ archive \in Archives /\ TypeOK /\ FInv
            /\ Passed /\ Position /\ Budget /\ Blamed
            /\ Charged /\ Listed /\ Stored

The verdict is about the whole archive, a step about one entry and one chunk; so
`Passed` says that the input was in order and no entry before the one at hand
offends, and `Budget` that both counters are what the reference leaves
(`Rest`) less what was read of this entry.  When a step refuses, the entry at hand
is then the first that offends (`FirstOffends`), for the reason the reference
gives; `Blamed` keeps that.  `Charged` is the budget of the disk: what is left of
the limit and what lies in the directory are together within it, which a removal
or a rename can only lessen.  `Listed` and `Stored` follow the pages: the
candidates are the pages met so far, each once; after the sort each is
`Earlier` than the next, by `OrderIsMeant`; and the bytes of each are in its
temporary file until they are in its page file.  Theorems, for archives of any
length and any limits: `ExtractionInductive`, `ExtractionTyped`,
`VerdictIsRight`, `DirectoryIsBounded`, `OutputIsBounded`, `PagesAreRight`, and
`OutcomeIsRight`: at the end the parent finds what the archive holds
(`DoneIsJudged`).  The sum of pages that `extractJob` computes again is within
the limit, since it is a part of what was charged (`DoneIsWithin`), and by
`Stored` each page file is in place; so of all checks only those for an empty and
for a too long list can fail.

**ConfigurationProofs.**  `AcceptedIsMeant`: whatever the connection says, an
accepted configuration has the numbers it asked for and none that was cut,
wrapped or saturated, because bounds are checked after reading and `Saturated`
is beyond all of them.  `NormalizingAgain`: `Configure` may normalize again.
`ChildIsLimited`: the child takes exactly the limits that were accepted, since
none of them is 0 and its own bounds are wider.  These speak of operators, not
of steps, so no run lists them; TLC evaluates the same formulas as assumptions.

So every safety invariant and every action property of the passing runs is a
theorem.  Model-checked only: the liveness properties, `IdlePagesExpire`,
`PendingCleanedUp`, `RetiredDeleted`, `RequestsEnd` and `LifecycleEnds`, since
tlapm 1.4.5 can treat neither fairness nor `ENABLED`.  It cannot treat operators
declared `RECURSIVE` either; no module here has one.

## 7 Assumptions

* The child of a killed process dies with it (`Pdeathsig`), so a leftover
  directory does not grow again after cleanup.
* A user adds no files to the directory while the plugin uses it; the check for
  an empty directory is made before.  Page files that somebody touches are what
  `LookupRemoves` covers; the bytes they then have are not modelled.
* The clock is read under the lock.  In the code `time.Now` is read before
  `c.mu` is taken, which may move `lastUsed` back by the time a caller waited.
* `PageCache.Close` takes it that no job and no handle is left, and
  `Cache!Restart` in `Backend` that none of another runtime is; `OwnCacheOnly`
  and the guard `Drained` discharge this: the drain comes before.
* `PageCache.Reserve` takes it that no other reservation is live.  This is the
  extract slot: `OneExtraction` in `Backend`.
* In `PageCache` a job directory holds the archive and the pages, nothing else, so
  `DiskCharged`, `DiskWithinBudget` and their theorems hold on this condition.
  `Extraction` shows when it holds more (section 8, stray bytes).
* `Lower` is `strings.ToLower` for names whose capital letters are ASCII.  Beyond
  that ToLower may change other letters, and the length of a name; the theorems
  about the order are about all names of the first kind.
* `told` is a number: how JSON escapes a name is not modelled.
* Keys are hashes without collisions; names from `MkdirTemp` are new.
* `ValidatorsAssumption`: if Silo sends an ETag or Last-Modified, two revisions
  of one length never have the same.  Without validators nothing is assumed, and
  less is promised: `JoinedIsChapter` then speaks of lengths only, since neither
  the plugin nor the client could tell.
* Headers and body of one answer of Silo are of one revision: `Download` reads
  `source` once.  A download that mixes revisions of equal length under one set
  of headers could not be noticed by anybody.
* `TablesAssumption`: defaults are within their bounds, every bound is below what
  a number beyond int64 converts to, and the dictionary bound is within
  `maxRARDictionaryBytes`.  In config.go: cache 2 GiB of at most 4 GiB; entries
  2048, page 32 MiB, total 1 GiB, archive 512 MiB and dictionary 64 MiB, each the
  default and the bound; the time to live 10 minutes, between a second and a
  day.  In archive.go: the same numbers as defaults, and 64 GiB.  On platforms
  where int has 32 bits, `max_entries` would be cut by `int(entriesValue)`; the
  model is of 64 bits.
* `ArchivesAssumption`: a file has finitely many ZIP headers, and none of them
  lies where its end record does, since the two differ in their signatures; the
  entries of a ZIP are what the library lists of its directory; a file of no
  bytes does not decode as an image.
* What follows the last directory header is the end record, and the library
  starts at the directory's offset: `LibraryHeaders` models archive/zip of the
  pinned Go version, which appends headers until one does not parse.

## 8 Disagreements between code and documentation

Each is a run that TLC must find violated.

1. `denied_by_another`: `docs/protocol.md` says that 401 and 403 mean that the
   caller or the chapter is not authorized.  A job downloads with the
   credentials of the request that started it, and its error is the answer of
   all who joined.  When that caller loses access during the download, another
   caller, accepted throughout, is answered 403.
2. `prepared_twice`: `docs/validation.md` and `backend_test.go` promise one
   download per prepared chapter.  `Pages` looks the chapter up and then calls
   `getOrStartJob`, which does not look again; if the job commits and leaves the
   map in between, the chapter is downloaded and extracted a second time.
3. `root_recovery`: `docs/cache-cleanup.md` says that after a crash the next
   startup recovers.  A kill between the creation of the marker and its write
   leaves an empty marker, which every later start rejects.
4. `stray_bytes`: `README.md` says that failed deletions stay charged.
   `consumeEntry` ignores a failed removal of the temporary file of an entry
   that is no image, and `commit` renames the whole directory but charges the
   pages only.

## 9 Not modelled

* Which characters a token, profile, content id or key may have, routing by
  method and path, and the wording of JSON: a request is well formed or not
  (`Malformed`), and `TurnAway` gives it one of the refusals.  `Health` reads a
  header and keeps no state.
* How answers of Silo parse: an answer that does not is `Unavailable`.
* The child's start and resource limits: calls of the operating system, whose
  outcomes are `FillJob` and `JobFails`, and `Fault` and `Kill` of `Extraction`.
  The pipe is there as the bound on the result and as `LoseResult`; the command
  line is in `Configuration`.
* The bytes of a ZIP file around the fields that the scan reads, and encrypted or
  multi-volume RAR headers: `Fault`, or an entry that is `locked`.  The bound of
  the RAR reader cannot be reached while the input is a regular file within the
  archive limit.
* Decoding of images and of archive formats: library code; an entry decodes or
  does not.
* What `fsync` orders: after a power loss a directory may be older than the
  model's `disk`.  Both start with a cleanup that looks at what is there.
* `Close` on a signal while a `Configure` waits for `lifecycleMu`: `Backend`
  lets `Configure` come after `Close`, as the code does; what `os.Exit` then
  leaves is a `Crash` of `PageCache`.
* Catalog index, release scripts, manifest: no state or concurrency.
