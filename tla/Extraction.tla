----------------------------- MODULE Extraction -----------------------------
(***************************************************************************)
(* One extraction: the checks of the input, the entry loop, the limits,    *)
(* the temporary files and the page files of internal/archive/archive.go,  *)
(* in the process that runs "plugin extract", and what its parent makes of *)
(* the result and the output directory: runExtractorChild, extractJob and  *)
(* commit of internal/silo.                                                *)
(*                                                                         *)
(* Of an entry's contents only the length matters, and whether they decode *)
(* as an image and of which dimensions.  A ZIP file has a directory, which *)
(* ZipPreflight scans before anything is extracted.  Any file operation    *)
(* may fail, the context may end and the process may be killed at any step.*)
(***************************************************************************)
EXTENDS NaturalOrder, ZipPreflight, SequencesExt

CONSTANTS
  MaxEntries,     \* Limits.MaxEntries
  MaxPageBytes,   \* Limits.MaxPageBytes
  MaxTotalBytes,  \* Limits.MaxTotalBytes
  MaxArchiveBytes, \* Limits.MaxArchiveBytes
  MaxImagePixels,
  MaxResultBytes, \* what the parent reads of the child's result (extractor.go)
  Archives        \* the archives considered

ASSUME ExtractionLimits ==
  /\ MaxEntries \in Nat \ {0} /\ MaxPageBytes \in Nat \ {0} /\ MaxTotalBytes \in Nat \ {0}
  /\ MaxArchiveBytes \in Nat \ {0} /\ MaxImagePixels \in Nat \ {0}
  /\ MaxResultBytes \in Nat \ (0..2)  \* an empty list, "[]" and a newline, has room

\* told is what the child's result spends on the entry if it is a page: an object
\* with its name, which has no limit of its own, and the comma or bracket after it.
\* "locked" stands for encrypted entries, "link" for links and special files.
Entry ==
  [kind: {"dir", "link", "locked", "file"}, size: Nat, name: Seq(0..255),
   image: {"page", "other", "bad"}, width: Nat, height: Nat, told: Nat]

\* headers maps offsets to directory headers; RAR has neither them nor end.
ArchiveType(a) ==
  /\ a.input \in {"regular", "irregular"} /\ a.form \in {"zip", "rar", "unknown"}
  /\ a.end \in EndRecord /\ \A o \in DOMAIN a.headers : o \in Nat /\ a.headers[o] \in Header
  /\ a.entries \in Seq(Entry)

\* A file has room for finitely many headers, and none of them is where the end
\* record is, which has another signature; the library reads what the directory
\* lists; what decodes as an image has bytes.
ASSUME ArchivesAssumption ==
  \A a \in Archives :
    /\ ArchiveType(a)
    /\ IsFiniteSet(DOMAIN a.headers)
    /\ a.end.tail # NoEnd => EndOffset(a.end) \notin DOMAIN a.headers
    /\ a.form = "zip" => Len(a.entries) = LibraryHeaders(a.end, a.headers)
    /\ \A i \in 1..Len(a.entries) : a.entries[i].image = "page" => a.entries[i].size > 0

VARIABLES
  archive,         \* the input
  foreign,         \* names the output directory holds beforehand
  at,              \* where the extraction is
  index,           \* the entry at hand
  left,            \* bytes of it that are still to be read
  pageRemaining,   \* entryLimitReader.pageRemaining
  totalRemaining,  \* what is left of MaxTotalBytes
  files,           \* name -> bytes, in the output directory
  created,         \* extractionState.created
  candidates,      \* entries that are pages, in the order met, then sorted
  pages,           \* entries whose page file is in place
  err,             \* why the extraction failed, or "none"
  refused          \* own files that could not be removed when it was tried

vars == <<archive, foreign, at, index, left, pageRemaining, totalRemaining, files,
          created, candidates, pages, err, refused>>

entries == archive.entries

Temp(i) == <<"temp", i>>
PageFile(n) == <<"page", n>>

given == <<archive, foreign>>
limitVars == <<left, pageRemaining, totalRemaining>>
nameVars == <<candidates, pages>>

Active == {"start", "next", "copy", "inspect", "name"}

Bytes(names) == MapThenSumSet(LAMBDA n : files[n], names)

Without(names) == [n \in DOMAIN files \ names |-> files[n]]

\* The output directory of a job is new; that of the command may hold a file
\* under the name of a page.
Init ==
  /\ archive \in Archives
  /\ at = "start" /\ index = 1 /\ left = 0
  /\ pageRemaining = 0 /\ totalRemaining = MaxTotalBytes
  /\ files \in {[n \in {} |-> 0], [n \in {PageFile(1)} |-> 1]}
  /\ foreign = DOMAIN files
  /\ created = {} /\ candidates = <<>> /\ pages = <<>>
  /\ err = "none" /\ refused = {}

-----------------------------------------------------------------------------
\* The error returns: the deferred cleanup tries to remove every file that was
\* tracked, and ignores failures.
Fail(why) ==
  /\ at' = "failed" /\ err' = why
  /\ \E kept \in SUBSET (DOMAIN files \cap created) :
       files' = Without(created \ kept) /\ refused' = refused \cup kept
  /\ UNCHANGED <<given, index, limitVars, created, nameVars>>

\* validateInput and detectArchiveKind: a regular file of a known format.
RefuseInput ==
  /\ at = "start"
  /\ \/ archive.input # "regular" /\ Fail("input")
     \/ archive.input = "regular" /\ archive.end.size > MaxArchiveBytes /\ Fail("too_large")
     \/ archive.input = "regular" /\ archive.end.size <= MaxArchiveBytes
        /\ archive.form = "unknown" /\ Fail("unsupported")

Preflight ==
  IF archive.form = "zip" THEN PreflightZIP(archive.end, archive.headers, MaxEntries) ELSE "ok"

\* A ZIP file's directory is scanned before the library reads it.
Begin ==
  /\ at = "start" /\ archive.input = "regular" /\ archive.end.size <= MaxArchiveBytes
  /\ archive.form # "unknown"
  /\ IF Preflight # "ok" THEN Fail(Preflight)
     ELSE at' = "next" /\ UNCHANGED <<given, index, limitVars, files, created, nameVars, err, refused>>

-----------------------------------------------------------------------------
\* The checks at the head of the loop, in the order in which they are made.
RefuseEntry ==
  /\ at = "next" /\ index <= Len(entries)
  /\ \/ index > MaxEntries /\ Fail("entries")
     \/ index <= MaxEntries /\ entries[index].kind = "locked" /\ Fail("encrypted")
     \/ index <= MaxEntries /\ entries[index].kind = "link" /\ Fail("unsafe")

SkipDirectory ==
  /\ at = "next" /\ index <= Len(entries) /\ index <= MaxEntries
  /\ entries[index].kind = "dir"
  /\ index' = index + 1
  /\ UNCHANGED <<given, at, limitVars, files, created, nameVars, err, refused>>

\* Mutant: every entry has the whole of MaxTotalBytes.
OpenEntryAfresh ==
  /\ at = "next" /\ index <= Len(entries) /\ index <= MaxEntries
  /\ entries[index].kind = "file"
  /\ files' = [n \in DOMAIN files \cup {Temp(index)} |->
                 IF n = Temp(index) THEN 0 ELSE files[n]]
  /\ created' = created \cup {Temp(index)}
  /\ at' = "copy"
  /\ left' = entries[index].size
  /\ pageRemaining' = MaxPageBytes /\ totalRemaining' = MaxTotalBytes
  /\ UNCHANGED <<given, index, nameVars, err, refused>>

\* consumeEntry tracks its temporary file before it writes to it.
OpenEntry ==
  /\ at = "next" /\ index <= Len(entries) /\ index <= MaxEntries
  /\ entries[index].kind = "file"
  /\ files' = [n \in DOMAIN files \cup {Temp(index)} |->
                 IF n = Temp(index) THEN 0 ELSE files[n]]
  /\ created' = created \cup {Temp(index)}
  /\ at' = "copy"
  /\ left' = entries[index].size /\ pageRemaining' = MaxPageBytes
  /\ UNCHANGED <<given, index, totalRemaining, nameVars, err, refused>>

-----------------------------------------------------------------------------
(* entryLimitReader.Read, once per round of the copy loop.                 *)

\* Mutant: only the page limit cuts a read short.
LimitOfPage == pageRemaining

Limit == IF pageRemaining < totalRemaining THEN pageRemaining ELSE totalRemaining

ReadChunk ==
  /\ at = "copy" /\ Limit > 0
  /\ \E n \in 1..(IF left < Limit THEN left ELSE Limit) :
       /\ left' = left - n
       /\ pageRemaining' = pageRemaining - n /\ totalRemaining' = totalRemaining - n
       /\ files' = [files EXCEPT ![Temp(index)] = @ + n]
  /\ UNCHANGED <<given, at, index, created, nameVars, err, refused>>

\* Mutant: an exhausted limit is an error, whether or not there is more to read.
ReadTooMuchUnprobed ==
  /\ at = "copy" /\ Limit = 0
  /\ Fail(IF pageRemaining = 0 THEN "page" ELSE "total")

\* At the limit one more byte is asked for: there must not be one.
ReadTooMuch ==
  /\ at = "copy" /\ Limit = 0 /\ left > 0
  /\ Fail(IF pageRemaining = 0 THEN "page" ELSE "total")

ReadEnd ==
  /\ at = "copy" /\ left = 0
  /\ at' = "inspect"
  /\ UNCHANGED <<given, index, limitVars, files, created, nameVars, err, refused>>

-----------------------------------------------------------------------------
(* inspectImage and the end of consumeEntry.                               *)

\* Mutant: the product is compared, and only one side at a time is bounded.
TooManyPixelsBySide(e) == e.width > MaxImagePixels \/ e.height > MaxImagePixels

\* checkImageDimensions divides first, so that nothing can overflow.
TooManyPixels(e) == e.width > MaxImagePixels \div e.height

KeepPage ==
  /\ at = "inspect" /\ entries[index].image = "page"
  /\ entries[index].width > 0 /\ entries[index].height > 0 /\ ~TooManyPixels(entries[index])
  /\ candidates' = Append(candidates, index)
  /\ index' = index + 1 /\ at' = "next"
  /\ UNCHANGED <<given, limitVars, files, created, pages, err, refused>>

\* What is no image is removed at once, or stays when that fails.
DropOther ==
  /\ at = "inspect" /\ entries[index].image = "other"
  /\ \/ files' = Without({Temp(index)}) /\ UNCHANGED refused
     \/ refused' = refused \cup {Temp(index)} /\ UNCHANGED files
  /\ index' = index + 1 /\ at' = "next"
  /\ UNCHANGED <<given, limitVars, created, nameVars, err>>

RefuseImage ==
  /\ at = "inspect"
  /\ LET e == entries[index] IN
     \/ (e.image = "bad" \/ (e.image = "page" /\ (e.width = 0 \/ e.height = 0))) /\ Fail("image")
     \/ e.image = "page" /\ e.width > 0 /\ e.height > 0 /\ TooManyPixels(e) /\ Fail("pixels")

-----------------------------------------------------------------------------
(* materializePages.                                                       *)

\* Mutant: pages keep the order of the archive.
SortedByArchive(seq) == seq

\* Before, in natural filename order; a stable sort decides ties by position.
Before(i, j) ==
  LET c == NaturalCompare(entries[i].name, entries[j].name) IN c < 0 \/ (c = 0 /\ i < j)

\* The result of a stable sort: the same entries, each before those that follow.
Sorted(seq) ==
  CHOOSE s \in [DOMAIN seq -> ToSet(seq)] :
    ToSet(s) = ToSet(seq) /\ \A m, n \in DOMAIN s : m < n => Before(s[m], s[n])

EndOfArchive ==
  /\ at = "next" /\ index > Len(entries)
  /\ candidates' = Sorted(candidates)
  /\ at' = "name"
  /\ UNCHANGED <<given, index, limitVars, files, created, pages, err, refused>>

NextPage == Len(pages) + 1

\* Mutant: the rename does not look whether the name is taken.
CollideNever == FALSE

Collide == PageFile(NextPage) \in DOMAIN files

RefuseName ==
  /\ at = "name" /\ NextPage <= Len(candidates) /\ Collide
  /\ Fail("collision")

\* Mutant: the page file is not tracked, only its temporary file was.
NamePageUntracked ==
  /\ at = "name" /\ NextPage <= Len(candidates) /\ ~Collide
  /\ LET temp == Temp(candidates[NextPage]) IN
     files' = [n \in (DOMAIN files \ {temp}) \cup {PageFile(NextPage)} |->
                 IF n = PageFile(NextPage) THEN files[temp] ELSE files[n]]
  /\ pages' = Append(pages, candidates[NextPage])
  /\ UNCHANGED <<given, at, index, limitVars, created, candidates, err, refused>>

NamePage ==
  /\ at = "name" /\ NextPage <= Len(candidates) /\ ~Collide
  /\ LET temp == Temp(candidates[NextPage]) IN
     files' = [n \in (DOMAIN files \ {temp}) \cup {PageFile(NextPage)} |->
                 IF n = PageFile(NextPage) THEN files[temp] ELSE files[n]]
  /\ created' = created \cup {PageFile(NextPage)}
  /\ pages' = Append(pages, candidates[NextPage])
  /\ UNCHANGED <<given, at, index, limitVars, candidates, err, refused>>

Finish ==
  /\ at = "name" /\ NextPage > Len(candidates)
  /\ at' = "done"
  /\ UNCHANGED <<given, index, limitVars, files, created, nameVars, err, refused>>

-----------------------------------------------------------------------------
\* A file operation or the decoder fails, or the context has ended.
Fault == at \in Active /\ Fail("fault")

\* The job's deadline or shutdown kills the process, while it extracts or while
\* its result is being read.
Kill ==
  /\ at \in Active \cup {"done"}
  /\ at' = "killed"
  /\ UNCHANGED <<given, index, limitVars, files, created, nameVars, err, refused>>

-----------------------------------------------------------------------------
(* The parent: the child has finished and writes its pages to its stdout.  *)

\* A bracket and a newline beside what the pages take.
ResultBytes == 2 + MapThenSumSet(LAMBDA i : entries[i].told, ToSet(pages))

\* Mutant: a result of exactly the bound is refused.
ResultTooLargeAt == ResultBytes >= MaxResultBytes

\* runExtractorChild asks for one byte more than it accepts.
ResultTooLarge == ResultBytes > MaxResultBytes

\* extractJob checks the sizes again, and commit looks at every page file.
SizesWithin ==
  /\ \A p \in ToSet(pages) : entries[p].size \in 1..MaxPageBytes
  /\ MapThenSumSet(LAMBDA i : entries[i].size, ToSet(pages)) <= MaxTotalBytes

InPlace ==
  \A n \in 1..Len(pages) :
    PageFile(n) \in DOMAIN files /\ files[PageFile(n)] = entries[pages[n]].size

\* The checks in the order in which they are made.
Judgement ==
  IF ResultTooLarge THEN "result"
  ELSE IF pages = <<>> THEN "no_pages"
  ELSE IF ~SizesWithin THEN "pages_too_large"
  ELSE IF ~InPlace THEN "invalid_page"
  ELSE "none"

\* What passes is published: commit turns the whole output directory into the entry.
Accept ==
  /\ at = "done"
  /\ err' = Judgement /\ at' = IF Judgement = "none" THEN "published" ELSE "rejected"
  /\ UNCHANGED <<given, index, limitVars, files, created, nameVars, refused>>

\* The child cannot write its result or does not end well, the parent cannot read
\* or decode it, or commit fails: the cache is closed, has the chapter in use, or a
\* file operation fails.
LoseResult ==
  /\ at = "done"
  /\ err' = "fault" /\ at' = "rejected"
  /\ UNCHANGED <<given, index, limitVars, files, created, nameVars, refused>>

Next ==
  \/ RefuseInput \/ Begin \/ RefuseEntry \/ SkipDirectory \/ OpenEntry
  \/ ReadChunk \/ ReadTooMuch \/ ReadEnd
  \/ KeepPage \/ DropOther \/ RefuseImage
  \/ EndOfArchive \/ RefuseName \/ NamePage \/ Finish
  \/ Fault \/ Kill \/ Accept \/ LoseResult

Spec == Init /\ [][Next]_vars

-----------------------------------------------------------------------------
TypeOK ==
  /\ ArchiveType(archive)
  /\ at \in Active \cup {"done", "failed", "killed", "published", "rejected"}
  /\ index \in 1..(Len(entries) + 1) /\ left \in Nat
  /\ pageRemaining \in 0..MaxPageBytes /\ totalRemaining \in 0..MaxTotalBytes
  /\ \A n \in DOMAIN files : files[n] \in Nat
  /\ foreign \subseteq {PageFile(1)}
  /\ refused \subseteq created
  /\ ToSet(candidates) \subseteq 1..Len(entries) /\ ToSet(pages) \subseteq ToSet(candidates)
  /\ err \in {"none", "input", "too_large", "unsupported", "corrupt", "entries", "encrypted",
              "unsafe", "page", "total", "image", "pixels", "collision", "fault",
              "result", "no_pages", "pages_too_large", "invalid_page"}

\* What a reader of the limits expects of an archive, entry by entry: the first
\* one that offends decides, and a file offends when it has more bytes than the
\* page limit or than what the files before it have left of the total.
FilesBefore(e, i) == {j \in 1..(i - 1) : e[j].kind = "file"}
Rest(e, i) == MaxTotalBytes - MapThenSumSet(LAMBDA j : e[j].size, FilesBefore(e, i))

ImageOffence(e) ==
  IF e.image = "bad" \/ (e.image = "page" /\ e.width * e.height = 0) THEN "image"
  ELSE IF e.image = "page" /\ e.width * e.height > MaxImagePixels THEN "pixels" ELSE "none"

Offence(e, i) ==
  IF i > MaxEntries THEN "entries"
  ELSE IF e[i].kind = "locked" THEN "encrypted"
  ELSE IF e[i].kind = "link" THEN "unsafe"
  ELSE IF e[i].kind = "dir" THEN "none"
  ELSE IF e[i].size > MaxPageBytes /\ MaxPageBytes <= Rest(e, i) THEN "page"
  ELSE IF e[i].size > Rest(e, i) THEN "total"
  ELSE ImageOffence(e[i])

EntriesVerdict(e) ==
  LET bad == {i \in 1..Len(e) : Offence(e, i) # "none"} IN
  IF bad = {} THEN "none" ELSE Offence(e, Min(bad))

\* What may be said of an archive; one with a bad directory may be bad in
\* several ways.
Verdicts(a) ==
  IF a.input # "regular" THEN {"input"}
  ELSE IF a.end.size > MaxArchiveBytes THEN {"too_large"}
  ELSE IF a.form = "unknown" THEN {"unsupported"}
  ELSE IF a.form = "zip" /\ ~WellFormedZIP(a.end, a.headers, MaxEntries)
  THEN {"corrupt", "unsupported"}
         \cup (IF a.end.count > MaxEntries \/ Cardinality(DOMAIN a.headers) > MaxEntries
               THEN {"entries"} ELSE {})
  ELSE {EntriesVerdict(a.entries)}

\* Without faults the extraction accepts exactly the archives with a directory
\* that is in order and entries within the limits, to the byte and the pixel,
\* and names the limit that was broken first.
VerdictRight ==
  at \in {"done", "failed"} /\ err \notin {"fault", "collision"} => err \in Verdicts(archive)

\* The library is never given a ZIP directory with more headers than the limit,
\* whatever the end record says of their number (README.md and the tests of
\* zip_preflight.go: memory does not depend on the advertised count).
DirectoryBounded ==
  archive.form = "zip" /\ at \in {"next", "copy", "inspect", "name", "done"} =>
    LibraryHeaders(archive.end, archive.headers) <= MaxEntries

Images(e) == {i \in 1..Len(e) : e[i].kind = "file" /\ e[i].image = "page"}

\* A finished extraction returns every image of the archive, complete, in
\* natural order, equal names in archive order.
PagesRight ==
  at = "done" =>
    /\ ToSet(pages) = Images(entries)
    /\ \A m, n \in 1..Len(pages) : m < n =>
         \/ Precedes(entries[pages[m]].name, entries[pages[n]].name)
         \/ entries[pages[m]].name = entries[pages[n]].name /\ pages[m] < pages[n]
    /\ \A n \in 1..Len(pages) : files[PageFile(n)] = entries[pages[n]].size

\* The files written never exceed the extraction limit, those that are only
\* inspected and those that could not be removed included.
OutputBounded == Bytes(DOMAIN files \ foreign) <= MaxTotalBytes

\* A failed extraction leaves no file of its own that could be removed.
FailedLeavesNothing == at = "failed" => DOMAIN files \ foreign \subseteq refused

\* Files that the extraction has not made are neither changed nor removed.
ForeignKept ==
  [][\A n \in foreign : n \in DOMAIN files' /\ files'[n] = files[n]]_vars

\* The list of the images is more than the parent reads.
ListTooLong(e) == 2 + MapThenSumSet(LAMBDA i : e[i].told, Images(e)) > MaxResultBytes

\* What becomes of an archive that the child has finished follows from the archive:
\* without faults it is published if it has an image and the list of its images
\* fits the result's bound, and is turned away for the one or the other if not.
\* The sizes that extractJob checks again and the files that commit looks at never
\* turn away what the limits of the child have let through.
OutcomeRight ==
  /\ at \in {"published", "rejected"} => "none" \in Verdicts(archive)
  /\ at = "published" => Images(entries) # {} /\ ~ListTooLong(entries)
  /\ at = "rejected" =>
       \/ err = "result" /\ ListTooLong(entries)
       \/ err = "no_pages" /\ Images(entries) = {}
       \/ err = "fault"

\* README.md: deletion failures keep their disk budget charged.  commit charges
\* the pages, so nothing else may be in the directory it renames.
PublishedCharged ==
  at = "published" =>
    Bytes(DOMAIN files \ foreign) =
      MapThenSumSet(LAMBDA i : entries[i].size, ToSet(pages))
=============================================================================
