-------------------------- MODULE ExtractionProofs --------------------------
(***************************************************************************)
(* Proofs about the files of Extraction, for any archives and limits: what *)
(* a failed extraction leaves behind, and what it never touches.           *)
(***************************************************************************)
EXTENDS Extraction, ArchiveProofs, TLAPS

\* Every file in the output directory is one of the two kinds, and every own one
\* is tracked before it exists, so that a failure finds it.
FilesTracked ==
  /\ foreign \subseteq DOMAIN files
  /\ DOMAIN files \subseteq foreign \cup created
  /\ created \cap foreign = {} /\ refused \subseteq created
  /\ at \in {"copy", "inspect"} => Temp(index) \in created

\* The names that are there beforehand are no temporary ones.
ForeignNamed == foreign \subseteq {PageFile(1)}

FInv == FilesTracked /\ ForeignNamed /\ FailedLeavesNothing

\* A step that does not touch the foreign files.
Spares == \A n \in foreign : n \in DOMAIN files' /\ files'[n] = files[n]

\* A temporary file has no page's name.
LEMMA TempIsNoPage == \A i, n : Temp(i) # PageFile(n)
  BY DEF Temp, PageFile

\* Nothing has been extracted.
LEMMA NothingExtracted == Init => FInv
  BY DEF Init, FInv, FilesTracked, ForeignNamed, FailedLeavesNothing

\* A failure removes what is tracked, but what it cannot remove.
LEMMA Failing ==
  ASSUME FInv, NEW why, Fail(why)
  PROVE  FInv' /\ Spares
<1>1. PICK kept \in SUBSET (DOMAIN files \cap created) :
        files' = Without(created \ kept) /\ refused' = refused \cup kept
  BY DEF Fail
<1>2. /\ DOMAIN files' = DOMAIN files \ (created \ kept)
      /\ \A n \in DOMAIN files' : files'[n] = files[n]
  BY <1>1 DEF Without
<1>3. foreign' = foreign /\ created' = created /\ at' = "failed"
  BY DEF Fail, given
<1>4. Spares
  BY <1>2 DEF FInv, FilesTracked, Spares
<1>5. FilesTracked'
  BY <1>1, <1>2, <1>3 DEF FInv, FilesTracked
<1>6. FailedLeavesNothing'
  BY <1>1, <1>2, <1>3 DEF FInv, FilesTracked, FailedLeavesNothing
<1> QED
  BY <1>3, <1>4, <1>5, <1>6 DEF FInv, ForeignNamed

\* A step that changes no file and does not fail.
LEMMA Idling ==
  ASSUME FInv, UNCHANGED <<foreign, files, created, refused>>, at' # "failed",
         at' \in {"copy", "inspect"} => at \in {"copy", "inspect"} /\ index' = index
  PROVE  FInv' /\ Spares
<1>1. Spares
  BY DEF FInv, FilesTracked, Spares
<1>2. FilesTracked'
  BY DEF FInv, FilesTracked, Temp
<1> QED
  BY <1>1, <1>2 DEF FInv, ForeignNamed, FailedLeavesNothing

\* The steps in which an extraction can do nothing but fail, or go on.
LEMMA Steering ==
  ASSUME FInv,
         \/ RefuseInput \/ Begin \/ RefuseEntry \/ SkipDirectory \/ ReadTooMuch \/ ReadEnd
         \/ KeepPage \/ RefuseImage \/ EndOfArchive \/ RefuseName \/ Finish
         \/ Fault \/ Kill \/ Accept \/ LoseResult
  PROVE  FInv' /\ Spares
<1>1. CASE \E why : Fail(why)
  BY <1>1, Failing
<1>2. CASE Begin /\ ~Fail(Preflight)
  <2>1. at' = "next" /\ UNCHANGED <<foreign, files, created, refused>>
    BY <1>2 DEF Begin, given
  <2> QED
    BY <2>1, Idling
<1>3. CASE SkipDirectory \/ ReadEnd \/ KeepPage \/ EndOfArchive \/ Finish \/ Kill \/ Accept
           \/ LoseResult
  <2>1. UNCHANGED <<foreign, files, created, refused>>
    BY <1>3 DEF SkipDirectory, ReadEnd, KeepPage, EndOfArchive, Finish, Kill, Accept, LoseResult,
                given
  <2>2. /\ at' \in {"next", "inspect", "name", "done", "killed", "published", "rejected"}
        /\ at' = "inspect" => at = "copy" /\ index' = index
    BY <1>3 DEF SkipDirectory, ReadEnd, KeepPage, EndOfArchive, Finish, Kill, Accept, LoseResult
  <2> QED
    BY <2>1, <2>2, Idling
<1> QED
  BY <1>1, <1>2, <1>3 DEF RefuseInput, RefuseEntry, ReadTooMuch, RefuseImage, RefuseName, Fault

\* A temporary file is made, and tracked.
LEMMA Opening ==
  ASSUME FInv, OpenEntry
  PROVE  FInv' /\ Spares
<1>1. /\ DOMAIN files' = DOMAIN files \cup {Temp(index)}
      /\ \A n \in DOMAIN files : n # Temp(index) => files'[n] = files[n]
      /\ created' = created \cup {Temp(index)} /\ refused' = refused /\ foreign' = foreign
      /\ at' = "copy" /\ index' = index
  BY DEF OpenEntry, given
<1>2. Temp(index) \notin foreign
  BY TempIsNoPage DEF FInv, ForeignNamed
<1>3. Spares
  BY <1>1, <1>2 DEF FInv, FilesTracked, Spares
<1>4. FilesTracked'
  BY <1>1, <1>2 DEF FInv, FilesTracked
<1> QED
  BY <1>1, <1>3, <1>4 DEF FInv, ForeignNamed, FailedLeavesNothing

\* It grows.
LEMMA Reading ==
  ASSUME FInv, ReadChunk
  PROVE  FInv' /\ Spares
<1>1. PICK n : files' = [files EXCEPT ![Temp(index)] = @ + n]
  BY DEF ReadChunk
<1>2. /\ DOMAIN files' = DOMAIN files
      /\ \A m \in DOMAIN files : m # Temp(index) => files'[m] = files[m]
      /\ UNCHANGED <<foreign, created, refused, index, at>> /\ at = "copy"
  BY <1>1 DEF ReadChunk, given
<1>3. Temp(index) \notin foreign
  BY <1>2 DEF FInv, FilesTracked
<1>4. Spares
  BY <1>2, <1>3 DEF FInv, FilesTracked, Spares
<1>5. FilesTracked'
  BY <1>2 DEF FInv, FilesTracked
<1> QED
  BY <1>2, <1>4, <1>5 DEF FInv, ForeignNamed, FailedLeavesNothing

\* It is no image, and goes if it can be removed.
LEMMA Dropping ==
  ASSUME FInv, DropOther
  PROVE  FInv' /\ Spares
<1>1. /\ \/ files' = files /\ refused' = refused \cup {Temp(index)}
         \/ files' = Without({Temp(index)}) /\ refused' = refused
      /\ UNCHANGED <<foreign, created>> /\ at = "inspect" /\ at' = "next"
  BY DEF DropOther, given
<1>2. Temp(index) \in created
  BY <1>1 DEF FInv, FilesTracked
<1>3. Spares
  BY <1>1, <1>2 DEF FInv, FilesTracked, Spares, Without
<1>4. FilesTracked'
  BY <1>1, <1>2 DEF FInv, FilesTracked, Without
<1> QED
  BY <1>1, <1>3, <1>4 DEF FInv, ForeignNamed, FailedLeavesNothing

\* It becomes a page, under a name that nothing has.
LEMMA Naming ==
  ASSUME FInv, NamePage
  PROVE  FInv' /\ Spares
<1> DEFINE temp == Temp(candidates[NextPage])
           page == PageFile(NextPage)
<1>1. /\ DOMAIN files' = (DOMAIN files \ {temp}) \cup {page}
      /\ \A n \in DOMAIN files' : n # page => files'[n] = files[n]
      /\ created' = created \cup {page} /\ UNCHANGED <<foreign, refused, at>> /\ at = "name"
  BY DEF NamePage, given
<1>2. page \notin DOMAIN files
  BY DEF NamePage, Collide
<1>3. temp \notin foreign
  BY TempIsNoPage DEF FInv, ForeignNamed
<1> HIDE DEF temp, page
<1>4. Spares
  BY <1>1, <1>2, <1>3 DEF FInv, FilesTracked, Spares
<1>5. FilesTracked'
  BY <1>1, <1>2, <1>3 DEF FInv, FilesTracked
<1> QED
  BY <1>1, <1>4, <1>5 DEF FInv, ForeignNamed, FailedLeavesNothing

\* Every step keeps the invariant and spares the foreign files.
LEMMA FilesKept ==
  ASSUME FInv, [Next]_vars
  PROVE  FInv' /\ (Spares \/ UNCHANGED vars)
<1>1. CASE UNCHANGED vars
  <2>1. UNCHANGED <<foreign, files, created, refused, at, index>>
    BY <1>1 DEF vars
  <2> QED
    BY <1>1, <2>1 DEF FInv, FilesTracked, ForeignNamed, FailedLeavesNothing
<1>2. CASE Next
  BY <1>2, Steering, Opening, Reading, Dropping, Naming DEF Next
<1> QED
  BY <1>1, <1>2

\* The inductive invariant about the files.
THEOREM FilesInductive == Spec => []FInv
<1>1. FInv /\ [Next]_vars => FInv'
  BY FilesKept
<1> QED
  BY <1>1, NothingExtracted, PTL DEF Spec

\* A failed extraction leaves no file of its own that could be removed, for any
\* archive, any limits and any step at which it fails.
THEOREM NothingIsLeft == Spec => []FailedLeavesNothing
<1>1. FInv => FailedLeavesNothing
  BY DEF FInv
<1> QED
  BY <1>1, FilesInductive, PTL

\* Files that were in the output directory before are neither changed nor removed.
THEOREM ForeignIsKept == Spec => ForeignKept
<1>1. FInv /\ [Next]_vars => [\A n \in foreign : n \in DOMAIN files' /\ files'[n] = files[n]]_vars
  BY FilesKept DEF Spares
<1> QED
  BY <1>1, FilesInductive, PTL DEF Spec, ForeignKept
-----------------------------------------------------------------------------
(* The limits, the verdict and the pages.                                  *)

\* The extraction is past the checks of its input, and has not failed.
Running == {"next", "copy", "inspect", "name", "done"}

\* What is not refused before an entry is looked at.
Admitted(a) ==
  /\ a.input = "regular" /\ a.end.size <= MaxArchiveBytes /\ a.form # "unknown"
  /\ a.form = "zip" => PreflightZIP(a.end, a.headers, MaxEntries) = "ok"

\* No entry before i offends.
CleanBefore(e, i) == \A j \in 1..(i - 1) : Offence(e, j) = "none"

PagesBefore(e, i) == {j \in 1..(i - 1) : e[j].kind = "file" /\ e[j].image = "page"}

\* What the sort is meant to achieve.
Earlier(e, i, j) ==
  \/ Precedes(e[i].name, e[j].name)
  \/ e[i].name = e[j].name /\ i < j

Passed == at \in Running => Admitted(archive) /\ CleanBefore(archive.entries, index)

Position ==
  /\ at = "start" => index = 1 /\ candidates = <<>> /\ totalRemaining = MaxTotalBytes
  /\ at \in {"copy", "inspect"} =>
       index <= Len(archive.entries) /\ index <= MaxEntries /\ archive.entries[index].kind = "file"
  /\ at = "inspect" => left = 0
  /\ at \in {"name", "done"} => index = Len(archive.entries) + 1
  /\ at \notin {"failed", "rejected"} => err = "none"

\* The limits have been charged for the files before this one, and for what has
\* been read of it.
Budget ==
  /\ at \in {"next", "name", "done"} => totalRemaining = Rest(archive.entries, index)
  /\ at \in {"copy", "inspect"} =>
       LET read == archive.entries[index].size - left IN
       /\ read >= 0 /\ pageRemaining = MaxPageBytes - read
       /\ totalRemaining = Rest(archive.entries, index) - read

Blamed == at = "failed" => err \in Verdicts(archive) \cup {"fault", "collision"}

\* What is left of the limit and what has been written come to no more than it.
Charged ==
  IsFiniteSet(DOMAIN files) /\ Sum(files, DOMAIN files \ foreign) + totalRemaining <= MaxTotalBytes

\* Each page met so far is a candidate, once.
Listed ==
  /\ candidates \in Seq(Nat) /\ pages \in Seq(Nat)
  /\ \A m, n \in 1..Len(candidates) : candidates[m] = candidates[n] => m = n
  /\ Len(pages) <= Len(candidates) /\ \A n \in 1..Len(pages) : pages[n] = candidates[n]
  /\ at \in {"start", "next", "copy", "inspect"} => pages = <<>>
  /\ at \in Running => ToSet(candidates) = PagesBefore(archive.entries, index)
  /\ at \in {"name", "done"} =>
       \A m, n \in 1..Len(candidates) :
         m < n => Earlier(archive.entries, candidates[m], candidates[n])
  /\ at = "done" => Len(pages) = Len(candidates)

\* Each candidate's bytes are in its temporary file until they are in its page's.
Stored ==
  at \in Running =>
    /\ \A n \in 1..Len(pages) :
         PageFile(n) \in DOMAIN files /\ files[PageFile(n)] = archive.entries[candidates[n]].size
    /\ \A n \in 1..Len(candidates) : n > Len(pages) =>
         /\ Temp(candidates[n]) \in DOMAIN files
         /\ files[Temp(candidates[n])] = archive.entries[candidates[n]].size
    /\ at \in {"copy", "inspect"} =>
         /\ Temp(index) \in DOMAIN files
         /\ files[Temp(index)] = archive.entries[index].size - left

IInv ==
  /\ archive \in Archives /\ TypeOK /\ FInv
  /\ Passed /\ Position /\ Budget /\ Blamed /\ Charged /\ Listed /\ Stored

-----------------------------------------------------------------------------
(* What is known of the archives, and of what is said of them.             *)

LEMMA EntryKnown ==
  ASSUME NEW x \in Entry
  PROVE  /\ x.kind \in {"dir", "link", "locked", "file"} /\ x.image \in {"page", "other", "bad"}
         /\ x.size \in Nat /\ x.width \in Nat /\ x.height \in Nat /\ x.name \in Text
  BY DEF Entry, Text

LEMMA ArchiveKnown ==
  ASSUME NEW a \in Archives
  PROVE  /\ a.input \in {"regular", "irregular"} /\ a.form \in {"zip", "rar", "unknown"}
         /\ a.end \in EndRecord /\ HeadersKnown(a.headers)
         /\ a.end.tail # NoEnd => EndOffset(a.end) \notin DOMAIN a.headers
         /\ a.entries \in Seq(Entry) /\ Len(a.entries) \in Nat
         /\ \A i \in 1..Len(a.entries) : a.entries[i] \in Entry
<1>1. /\ ArchiveType(a) /\ IsFiniteSet(DOMAIN a.headers)
      /\ a.end.tail # NoEnd => EndOffset(a.end) \notin DOMAIN a.headers
  BY ArchivesAssumption
<1>2. /\ a.input \in {"regular", "irregular"} /\ a.form \in {"zip", "rar", "unknown"}
      /\ a.end \in EndRecord /\ HeadersKnown(a.headers) /\ a.entries \in Seq(Entry)
  BY <1>1 DEF ArchiveType, HeadersKnown
<1>3. Len(a.entries) \in Nat /\ \A i \in 1..Len(a.entries) : a.entries[i] \in Entry
  BY <1>2, LenProperties, ElementOfSeq
<1> QED
  BY <1>1, <1>2, <1>3

\* The product of the sides is compared without being computed.
LEMMA PixelsAreCounted ==
  ASSUME NEW x \in Entry, x.height > 0
  PROVE  TooManyPixels(x) <=> x.width * x.height > MaxImagePixels
<1> DEFINE w == x.width
           h == x.height
           q == MaxImagePixels \div h
<1>1. w \in Nat /\ h \in Nat /\ h > 0 /\ MaxImagePixels \in Nat
  BY EntryKnown, ExtractionLimits
<1>2. q \in Nat /\ q * h <= MaxImagePixels /\ MaxImagePixels < (q + 1) * h
  BY <1>1
<1>3. TooManyPixels(x) <=> w > q
  BY DEF TooManyPixels
<1> HIDE DEF q, w, h
<1>4. CASE w > q
  <2>1. w >= q + 1
    BY <1>1, <1>2, <1>4
  <2>2. w * h >= (q + 1) * h
    BY <1>1, <1>2, <2>1
  <2>3. w * h \in Nat /\ (q + 1) * h \in Nat
    BY <1>1, <1>2
  <2>4. w * h > MaxImagePixels
    BY <1>1, <1>2, <2>2, <2>3
  <2> QED
    BY <1>3, <1>4, <2>4 DEF w, h
<1>5. CASE ~(w > q)
  <2>1. w <= q
    BY <1>1, <1>2, <1>5
  <2>2. w * h <= q * h
    BY <1>1, <1>2, <2>1
  <2>3. w * h \in Nat /\ q * h \in Nat
    BY <1>1, <1>2
  <2>4. ~(w * h > MaxImagePixels)
    BY <1>1, <1>2, <2>2, <2>3
  <2> QED
    BY <1>3, <1>5, <2>4 DEF w, h
<1> QED
  BY <1>4, <1>5

\* The files before an entry, one entry on.
LEMMA FilesOn ==
  ASSUME NEW e \in Seq(Entry), NEW i \in 1..Len(e)
  PROVE  /\ IsFiniteSet(FilesBefore(e, i)) /\ FilesBefore(e, i) \in SUBSET (1..Len(e))
         /\ i \notin FilesBefore(e, i)
         /\ FilesBefore(e, i + 1) = IF e[i].kind = "file" THEN FilesBefore(e, i) \cup {i}
                                    ELSE FilesBefore(e, i)
<1>1. Len(e) \in Nat /\ i \in Nat /\ 1 <= i /\ i <= Len(e)
  BY LenProperties
<1>2. IsFiniteSet(1..Len(e))
  BY <1>1, FS_Interval
<1>3. FilesBefore(e, i) \in SUBSET (1..Len(e)) /\ i \notin FilesBefore(e, i)
  BY <1>1 DEF FilesBefore
<1>4. 1..(i + 1 - 1) = (1..(i - 1)) \cup {i}
  BY <1>1
<1>5. FilesBefore(e, i + 1) = {j \in (1..(i - 1)) \cup {i} : e[j].kind = "file"}
  BY <1>4 DEF FilesBefore
<1> QED
  BY <1>2, <1>3, <1>5, FS_Subset DEF FilesBefore

\* What is left of the total, one entry on.
LEMMA RestOn ==
  ASSUME NEW e \in Seq(Entry), NEW i \in 1..Len(e)
  PROVE  Rest(e, i) \in Int
         /\ Rest(e, i + 1) = IF e[i].kind = "file" THEN Rest(e, i) - e[i].size ELSE Rest(e, i)
<1> DEFINE F == FilesBefore(e, i)
           f == [j \in F |-> e[j].size]
           G == FilesBefore(e, i + 1)
           g == [j \in G |-> e[j].size]
<1>1. IsFiniteSet(F) /\ F \in SUBSET (1..Len(e)) /\ i \notin F
  BY FilesOn
<1>2. \A j \in 1..Len(e) : e[j].size \in Nat
  BY ElementOfSeq, EntryKnown
<1>3. MaxTotalBytes \in Nat
  BY ExtractionLimits
<1>4. Rest(e, i) = MaxTotalBytes - Sum(f, F)
  BY SumOfField DEF Rest
<1>5. \A j \in F : f[j] \in Nat
  BY <1>1, <1>2
<1> HIDE DEF f
<1>6. Sum(f, F) \in Nat
  BY <1>1, <1>5, SumNat
<1>7. e[i].size \in Nat
  BY <1>2
<1>8. CASE e[i].kind # "file"
  <2>1. FilesBefore(e, i + 1) = F
    BY <1>8, FilesOn
  <2>2. Rest(e, i + 1) = Rest(e, i)
    BY <2>1 DEF Rest
  <2> QED
    BY <1>3, <1>4, <1>6, <1>8, <2>2
<1>9. CASE e[i].kind = "file"
  <2>1. G = F \cup {i} /\ i \in G /\ G \ {i} = F /\ IsFiniteSet(G) /\ G \in SUBSET (1..Len(e))
    <3>1. G = F \cup {i}
      BY <1>9, FilesOn
    <3> HIDE DEF F, G
    <3>2. IsFiniteSet(F \cup {i})
      BY <1>1, FS_AddElement
    <3> QED
      BY <1>1, <3>1, <3>2
  <2>2. Rest(e, i + 1) = MaxTotalBytes - Sum(g, G)
    BY SumOfField DEF Rest
  <2>3. g[i] = e[i].size /\ \A j \in G : g[j] \in Nat
    BY <1>2, <2>1
  <2>4. \A j \in F : f[j] \in Nat /\ g[j] = f[j]
    BY <1>5, <2>1 DEF f
  <2> HIDE DEF g, G
  <2>5. Sum(g, G) = g[i] + Sum(g, F)
    BY <2>1, <2>3, SumRemove
  <2>6. Sum(f, F) = Sum(g, F)
    BY <1>1, <2>4, SumAgree
  <2>7. Sum(g, G) = e[i].size + Sum(f, F)
    BY <2>3, <2>5, <2>6
  <2>8. Rest(e, i + 1) = Rest(e, i) - e[i].size
    BY <1>3, <1>4, <1>6, <1>7, <2>2, <2>7
  <2> QED
    BY <1>3, <1>4, <1>6, <1>9, <2>8
<1> QED
  BY <1>8, <1>9

LEMMA RestAtFirst ==
  ASSUME NEW e
  PROVE  Rest(e, 1) = MaxTotalBytes
<1> DEFINE F == FilesBefore(e, 1)
           f == [j \in F |-> e[j].size]
<1>1. Rest(e, 1) = MaxTotalBytes - Sum(f, F)
  BY SumOfField DEF Rest
<1>2. F = {}
  BY DEF FilesBefore
<1> HIDE DEF f
<1>3. Sum(f, F) = 0
  BY <1>2, SumEmpty
<1> QED
  BY <1>1, <1>3, ExtractionLimits
\* The first entry that offends decides.
LEMMA FirstOffends ==
  ASSUME NEW e \in Seq(Entry), NEW i \in 1..Len(e), CleanBefore(e, i), Offence(e, i) # "none"
  PROVE  EntriesVerdict(e) = Offence(e, i)
<1> DEFINE bad == {j \in 1..Len(e) : Offence(e, j) # "none"}
<1>1. Len(e) \in Nat /\ i \in Nat
  BY LenProperties
<1>2. bad \in SUBSET Nat /\ i \in bad
  BY <1>1
<1>3. Min(bad) \in bad /\ \A j \in bad : Min(bad) <= j
  BY <1>2, MinNat
<1>4. Min(bad) = i
  <2>1. Min(bad) <= i /\ Min(bad) \in Nat /\ Offence(e, Min(bad)) # "none" /\ 1 <= Min(bad)
    BY <1>1, <1>2, <1>3
  <2> HIDE DEF bad
  <2>2. ~(Min(bad) \in 1..(i - 1))
    BY <2>1 DEF CleanBefore
  <2> QED
    BY <1>1, <2>1, <2>2
<1>5. EntriesVerdict(e) = IF bad = {} THEN "none" ELSE Offence(e, Min(bad))
  BY DEF EntriesVerdict
<1> HIDE DEF bad
<1> QED
  BY <1>2, <1>4, <1>5

LEMMA NoneOffends ==
  ASSUME NEW e \in Seq(Entry), CleanBefore(e, Len(e) + 1)
  PROVE  EntriesVerdict(e) = "none"
<1>1. Len(e) \in Nat
  BY LenProperties
<1>2. \A j \in 1..Len(e) : Offence(e, j) = "none"
  BY <1>1 DEF CleanBefore
<1> QED
  BY <1>2 DEF EntriesVerdict

LEMMA CleanOn ==
  ASSUME NEW e, NEW i \in Nat, CleanBefore(e, i), Offence(e, i) = "none"
  PROVE  CleanBefore(e, i + 1)
<1>1. \A j \in 1..(i + 1 - 1) : j \in 1..(i - 1) \/ j = i
  OBVIOUS
<1> QED
  BY <1>1 DEF CleanBefore

\* Of an archive that is admitted only the entries can be blamed.
LEMMA OnlyEntries ==
  ASSUME NEW a \in Archives, Admitted(a)
  PROVE  Verdicts(a) = {EntriesVerdict(a.entries)}
<1>1. a.form = "zip" => WellFormedZIP(a.end, a.headers, MaxEntries)
  BY ArchiveKnown, ExtractionLimits, PreflightIsRight DEF Admitted
<1>2. a.end.size \in Nat /\ MaxArchiveBytes \in Nat
  BY ArchiveKnown, ExtractionLimits DEF EndRecord
<1> QED
  BY <1>1, <1>2 DEF Admitted, Verdicts

\* What a scan that fails says is true.
LEMMA ScanIsRight ==
  ASSUME NEW a \in Archives, a.input = "regular", a.end.size <= MaxArchiveBytes, a.form = "zip",
         PreflightZIP(a.end, a.headers, MaxEntries) # "ok"
  PROVE  PreflightZIP(a.end, a.headers, MaxEntries) \in Verdicts(a)
<1> DEFINE said == PreflightZIP(a.end, a.headers, MaxEntries)
<1>1. /\ said \in {"ok", "corrupt", "unsupported", "entries"}
      /\ said = "ok" <=> WellFormedZIP(a.end, a.headers, MaxEntries)
      /\ said = "entries" => a.end.count > MaxEntries \/ Cardinality(DOMAIN a.headers) > MaxEntries
  BY ArchiveKnown, ExtractionLimits, PreflightIsRight
<1>2. a.end.size \in Nat /\ MaxArchiveBytes \in Nat
  BY ArchiveKnown, ExtractionLimits DEF EndRecord
<1> HIDE DEF said
<1>3. Verdicts(a) = {"corrupt", "unsupported"}
         \cup (IF a.end.count > MaxEntries \/ Cardinality(DOMAIN a.headers) > MaxEntries
               THEN {"entries"} ELSE {})
  BY <1>1, <1>2 DEF Verdicts, said
<1>4. said \in Verdicts(a)
  BY <1>1, <1>3 DEF said
<1> QED
  BY <1>4 DEF said

-----------------------------------------------------------------------------
(* The sort.                                                               *)

\* The order of the sort is the one that is meant.
LEMMA BeforeIsEarlier ==
  ASSUME archive \in Archives, NEW i \in 1..Len(archive.entries), NEW j \in 1..Len(archive.entries)
  PROVE  Before(i, j) <=> Earlier(archive.entries, i, j)
<1> DEFINE a == archive.entries[i].name
           b == archive.entries[j].name
           c == NaturalCompare(a, b)
<1>1. a \in Text /\ b \in Text
  BY ArchiveKnown, EntryKnown
<1>2. c \in {-1, 0, 1} /\ (c = -1 <=> Precedes(a, b)) /\ (c = 0 <=> a = b)
  BY <1>1, OrderIsMeant
<1>3. Before(i, j) <=> c < 0 \/ (c = 0 /\ i < j)
  BY DEF Before, entries
<1>4. Earlier(archive.entries, i, j) <=> Precedes(a, b) \/ (a = b /\ i < j)
  BY DEF Earlier
<1> HIDE DEF a, b, c
<1>5. c < 0 <=> c = -1
  BY <1>2
<1> QED
  BY <1>2, <1>3, <1>4, <1>5

\* It is one that entries can be sorted by.
LEMMA EarlierIsStrict ==
  ASSUME NEW a \in Archives, NEW S \in SUBSET (1..Len(a.entries)),
         NEW R, R = {u \in S \X S : Earlier(a.entries, u[1], u[2])}
  PROVE  StrictOrder(R, S)
<1> DEFINE name(i) == a.entries[i].name
<1>1. \A i \in S : name(i) \in Text /\ i \in Nat
  BY ArchiveKnown, EntryKnown
<1>2. \A i, j \in S : <<i, j>> \in R <=> Precedes(name(i), name(j)) \/ (name(i) = name(j) /\ i < j)
  BY DEF Earlier
<1> HIDE DEF name
<1>3. \A i, j \in S : /\ ~(Precedes(name(i), name(j)) /\ name(i) = name(j))
                      /\ name(i) = name(j) \/ Precedes(name(i), name(j)) \/ Precedes(name(j), name(i))
  <2> TAKE i \in S, j \in S
  <2>1. name(i) \in Text /\ name(j) \in Text
    BY <1>1
  <2> DEFINE c == NaturalCompare(name(i), name(j))
  <2>2. /\ c \in {-1, 0, 1} /\ (c = -1 <=> Precedes(name(i), name(j)))
        /\ (c = 1 <=> Precedes(name(j), name(i))) /\ (c = 0 <=> name(i) = name(j))
    BY <2>1, OrderIsMeant
  <2> HIDE DEF c
  <2> QED
    BY <2>2
<1>4. \A i, j, k \in S : Precedes(name(i), name(j)) /\ Precedes(name(j), name(k))
                           => Precedes(name(i), name(k))
  BY <1>1, OrderIsTransitive
<1>5. \A i \in S : <<i, i>> \notin R
  BY <1>1, <1>2, <1>3
<1>6. ASSUME NEW i \in S, NEW j \in S, i # j
      PROVE  <<i, j>> \in R \/ <<j, i>> \in R
  <2>1. i < j \/ j < i
    BY <1>1, <1>6
  <2> QED
    BY <1>2, <1>3, <2>1
<1>7. ASSUME NEW i \in S, NEW j \in S, NEW k \in S, <<i, j>> \in R, <<j, k>> \in R
      PROVE  <<i, k>> \in R
  <2>1. /\ Precedes(name(i), name(j)) \/ (name(i) = name(j) /\ i < j)
        /\ Precedes(name(j), name(k)) \/ (name(j) = name(k) /\ j < k)
    BY <1>2, <1>7
  <2>2. CASE name(i) = name(j) /\ i < j /\ name(j) = name(k) /\ j < k
    BY <1>1, <1>2, <2>2
  <2>3. CASE Precedes(name(i), name(j)) /\ Precedes(name(j), name(k))
    BY <1>2, <1>4, <2>3
  <2>4. CASE Precedes(name(i), name(j)) /\ name(j) = name(k)
    BY <1>2, <2>4
  <2>5. CASE name(i) = name(j) /\ Precedes(name(j), name(k))
    BY <1>2, <2>5
  <2> QED
    BY <2>1, <2>2, <2>3, <2>4, <2>5
<1> QED
  BY <1>5, <1>6, <1>7 DEF StrictOrder

\* The sort returns the same entries, each once, in order.
LEMMA SortedIsRight ==
  ASSUME archive \in Archives, candidates \in Seq(Nat),
         ToSet(candidates) \in SUBSET (1..Len(archive.entries)),
         \A m, n \in 1..Len(candidates) : candidates[m] = candidates[n] => m = n,
         NEW s, s = Sorted(candidates)
  PROVE  /\ s \in Seq(Nat) /\ Len(s) = Len(candidates) /\ ToSet(s) = ToSet(candidates)
         /\ \A m, n \in 1..Len(s) : m < n => Earlier(archive.entries, s[m], s[n])
         /\ \A m, n \in 1..Len(s) : s[m] = s[n] => m = n
<1> DEFINE S == ToSet(candidates)
           N == Len(candidates)
           R == {u \in S \X S : Earlier(archive.entries, u[1], u[2])}
           Right(t) == ToSet(t) = S /\ \A m, n \in DOMAIN t : m < n => Before(t[m], t[n])
<1>1. N \in Nat /\ DOMAIN candidates = 1..N /\ candidates \in [1..N -> S]
  BY LenProperties DEF ToSet
<1>2. IsFiniteSet(S) /\ Cardinality(S) = N
  BY <1>1, ListIsAsLong
<1>3. StrictOrder(R, S)
  BY EarlierIsStrict
<1>4. \A i, j \in S : <<i, j>> \in R => Before(i, j)
  BY BeforeIsEarlier
<1> HIDE DEF S, R, N
<1>5. PICK t \in [1..N -> S] : ToSet(t) = S /\ \A i, j \in DOMAIN t : i < j => <<t[i], t[j]>> \in R
  BY <1>2, <1>3, CanBeSorted
<1>6. Right(t)
  <2>1. \A i \in DOMAIN t : t[i] \in S
    BY <1>5
  <2> QED
    BY <1>4, <1>5, <2>1
<1>7. s = CHOOSE x \in [1..N -> S] : Right(x)
  BY <1>1 DEF Sorted, S
<1> HIDE DEF Right
<1>8. s \in [1..N -> S] /\ Right(s)
  BY <1>5, <1>6, <1>7
<1>9. s \in Seq(Nat) /\ Len(s) = N /\ DOMAIN s = 1..N
  <2>1. S \in SUBSET Nat
    BY ArchiveKnown DEF S
  <2>2. s \in [1..N -> Nat]
    BY <1>8, <2>1
  <2>3. s \in Seq(Nat)
    BY <1>1, <2>2, SeqDef
  <2> QED
    BY <1>1, <2>2, <2>3, LenProperties
<1>10. ASSUME NEW m \in 1..N, NEW n \in 1..N, m < n
       PROVE  Earlier(archive.entries, s[m], s[n]) /\ s[m] # s[n]
  <2>1. Before(s[m], s[n]) /\ s[m] \in S /\ s[n] \in S
    BY <1>8, <1>9, <1>10 DEF Right
  <2>2. Earlier(archive.entries, s[m], s[n])
    BY <2>1, BeforeIsEarlier DEF S
  <2>3. <<s[m], s[n]>> \in R
    BY <2>1, <2>2 DEF R
  <2> QED
    BY <1>3, <2>1, <2>2, <2>3 DEF StrictOrder
<1>11. \A m, n \in 1..N : s[m] = s[n] => m = n
  <2> SUFFICES ASSUME NEW m \in 1..N, NEW n \in 1..N, s[m] = s[n], m # n PROVE FALSE
    OBVIOUS
  <2>1. m < n \/ n < m
    BY <1>1
  <2> QED
    BY <1>10, <2>1
<1> QED
  BY <1>8, <1>9, <1>10, <1>11 DEF Right, S, N

-----------------------------------------------------------------------------
(* What the files come to.                                                 *)

\* Some files less.
LEMMA FewerBytes ==
  ASSUME NEW f, NEW g, IsFiniteSet(DOMAIN f), \A n \in DOMAIN f : f[n] \in Nat,
         DOMAIN g \in SUBSET DOMAIN f, \A n \in DOMAIN g : g[n] = f[n], NEW F
  PROVE  /\ IsFiniteSet(DOMAIN g) /\ Sum(g, DOMAIN g \ F) <= Sum(f, DOMAIN f \ F)
         /\ Sum(g, DOMAIN g \ F) \in Nat /\ Sum(f, DOMAIN f \ F) \in Nat
<1> DEFINE S == DOMAIN f \ F
           T == DOMAIN g \ F
<1>1. /\ IsFiniteSet(S) /\ T \in SUBSET S /\ IsFiniteSet(T) /\ IsFiniteSet(DOMAIN g)
      /\ \A n \in S : f[n] \in Nat
  <2>1. S \in SUBSET DOMAIN f /\ T \in SUBSET DOMAIN f /\ T \in SUBSET S
    OBVIOUS
  <2> QED
    BY <2>1, FS_Subset
<1>2. \A n \in T : f[n] \in Nat /\ g[n] = f[n] /\ g[n] \in Nat
  OBVIOUS
<1> HIDE DEF S, T
<1>3. Sum(f, T) = Sum(g, T)
  BY <1>1, <1>2, SumAgree
<1>4. Sum(f, T) <= Sum(f, S)
  BY <1>1, SumPart
<1>5. Sum(f, S) \in Nat /\ Sum(g, T) \in Nat
  BY <1>1, <1>2, SumNat
<1> QED
  BY <1>1, <1>3, <1>4, <1>5 DEF S, T

\* One file is begun.
LEMMA BytesBegun ==
  ASSUME NEW f, NEW g, NEW S, IsFiniteSet(S), \A n \in S : f[n] \in Nat,
         NEW x, NEW T, T = S \cup {x}, g[x] = 0, \A n \in S \ {x} : g[n] = f[n]
  PROVE  Sum(g, T) <= Sum(f, S) /\ Sum(g, T) \in Nat /\ Sum(f, S) \in Nat
<1>1. S \ {x} \in SUBSET S /\ IsFiniteSet(S \ {x}) /\ IsFiniteSet(T)
  BY FS_Subset, FS_AddElement
<1>2. \A n \in S \ {x} : f[n] \in Nat /\ g[n] = f[n]
  OBVIOUS
<1>3. Sum(f, S \ {x}) <= Sum(f, S)
  BY <1>1, SumPart
<1>4. T \ {x} = S \ {x} /\ x \in T /\ \A n \in T : g[n] \in Nat
  BY <1>2
<1>5. Sum(g, T) = g[x] + Sum(g, T \ {x})
  BY <1>1, <1>4, SumRemove
<1>6. Sum(f, S \ {x}) = Sum(g, S \ {x})
  BY <1>1, <1>2, SumAgree
<1>7. Sum(f, S) \in Nat /\ Sum(f, S \ {x}) \in Nat
  BY <1>1, <1>2, SumNat
<1> QED
  BY <1>3, <1>4, <1>5, <1>6, <1>7

\* One file takes the place of another, or its own.
LEMMA BytesReplaced ==
  ASSUME NEW f, NEW g, NEW S, IsFiniteSet(S), \A n \in S : f[n] \in Nat,
         NEW x \in S, NEW y, y \notin S \ {x}, g[y] \in Nat, NEW T, T = (S \ {x}) \cup {y},
         \A n \in S \ {x} : g[n] = f[n]
  PROVE  Sum(g, T) = Sum(f, S) - f[x] + g[y] /\ Sum(f, S) \in Nat
<1> DEFINE R == S \ {x}
<1>1. R \in SUBSET S /\ IsFiniteSet(R) /\ IsFiniteSet(T)
  BY FS_Subset, FS_AddElement
<1>2. \A n \in R : f[n] \in Nat /\ g[n] = f[n]
  OBVIOUS
<1>3. T \ {y} = R /\ y \in T /\ (\A n \in T : g[n] \in Nat) /\ f[x] \in Nat /\ S \ {x} = R
  BY <1>2
<1> HIDE DEF R
<1>4. Sum(g, T) = g[y] + Sum(g, T \ {y})
  BY <1>1, <1>3, SumRemove
<1>5. Sum(f, R) = Sum(g, R)
  BY <1>1, <1>2, SumAgree
<1>6. Sum(f, S) = f[x] + Sum(f, S \ {x})
  BY SumRemove
<1>7. Sum(f, R) \in Nat
  BY <1>1, <1>2, SumNat
<1>8. Sum(g, T) = g[y] + Sum(f, R) /\ Sum(f, S) = f[x] + Sum(f, R)
  BY <1>3, <1>4, <1>5, <1>6
<1>9. g[y] \in Nat /\ f[x] \in Nat
  BY <1>3
<1> QED
  BY <1>7, <1>8, <1>9

-----------------------------------------------------------------------------
(* The steps.                                                              *)

Reasons ==
  {"none", "input", "too_large", "unsupported", "corrupt", "entries", "encrypted",
   "unsafe", "page", "total", "image", "pixels", "collision", "fault",
   "result", "no_pages", "pages_too_large", "invalid_page"}

\* What the invariant says of the numbers.
LEMMA Known ==
  ASSUME IInv
  PROVE  /\ archive \in Archives /\ archive.entries \in Seq(Entry) /\ Len(archive.entries) \in Nat
         /\ index \in Nat /\ 1 <= index /\ index <= Len(archive.entries) + 1 /\ left \in Nat
         /\ pageRemaining \in Nat /\ pageRemaining <= MaxPageBytes
         /\ totalRemaining \in Nat /\ totalRemaining <= MaxTotalBytes
         /\ MaxEntries \in Nat /\ MaxPageBytes \in Nat /\ MaxTotalBytes \in Nat /\ err \in Reasons
         /\ \A n \in DOMAIN files : files[n] \in Nat
         /\ ToSet(candidates) \in SUBSET (1..Len(archive.entries))
         /\ IsFiniteSet(DOMAIN files \ foreign)
         /\ Sum(files, DOMAIN files \ foreign) \in Nat
<1>1. archive \in Archives /\ TypeOK /\ IsFiniteSet(DOMAIN files)
  BY DEF IInv, Charged
<1>2. archive.entries \in Seq(Entry) /\ Len(archive.entries) \in Nat
  BY <1>1, ArchiveKnown
<1>3. MaxEntries \in Nat /\ MaxPageBytes \in Nat /\ MaxTotalBytes \in Nat
  BY ExtractionLimits
<1>4. /\ index \in 1..(Len(archive.entries) + 1) /\ left \in Nat
      /\ pageRemaining \in 0..MaxPageBytes /\ totalRemaining \in 0..MaxTotalBytes
      /\ \A n \in DOMAIN files : files[n] \in Nat
      /\ ToSet(candidates) \in SUBSET (1..Len(archive.entries)) /\ err \in Reasons
  BY <1>1 DEF TypeOK, entries, Reasons
<1>5. /\ index \in Nat /\ 1 <= index /\ index <= Len(archive.entries) + 1
      /\ pageRemaining \in Nat /\ pageRemaining <= MaxPageBytes
      /\ totalRemaining \in Nat /\ totalRemaining <= MaxTotalBytes
  BY <1>2, <1>3, <1>4
<1>6. IsFiniteSet(DOMAIN files \ foreign)
  BY <1>1, FS_Subset
<1>7. Sum(files, DOMAIN files \ foreign) \in Nat
  BY <1>4, <1>6, SumNat
<1> QED
  BY <1>1, <1>2, <1>3, <1>4, <1>5, <1>6, <1>7

\* The limits alone.
LEMMA Counters ==
  ASSUME IInv
  PROVE  /\ left \in Nat /\ MaxPageBytes \in Nat /\ MaxTotalBytes \in Nat
         /\ pageRemaining \in Nat /\ pageRemaining <= MaxPageBytes
         /\ totalRemaining \in Nat /\ totalRemaining <= MaxTotalBytes
  BY Known

\* The type of the next state, from what a step may have changed.
LEMMA TypeKept ==
  ASSUME archive \in Archives, FInv', archive' = archive,
         at' \in Active \cup {"done", "failed", "killed", "published", "rejected"},
         index' \in Nat, 1 <= index', index' <= Len(archive.entries) + 1, left' \in Nat,
         pageRemaining' \in Nat, pageRemaining' <= MaxPageBytes,
         totalRemaining' \in Nat, totalRemaining' <= MaxTotalBytes,
         \A n \in DOMAIN files' : files'[n] \in Nat,
         ToSet(candidates') \in SUBSET (1..Len(archive.entries)), Listed', err' \in Reasons
  PROVE  TypeOK'
<1>1. ArchiveType(archive) /\ Len(archive.entries) \in Nat
  BY ArchivesAssumption, ArchiveKnown
<1>2. MaxPageBytes \in Nat /\ MaxTotalBytes \in Nat
  BY ExtractionLimits
<1>3. /\ index' \in 1..(Len(archive.entries) + 1)
      /\ pageRemaining' \in 0..MaxPageBytes /\ totalRemaining' \in 0..MaxTotalBytes
  BY <1>1, <1>2
<1>4. foreign' \subseteq {PageFile(1)} /\ refused' \subseteq created'
  BY DEF FInv, FilesTracked, ForeignNamed
<1>5. ToSet(pages') \subseteq ToSet(candidates')
  <2>1. /\ pages' \in Seq(Nat) /\ candidates' \in Seq(Nat) /\ Len(pages') <= Len(candidates')
        /\ \A n \in 1..Len(pages') : pages'[n] = candidates'[n]
    BY DEF Listed
  <2>2. /\ DOMAIN pages' = 1..Len(pages') /\ DOMAIN candidates' = 1..Len(candidates')
        /\ Len(pages') \in Nat /\ Len(candidates') \in Nat
    BY <2>1, LenProperties
  <2>3. DOMAIN pages' \subseteq DOMAIN candidates'
    BY <2>1, <2>2
  <2>4. \A n \in DOMAIN pages' : pages'[n] = candidates'[n]
    BY <2>1, <2>2
  <2> QED
    BY <2>3, <2>4 DEF ToSet
<1> QED
  BY <1>1, <1>3, <1>4, <1>5 DEF TypeOK, entries, Reasons

\* The steps that change no file, no list of pages and no limit, and after which
\* nothing more is extracted.
LEMMA Leaving ==
  ASSUME IInv, Kill \/ Accept \/ LoseResult
  PROVE  IInv'
<1>1. /\ at' \in {"killed", "published", "rejected"} /\ archive' = archive
      /\ at \notin {"failed", "rejected"}
      /\ UNCHANGED <<foreign, index, left, pageRemaining, totalRemaining, files, candidates, pages>>
  BY DEF Kill, Accept, LoseResult, given, limitVars, nameVars, Active
<1>7. err' \in Reasons /\ (at' # "rejected" => err' = "none")
  <2>1. err = "none"
    BY <1>1 DEF IInv, Position
  <2>2. CASE Kill
    BY <2>1, <2>2 DEF Kill, Reasons
  <2>3. CASE LoseResult
    BY <2>3 DEF LoseResult, Reasons
  <2>4. CASE Accept
    <3>1. Judgement \in {"result", "no_pages", "pages_too_large", "invalid_page", "none"}
      BY DEF Judgement
    <3> QED
      BY <2>4, <3>1 DEF Accept, Reasons
  <2> QED
    BY <2>2, <2>3, <2>4
<1>2. FInv'
  BY Steering DEF IInv
<1>3. Passed' /\ Position' /\ Budget' /\ Blamed' /\ Stored'
  BY <1>1, <1>7 DEF Passed, Position, Budget, Blamed, Stored, Running, IInv
<1>4. Charged'
  BY <1>1 DEF Charged, IInv
<1>5. Listed'
  BY <1>1 DEF Listed, Running, IInv
<1>6. TypeOK'
  BY <1>1, <1>2, <1>5, <1>7, Known, TypeKept
<1> QED
  BY <1>1, <1>2, <1>3, <1>4, <1>5, <1>6, Known DEF IInv

\* A failure, for a reason that may be given.
LEMMA Blaming ==
  ASSUME IInv, NEW why \in Reasons, why \in Verdicts(archive) \cup {"fault", "collision"}, Fail(why)
  PROVE  IInv'
<1>1. /\ at' = "failed" /\ err' = why /\ archive' = archive
      /\ UNCHANGED <<foreign, index, left, pageRemaining, totalRemaining, candidates, pages>>
  BY DEF Fail, given, limitVars, nameVars
<1>2. DOMAIN files' \in SUBSET DOMAIN files /\ \A n \in DOMAIN files' : files'[n] = files[n]
  BY DEF Fail, Without
<1>3. FInv'
  BY Failing DEF IInv
<1>4. Passed' /\ Position' /\ Budget' /\ Blamed' /\ Stored'
  BY <1>1 DEF Passed, Position, Budget, Blamed, Stored, Running
<1>5. Charged'
  <2>1. IsFiniteSet(DOMAIN files) /\ Sum(files, DOMAIN files \ foreign) + totalRemaining <= MaxTotalBytes
    BY DEF IInv, Charged
  <2>2. /\ IsFiniteSet(DOMAIN files')
        /\ Sum(files', DOMAIN files' \ foreign) <= Sum(files, DOMAIN files \ foreign)
        /\ Sum(files', DOMAIN files' \ foreign) \in Nat
    BY <1>2, <2>1, Known, FewerBytes
  <2>3. Sum(files', DOMAIN files' \ foreign) + totalRemaining <= MaxTotalBytes
    BY <2>1, <2>2, Known
  <2> QED
    BY <1>1, <2>2, <2>3 DEF Charged
<1>6. Listed'
  BY <1>1 DEF Listed, Running, IInv
<1>7. \A n \in DOMAIN files' : files'[n] \in Nat
  BY <1>2, Known
<1>8. TypeOK'
  BY <1>1, <1>3, <1>6, <1>7, Known, TypeKept
<1> QED
  BY <1>1, <1>3, <1>4, <1>5, <1>6, <1>8, Known DEF IInv

\* The reasons for which the input is refused.
LEMMA Refusing ==
  ASSUME IInv, RefuseInput
  PROVE  IInv'
<1>1. archive \in Archives
  BY DEF IInv
<1>2. PICK why \in Reasons : Fail(why) /\ why \in Verdicts(archive)
  <2>1. archive.end.size \in Nat /\ MaxArchiveBytes \in Nat
    BY <1>1, ArchiveKnown, ExtractionLimits DEF EndRecord
  <2>2. CASE archive.input # "regular" /\ Fail("input")
    BY <2>2 DEF Verdicts, Reasons
  <2>3. CASE archive.input = "regular" /\ archive.end.size > MaxArchiveBytes /\ Fail("too_large")
    BY <2>3 DEF Verdicts, Reasons
  <2>4. CASE /\ archive.input = "regular" /\ archive.end.size <= MaxArchiveBytes
             /\ archive.form = "unknown" /\ Fail("unsupported")
    <3>1. ~(archive.end.size > MaxArchiveBytes)
      BY <2>1, <2>4
    <3> QED
      BY <2>4, <3>1 DEF Verdicts, Reasons
  <2> QED
    BY <2>2, <2>3, <2>4 DEF RefuseInput
<1> QED
  BY <1>2, Blaming

\* The scan is passed, or says what it found.
LEMMA Beginning ==
  ASSUME IInv, Begin
  PROVE  IInv'
<1>1. /\ at = "start" /\ archive.input = "regular" /\ archive.end.size <= MaxArchiveBytes
      /\ archive.form # "unknown" /\ archive \in Archives
      /\ Preflight = IF archive.form = "zip"
                     THEN PreflightZIP(archive.end, archive.headers, MaxEntries) ELSE "ok"
  BY DEF Begin, IInv, Preflight
<1>2. CASE Preflight # "ok"
  <2>1. /\ Fail(Preflight) /\ archive.form = "zip"
        /\ Preflight = PreflightZIP(archive.end, archive.headers, MaxEntries)
    BY <1>1, <1>2 DEF Begin
  <2>2. Preflight \in Verdicts(archive)
    BY <1>1, <1>2, <2>1, ScanIsRight
  <2>3. Preflight \in Reasons
    <3>1. archive.end \in EndRecord /\ HeadersKnown(archive.headers) /\ MaxEntries \in Nat
      BY <1>1, ArchiveKnown, ExtractionLimits
    <3>2. Preflight \in {"ok", "corrupt", "unsupported", "entries"}
      BY <2>1, <3>1, PreflightIsRight
    <3> QED
      BY <1>2, <3>2 DEF Reasons
  <2> QED
    BY <2>1, <2>2, <2>3, Blaming
<1>3. CASE Preflight = "ok"
  <2>1. /\ at' = "next" /\ archive' = archive
        /\ UNCHANGED <<foreign, index, left, pageRemaining, totalRemaining, files, candidates, pages, err>>
    BY <1>3 DEF Begin, given, limitVars, nameVars
  <2>2. FInv'
    BY Steering DEF IInv
  <2>3. /\ index = 1 /\ candidates = <<>> /\ totalRemaining = MaxTotalBytes
        /\ err = "none" /\ pages = <<>>
    BY <1>1 DEF IInv, Position, Listed
  <2>4. Admitted(archive)
    BY <1>1, <1>3 DEF Admitted
  <2>5. CleanBefore(archive.entries, 1) /\ PagesBefore(archive.entries, 1) = {}
    BY DEF CleanBefore, PagesBefore
  <2>6. Passed' /\ Position'
    BY <2>1, <2>3, <2>4, <2>5 DEF Passed, Position
  <2>7. Budget'
    BY <2>1, <2>3, RestAtFirst DEF Budget
  <2>8. Blamed'
    BY <2>1 DEF Blamed
  <2>9. Charged'
    BY <2>1 DEF Charged, IInv
  <2>10. ToSet(<<>>) = {} /\ Len(<<>>) = 0
    BY DEF ToSet
  <2>11. Listed'
    BY <2>1, <2>3, <2>5, <2>10 DEF Listed, IInv
  <2>12. Stored'
    BY <2>1, <2>3, <2>10 DEF Stored
  <2>13. TypeOK'
    BY <2>1, <2>2, <2>11, Known, TypeKept DEF Active
  <2> QED
    BY <2>1, <2>2, <2>6, <2>7, <2>8, <2>9, <2>11, <2>12, <2>13, Known DEF IInv
<1> QED
  BY <1>2, <1>3

\* The pages before an entry, one entry on.
LEMMA PagesOn ==
  ASSUME NEW e \in Seq(Entry), NEW i \in 1..Len(e)
  PROVE  /\ \A j \in PagesBefore(e, i) : j \in Nat /\ j < i /\ j <= Len(e)
         /\ e[i].kind = "file" /\ e[i].image = "page" =>
              PagesBefore(e, i + 1) = PagesBefore(e, i) \cup {i}
         /\ ~(e[i].kind = "file" /\ e[i].image = "page") => PagesBefore(e, i + 1) = PagesBefore(e, i)
<1>1. Len(e) \in Nat /\ i \in Nat /\ 1 <= i /\ i <= Len(e)
  BY LenProperties
<1>2. 1..(i + 1 - 1) = (1..(i - 1)) \cup {i}
  BY <1>1
<1>3. PagesBefore(e, i + 1) = {j \in (1..(i - 1)) \cup {i} : e[j].kind = "file" /\ e[j].image = "page"}
  BY <1>2 DEF PagesBefore
<1>4. \A j \in 1..(i - 1) : j \in Nat /\ j < i /\ j <= Len(e)
  BY <1>1
<1> QED
  BY <1>3, <1>4 DEF PagesBefore

\* What is known of the entry at hand.
LEMMA AtHand ==
  ASSUME IInv, at \in {"next", "copy", "inspect"}, index <= Len(archive.entries)
  PROVE  /\ index \in 1..Len(archive.entries) /\ archive.entries[index] \in Entry
         /\ Admitted(archive) /\ CleanBefore(archive.entries, index) /\ err = "none"
         /\ pages = <<>> /\ Len(pages) = 0 /\ candidates \in Seq(Nat) /\ Len(candidates) \in Nat
         /\ DOMAIN candidates = 1..Len(candidates)
         /\ ToSet(candidates) = PagesBefore(archive.entries, index)
         /\ \A n \in 1..Len(candidates) :
              candidates[n] \in PagesBefore(archive.entries, index) /\ candidates[n] # index
         /\ \A m, n \in 1..Len(candidates) : candidates[m] = candidates[n] => m = n
<1>1. index \in 1..Len(archive.entries) /\ archive.entries[index] \in Entry
  BY Known, ElementOfSeq
<1>2. /\ Admitted(archive) /\ CleanBefore(archive.entries, index) /\ err = "none"
      /\ pages = <<>> /\ candidates \in Seq(Nat)
      /\ ToSet(candidates) = PagesBefore(archive.entries, index)
      /\ \A m, n \in 1..Len(candidates) : candidates[m] = candidates[n] => m = n
  BY DEF IInv, Passed, Position, Listed, Running
<1>3. Len(pages) = 0 /\ Len(candidates) \in Nat /\ DOMAIN candidates = 1..Len(candidates)
  BY <1>2, LenProperties
<1>4. \A n \in 1..Len(candidates) : candidates[n] \in PagesBefore(archive.entries, index)
  BY <1>2, <1>3 DEF ToSet
<1>5. \A j \in PagesBefore(archive.entries, index) : j # index
  BY <1>1, Known, PagesOn
<1> QED
  BY <1>1, <1>2, <1>3, <1>4, <1>5

\* The verdict on the entry at hand is the one on the archive.
LEMMA OnHand ==
  ASSUME IInv, at \in {"next", "copy", "inspect"}, index <= Len(archive.entries),
         Offence(archive.entries, index) # "none"
  PROVE  Offence(archive.entries, index) \in Verdicts(archive)
<1>1. EntriesVerdict(archive.entries) = Offence(archive.entries, index)
  BY AtHand, Known, FirstOffends
<1> QED
  BY <1>1, AtHand, Known, OnlyEntries

LEMMA RefusingEntry ==
  ASSUME IInv, RefuseEntry
  PROVE  IInv'
<1>1. at = "next" /\ index <= Len(archive.entries) /\ index \in Nat /\ MaxEntries \in Nat
  BY Known DEF RefuseEntry, entries
<1>2. PICK why \in Reasons : Fail(why) /\ why = Offence(archive.entries, index) /\ why # "none"
  <2>1. CASE index > MaxEntries /\ Fail("entries")
    BY <2>1 DEF Offence, Reasons
  <2>2. CASE index <= MaxEntries /\ entries[index].kind = "locked" /\ Fail("encrypted")
    <3>1. ~(index > MaxEntries)
      BY <1>1, <2>2
    <3> QED
      BY <2>2, <3>1 DEF Offence, Reasons, entries
  <2>3. CASE index <= MaxEntries /\ entries[index].kind = "link" /\ Fail("unsafe")
    <3>1. ~(index > MaxEntries)
      BY <1>1, <2>3
    <3> QED
      BY <2>3, <3>1 DEF Offence, Reasons, entries
  <2> QED
    BY <2>1, <2>2, <2>3 DEF RefuseEntry
<1> QED
  BY <1>1, <1>2, OnHand, Blaming

LEMMA Skipping ==
  ASSUME IInv, SkipDirectory
  PROVE  IInv'
<1> DEFINE e == archive.entries
<1>1. /\ at = "next" /\ at' = "next" /\ index <= Len(e) /\ index <= MaxEntries /\ index' = index + 1
      /\ e[index].kind = "dir" /\ archive' = archive
      /\ UNCHANGED <<foreign, left, pageRemaining, totalRemaining, files, candidates, pages, err>>
  BY DEF SkipDirectory, given, limitVars, nameVars, entries
<1>2. FInv'
  BY Steering DEF IInv
<1>3. Offence(e, index) = "none"
  <2>1. ~(index > MaxEntries)
    BY <1>1, Known
  <2> QED
    BY <1>1, <2>1 DEF Offence
<1>4. CleanBefore(e, index + 1)
  BY <1>1, <1>3, AtHand, Known, CleanOn
<1>5. PagesBefore(e, index + 1) = PagesBefore(e, index)
  BY <1>1, AtHand, Known, PagesOn
<1>6. totalRemaining = Rest(e, index + 1)
  BY <1>1, AtHand, Known, RestOn DEF IInv, Budget
<1> HIDE DEF e
<1>7. Passed' /\ Position' /\ Blamed'
  BY <1>1, <1>4, AtHand DEF Passed, Position, Blamed, e
<1>8. Budget'
  BY <1>1, <1>6 DEF Budget, e
<1>9. Charged'
  BY <1>1 DEF Charged, IInv
<1>10. Listed'
  BY <1>1, <1>5, AtHand DEF Listed, IInv, e
<1>11. Stored'
  BY <1>1 DEF Stored, IInv, Running
<1>12. TypeOK'
  <2>1. /\ archive \in Archives /\ index' \in Nat /\ 1 <= index' /\ index' <= Len(archive.entries) + 1
        /\ \A n \in DOMAIN files' : files'[n] \in Nat
    BY <1>1, Known DEF e
  <2>2. /\ left' \in Nat /\ pageRemaining' \in Nat /\ pageRemaining' <= MaxPageBytes
        /\ totalRemaining' \in Nat /\ totalRemaining' <= MaxTotalBytes
        /\ ToSet(candidates') \in SUBSET (1..Len(archive.entries)) /\ err' \in Reasons
    BY <1>1, Known
  <2> QED
    BY <1>1, <1>2, <1>10, <2>1, <2>2, TypeKept DEF Active
<1> QED
  BY <1>1, <1>2, <1>7, <1>8, <1>9, <1>10, <1>11, <1>12, Known DEF IInv

LEMMA OpeningEntry ==
  ASSUME IInv, OpenEntry
  PROVE  IInv'
<1> DEFINE e == archive.entries
           t == Temp(index)
<1>1. /\ at = "next" /\ at' = "copy" /\ index <= Len(e) /\ index <= MaxEntries
      /\ e[index].kind = "file" /\ archive' = archive
      /\ left' = e[index].size /\ pageRemaining' = MaxPageBytes
      /\ UNCHANGED <<foreign, index, totalRemaining, candidates, pages, err>>
  BY DEF OpenEntry, given, nameVars, entries
<1>2. /\ DOMAIN files' = DOMAIN files \cup {t} /\ files'[t] = 0
      /\ \A n \in DOMAIN files : n # t => files'[n] = files[n]
  BY DEF OpenEntry
<1>3. FInv' /\ t \notin foreign
  BY Opening, TempIsNoPage DEF IInv, FInv, ForeignNamed
<1>4. e[index].size \in Nat
  BY <1>1, AtHand, EntryKnown
<1>5. Passed' /\ Position' /\ Blamed'
  BY <1>1, AtHand DEF Passed, Position, Blamed, Running
<1>6. Budget'
  <2>1. totalRemaining = Rest(e, index) /\ Rest(e, index) \in Int /\ MaxPageBytes \in Nat
    BY <1>1, Known DEF IInv, Budget
  <2>2. e[index].size - left' = 0
    BY <1>1, <1>4
  <2> HIDE DEF e
  <2> QED
    BY <1>1, <2>1, <2>2 DEF Budget, e
<1>7. Charged'
  <2> DEFINE S == DOMAIN files \ foreign
             T == DOMAIN files' \ foreign
  <2>1. IsFiniteSet(DOMAIN files) /\ Sum(files, S) + totalRemaining <= MaxTotalBytes
    BY DEF IInv, Charged
  <2>2. IsFiniteSet(DOMAIN files')
    BY <1>2, <2>1, FS_AddElement
  <2>3. /\ T = S \cup {t} /\ IsFiniteSet(S) /\ (\A n \in S : files[n] \in Nat)
        /\ \A n \in S \ {t} : files'[n] = files[n]
    BY <1>2, <1>3, Known
  <2> HIDE DEF S, T, t
  <2>4. Sum(files', T) <= Sum(files, S) /\ Sum(files', T) \in Nat /\ Sum(files, S) \in Nat
    BY <1>2, <2>3, BytesBegun
  <2>5. Sum(files', T) + totalRemaining <= MaxTotalBytes
    BY <2>1, <2>4, Known
  <2> QED
    BY <1>1, <2>2, <2>5 DEF Charged, T
<1>8. Listed'
  BY <1>1, AtHand DEF Listed, IInv
<1>9. Stored'
  <2>1. \A n \in 1..Len(candidates) :
          /\ Temp(candidates[n]) \in DOMAIN files /\ Temp(candidates[n]) # t
          /\ files[Temp(candidates[n])] = e[candidates[n]].size
    BY <1>1, AtHand DEF IInv, Stored, Running, Temp
  <2>2. e[index].size - left' = 0 /\ Len(pages) = 0
    BY <1>1, <1>4, AtHand
  <2> HIDE DEF t
  <2>3. \A n \in 1..Len(candidates) :
          Temp(candidates[n]) \in DOMAIN files' /\ files'[Temp(candidates[n])] = e[candidates[n]].size
    BY <1>2, <2>1
  <2> QED
    BY <1>1, <1>2, <2>2, <2>3 DEF Stored, t
<1>10. \A n \in DOMAIN files' : files'[n] \in Nat
  BY <1>2, Known
<1>11. TypeOK'
  BY <1>1, <1>3, <1>4, <1>8, <1>10, Known, TypeKept DEF Active
<1> QED
  BY <1>1, <1>3, <1>5, <1>6, <1>7, <1>8, <1>9, <1>11, Known DEF IInv

\* What is known while an entry is read.
LEMMA WhileReading ==
  ASSUME IInv, at \in {"copy", "inspect"}
  PROVE  /\ index <= Len(archive.entries) /\ index <= MaxEntries /\ archive.entries[index].kind = "file"
         /\ archive.entries[index].size \in Nat /\ left <= archive.entries[index].size
         /\ pageRemaining = MaxPageBytes - (archive.entries[index].size - left)
         /\ totalRemaining = Rest(archive.entries, index) - (archive.entries[index].size - left)
         /\ Rest(archive.entries, index) \in Int
         /\ Temp(index) \in DOMAIN files /\ Temp(index) \notin foreign
         /\ files[Temp(index)] = archive.entries[index].size - left
<1> DEFINE e == archive.entries
<1>1. index <= Len(e) /\ index <= MaxEntries /\ e[index].kind = "file"
  BY DEF IInv, Position
<1>2. e[index].size \in Nat /\ Rest(e, index) \in Int
  BY <1>1, AtHand, EntryKnown, RestOn, Known
<1>3. /\ e[index].size - left >= 0 /\ pageRemaining = MaxPageBytes - (e[index].size - left)
      /\ totalRemaining = Rest(e, index) - (e[index].size - left)
  BY DEF IInv, Budget
<1>4. Temp(index) \in DOMAIN files /\ files[Temp(index)] = e[index].size - left
  BY DEF IInv, Stored, Running
<1>5. Temp(index) \notin foreign
  BY TempIsNoPage DEF IInv, FInv, ForeignNamed
<1> DEFINE size == e[index].size
<1>6. left <= size
  <2>1. size \in Nat /\ size - left >= 0
    BY <1>2, <1>3
  <2> HIDE DEF size
  <2> QED
    BY <2>1, Counters
<1> QED
  BY <1>1, <1>2, <1>3, <1>4, <1>5, <1>6

LEMMA ReadingOn ==
  ASSUME IInv, ReadChunk
  PROVE  IInv'
<1> DEFINE e == archive.entries
           t == Temp(index)
           size == e[index].size
<1>1. at = "copy" /\ Limit > 0
  BY DEF ReadChunk
<1>2. PICK n \in 1..(IF left < Limit THEN left ELSE Limit) :
        /\ left' = left - n
        /\ pageRemaining' = pageRemaining - n /\ totalRemaining' = totalRemaining - n
        /\ files' = [files EXCEPT ![Temp(index)] = @ + n]
  BY DEF ReadChunk
<1>3. UNCHANGED <<archive, foreign, at, index, candidates, pages, err>>
  BY DEF ReadChunk, given, nameVars
<1>4. Limit \in Nat /\ Limit <= pageRemaining /\ Limit <= totalRemaining
  BY Known DEF Limit
<1>5. n \in Nat /\ n <= left /\ n <= Limit
  BY <1>4, Known
<1>6. /\ left' \in Nat /\ pageRemaining' \in Nat /\ totalRemaining' \in Nat
      /\ pageRemaining' <= MaxPageBytes /\ totalRemaining' <= MaxTotalBytes
  <2>1. left' = left - n /\ pageRemaining' = pageRemaining - n /\ totalRemaining' = totalRemaining - n
    BY <1>2
  <2>2. n <= pageRemaining /\ n <= totalRemaining
    BY <1>4, <1>5, Counters
  <2> QED
    BY <1>5, <2>1, <2>2, Counters
<1>7. /\ DOMAIN files' = DOMAIN files /\ files'[t] = files[t] + n /\ t \in DOMAIN files
      /\ \A m \in DOMAIN files : m # t => files'[m] = files[m]
  BY <1>1, <1>2, WhileReading
<1>8. FInv'
  BY Reading DEF IInv
<1>9. size - left' = (size - left) + n /\ size \in Nat
  <2>1. size \in Nat /\ left' = left - n
    BY <1>1, <1>2, WhileReading
  <2> HIDE DEF size
  <2> QED
    BY <1>5, <2>1, Counters
<1>10. Passed' /\ Position' /\ Blamed'
  BY <1>1, <1>3, AtHand DEF Passed, Position, Blamed, Running, IInv
<1>11. Budget'
  <2> DEFINE read == size - left
  <2>1. /\ read \in Nat /\ pageRemaining = MaxPageBytes - read
        /\ totalRemaining = Rest(e, index) - read /\ Rest(e, index) \in Int
    BY <1>1, WhileReading, Known
  <2>2. size - left' = read + n
    BY <1>9
  <2> DEFINE rest == Rest(e, index)
  <2>3. pageRemaining' = pageRemaining - n /\ totalRemaining' = totalRemaining - n
    BY <1>2
  <2> HIDE DEF read, rest
  <2>4. /\ read + n >= 0 /\ pageRemaining' = MaxPageBytes - (read + n)
        /\ totalRemaining' = rest - (read + n)
    BY <1>5, <2>1, <2>3, Counters DEF rest
  <2> QED
    BY <1>1, <1>3, <2>2, <2>4 DEF Budget, rest
<1>12. Charged'
  <2> DEFINE S == DOMAIN files \ foreign
  <2>1. IsFiniteSet(DOMAIN files) /\ IsFiniteSet(S) /\ Sum(files, S) + totalRemaining <= MaxTotalBytes
    BY Known DEF IInv, Charged
  <2>2. /\ t \in S /\ t \notin S \ {t} /\ files[t] \in Nat /\ files'[t] \in Nat /\ S = (S \ {t}) \cup {t}
        /\ (\A m \in S : files[m] \in Nat) /\ \A m \in S \ {t} : files'[m] = files[m]
    <3>1. t \in S /\ t \in DOMAIN files /\ \A m \in DOMAIN files : files[m] \in Nat
      BY <1>1, WhileReading, Known
    <3>2. files[t] \in Nat /\ files'[t] \in Nat
      BY <1>5, <1>7, <3>1
    <3> HIDE DEF t
    <3> QED
      BY <1>7, <3>1, <3>2
  <2>3. S = DOMAIN files' \ foreign'
    BY <1>3, <1>7
  <2> HIDE DEF S, t
  <2>4. Sum(files', S) = Sum(files, S) - files[t] + files'[t] /\ Sum(files, S) \in Nat
    BY <2>1, <2>2, BytesReplaced
  <2>5. Sum(files', S) + totalRemaining' = Sum(files, S) + totalRemaining
    <3>1. Sum(files', S) = Sum(files, S) + n
      BY <1>5, <1>7, <2>2, <2>4
    <3>2. totalRemaining' = totalRemaining - n
      BY <1>2
    <3> QED
      BY <1>5, <2>4, <3>1, <3>2, Counters
  <2> QED
    BY <1>7, <2>1, <2>3, <2>5 DEF Charged
<1>13. Listed'
  BY <1>3 DEF Listed, IInv, Running
<1>14. Stored'
  <2>1. \A k \in 1..Len(candidates) :
          /\ Temp(candidates[k]) \in DOMAIN files /\ Temp(candidates[k]) # t
          /\ files[Temp(candidates[k])] = e[candidates[k]].size
    <3>1. Len(candidates) \in Nat /\ Len(pages) = 0
      BY <1>1, AtHand, WhileReading
    <3>2. \A k \in 1..Len(candidates) :
            /\ Temp(candidates[k]) \in DOMAIN files
            /\ files[Temp(candidates[k])] = e[candidates[k]].size
      BY <1>1, <3>1 DEF IInv, Stored, Running
    <3>3. \A k \in 1..Len(candidates) : candidates[k] # index
      BY <1>1, AtHand, WhileReading
    <3>4. \A j : Temp(j) = Temp(index) => j = index
      BY DEF Temp
    <3> QED
      <4> SUFFICES ASSUME NEW k \in 1..Len(candidates)
                   PROVE  /\ Temp(candidates[k]) \in DOMAIN files /\ Temp(candidates[k]) # t
                          /\ files[Temp(candidates[k])] = e[candidates[k]].size
        OBVIOUS
      <4>1. Temp(candidates[k]) # t
        BY <3>3, <3>4
      <4> QED
        BY <3>2, <4>1
  <2>2. files'[t] = size - left' /\ Len(pages) = 0
    BY <1>1, <1>7, <1>9, AtHand, WhileReading
  <2> HIDE DEF t
  <2>3. \A k \in 1..Len(candidates) :
          Temp(candidates[k]) \in DOMAIN files' /\ files'[Temp(candidates[k])] = e[candidates[k]].size
    BY <1>7, <2>1
  <2> QED
    BY <1>1, <1>3, <1>7, <2>2, <2>3 DEF Stored, t
<1>15. \A m \in DOMAIN files' : files'[m] \in Nat
  <2>1. \A m \in DOMAIN files : files[m] \in Nat
    BY Known
  <2> HIDE DEF t
  <2>2. files'[t] \in Nat
    BY <1>5, <1>7, <2>1
  <2> QED
    BY <1>7, <2>1, <2>2
<1>16. TypeOK'
  BY <1>1, <1>3, <1>6, <1>8, <1>13, <1>15, Known, TypeKept DEF Active
<1> QED
  BY <1>3, <1>8, <1>10, <1>11, <1>12, <1>13, <1>14, <1>16, Known DEF IInv

LEMMA ReadingTooMuch ==
  ASSUME IInv, ReadTooMuch
  PROVE  IInv'
<1> DEFINE e == archive.entries
           size == e[index].size
           rest == Rest(e, index)
           why == IF pageRemaining = 0 THEN "page" ELSE "total"
<1>1. at = "copy" /\ Limit = 0 /\ left > 0 /\ Fail(why)
  BY DEF ReadTooMuch
<1>2. /\ index <= Len(e) /\ ~(index > MaxEntries) /\ e[index].kind = "file"
      /\ size \in Nat /\ left <= size /\ rest \in Int
      /\ pageRemaining = MaxPageBytes - (size - left) /\ totalRemaining = rest - (size - left)
  BY <1>1, WhileReading, Known
<1>3. pageRemaining = 0 \/ (pageRemaining # 0 /\ totalRemaining = 0)
  BY <1>1, Known DEF Limit
<1>4. Offence(e, index) =
        IF size > MaxPageBytes /\ MaxPageBytes <= rest THEN "page"
        ELSE IF size > rest THEN "total" ELSE ImageOffence(e[index])
  BY <1>2 DEF Offence
<1> HIDE DEF rest, size
<1>5. CASE pageRemaining = 0
  <2>1. size > MaxPageBytes /\ MaxPageBytes <= rest
    BY <1>1, <1>2, <1>5, Counters
  <2> QED
    BY <1>1, <1>2, <1>4, <1>5, <2>1, OnHand, Blaming DEF Reasons
<1>6. CASE pageRemaining # 0 /\ totalRemaining = 0
  <2>1. size > rest /\ ~(MaxPageBytes <= rest)
    BY <1>1, <1>2, <1>6, Known
  <2> QED
    BY <1>1, <1>2, <1>4, <1>6, <2>1, OnHand, Blaming DEF Reasons
<1> QED
  BY <1>3, <1>5, <1>6

LEMMA ReadingEnds ==
  ASSUME IInv, ReadEnd
  PROVE  IInv'
<1>1. /\ at = "copy" /\ left = 0 /\ at' = "inspect"
      /\ UNCHANGED <<archive, foreign, index, left, pageRemaining, totalRemaining, files,
                     candidates, pages, err>>
  BY DEF ReadEnd, given, limitVars, nameVars
<1>2. FInv'
  BY Steering DEF IInv
<1>3. Passed' /\ Position' /\ Blamed'
  BY <1>1 DEF Passed, Position, Blamed, Running, IInv
<1>4. Budget'
  BY <1>1 DEF Budget, IInv
<1>5. Charged'
  BY <1>1 DEF Charged, IInv
<1>6. Listed'
  BY <1>1 DEF Listed, IInv, Running
<1>7. Stored'
  BY <1>1 DEF Stored, IInv, Running
<1>8. TypeOK'
  BY <1>1, <1>2, <1>6, Known, TypeKept DEF Active
<1> QED
  BY <1>1, <1>2, <1>3, <1>4, <1>5, <1>6, <1>7, <1>8, Known DEF IInv

\* An entry that has been read is within both limits.
LEMMA WithinLimits ==
  ASSUME IInv, at = "inspect"
  PROVE  Offence(archive.entries, index) = ImageOffence(archive.entries[index])
<1> DEFINE e == archive.entries
           size == e[index].size
           rest == Rest(e, index)
<1>1. /\ ~(index > MaxEntries) /\ e[index].kind = "file" /\ left = 0 /\ rest \in Int /\ size \in Nat
      /\ pageRemaining = MaxPageBytes - (size - left) /\ totalRemaining = rest - (size - left)
  BY WhileReading, Known DEF IInv, Position
<1> HIDE DEF size, rest
<1>2. ~(size > MaxPageBytes) /\ ~(size > rest)
  BY <1>1, Known
<1> QED
  BY <1>1, <1>2 DEF Offence, size, rest

\* What is wrong with a picture is what inspectImage says.
LEMMA PictureIs ==
  ASSUME NEW x \in Entry
  PROVE  /\ x.width > 0 /\ x.height > 0 <=> x.width * x.height # 0
         /\ x.width = 0 \/ x.height = 0 <=> x.width * x.height = 0
<1> DEFINE w == x.width
           h == x.height
<1>1. w \in Nat /\ h \in Nat
  BY EntryKnown
<1> HIDE DEF w, h
<1>2. w * h = 0 <=> w = 0 \/ h = 0
  BY <1>1
<1>3. (w > 0 /\ h > 0) <=> ~(w = 0 \/ h = 0)
  BY <1>1
<1> QED
  BY <1>2, <1>3 DEF w, h

LEMMA RefusingImage ==
  ASSUME IInv, RefuseImage
  PROVE  IInv'
<1> DEFINE x == archive.entries[index]
<1>1. at = "inspect" /\ index <= Len(archive.entries)
  BY WhileReading DEF RefuseImage
<1>2. x \in Entry /\ Offence(archive.entries, index) = ImageOffence(x)
  BY <1>1, AtHand, WithinLimits
<1>3. PICK why \in {"image", "pixels"} : Fail(why) /\ why = ImageOffence(x)
  <2>1. CASE /\ x.image = "bad" \/ (x.image = "page" /\ (x.width = 0 \/ x.height = 0))
             /\ Fail("image")
    BY <1>2, <2>1, PictureIs DEF ImageOffence
  <2>2. CASE /\ x.image = "page" /\ x.width > 0 /\ x.height > 0 /\ TooManyPixels(x)
             /\ Fail("pixels")
    <3>1. x.width * x.height # 0 /\ x.width * x.height > MaxImagePixels
      BY <1>2, <2>2, PictureIs, PixelsAreCounted
    <3> QED
      BY <2>2, <3>1 DEF ImageOffence
  <2> QED
    BY <2>1, <2>2 DEF RefuseImage, entries
<1>4. why \in Verdicts(archive) /\ why \in Reasons
  BY <1>1, <1>2, <1>3, OnHand DEF Reasons
<1> QED
  BY <1>3, <1>4, Blaming

LEMMA KeepingPage ==
  ASSUME IInv, KeepPage
  PROVE  IInv'
<1> DEFINE e == archive.entries
           x == e[index]
           N == Len(candidates)
<1>1. /\ at = "inspect" /\ x.image = "page" /\ x.width > 0 /\ x.height > 0 /\ ~TooManyPixels(x)
      /\ candidates' = Append(candidates, index) /\ index' = index + 1 /\ at' = "next"
      /\ UNCHANGED <<archive, foreign, left, pageRemaining, totalRemaining, files, pages, err>>
  BY DEF KeepPage, given, limitVars, entries
<1>2. FInv'
  BY Steering DEF IInv
<1>3. /\ index <= Len(e) /\ index \in 1..Len(e) /\ x.kind = "file" /\ x \in Entry /\ left = 0
      /\ index \in Nat /\ e \in Seq(Entry)
  BY <1>1, WhileReading, AtHand, Known DEF IInv, Position
<1>4. Offence(e, index) = "none"
  <2>1. Offence(e, index) = ImageOffence(x)
    BY <1>1, WithinLimits
  <2>2. x.width * x.height # 0 /\ ~(x.width * x.height > MaxImagePixels)
    BY <1>1, <1>3, PictureIs, PixelsAreCounted
  <2> QED
    BY <1>1, <2>1, <2>2 DEF ImageOffence
<1>5. CleanBefore(e, index + 1)
  BY <1>1, <1>3, <1>4, AtHand, CleanOn
<1>6. PagesBefore(e, index + 1) = PagesBefore(e, index) \cup {index}
  BY <1>1, <1>3, PagesOn
<1>7. totalRemaining = Rest(e, index + 1)
  <2>1. totalRemaining = Rest(e, index) - (x.size - left) /\ Rest(e, index) \in Int /\ x.size \in Nat
    BY <1>1, WhileReading
  <2>2. Rest(e, index + 1) = Rest(e, index) - x.size
    BY <1>3, RestOn
  <2> DEFINE rest == Rest(e, index)
             size == x.size
  <2>3. rest \in Int /\ size \in Nat /\ totalRemaining = rest - (size - left) /\ left = 0
    BY <1>3, <2>1
  <2> HIDE DEF rest, size
  <2>4. totalRemaining = rest - size
    BY <2>3
  <2> QED
    BY <2>2, <2>4 DEF rest, size
<1>8. /\ candidates' \in Seq(Nat) /\ Len(candidates') = N + 1 /\ N \in Nat
      /\ (\A n \in 1..N : candidates'[n] = candidates[n]) /\ candidates'[N + 1] = index
  BY <1>1, <1>3, AtHand, AppendProperties
<1>9. \A n \in 1..(N + 1) : n \in 1..N \/ n = N + 1
  BY <1>8
<1>10. ToSet(candidates') = ToSet(candidates) \cup {index}
  <2>1. DOMAIN candidates = 1..N /\ DOMAIN candidates' = 1..(N + 1)
    BY <1>1, <1>3, <1>8, AtHand, LenProperties
  <2>2. \A n \in 1..N : n \in 1..(N + 1)
    BY <1>8
  <2>3. N + 1 \in 1..(N + 1)
    BY <1>8
  <2> HIDE DEF N
  <2> QED
    BY <1>8, <1>9, <2>1, <2>2, <2>3 DEF ToSet
<1>11. \A m, n \in 1..(N + 1) : candidates'[m] = candidates'[n] => m = n
  <2>1. \A m, n \in 1..N : candidates[m] = candidates[n] => m = n
    BY <1>1, <1>3, AtHand
  <2>2. \A n \in 1..N : candidates[n] # index
    BY <1>1, <1>3, AtHand
  <2> HIDE DEF N
  <2> QED
    BY <1>8, <1>9, <2>1, <2>2
<1>12. pages = <<>> /\ Len(pages) = 0
  BY <1>1, <1>3, AtHand
<1> HIDE DEF e, x
<1>13. Passed' /\ Position' /\ Blamed'
  BY <1>1, <1>3, <1>5, AtHand DEF Passed, Position, Blamed, e
<1>14. Budget'
  BY <1>1, <1>7 DEF Budget, e
<1>15. Charged'
  BY <1>1 DEF Charged, IInv
<1>16. ToSet(candidates') = PagesBefore(archive.entries, index + 1)
  BY <1>1, <1>3, <1>6, <1>10, AtHand DEF e
<1>17. Listed'
  BY <1>1, <1>8, <1>11, <1>12, <1>16 DEF Listed, IInv
<1>18. Stored'
  <2>1. /\ \A n \in 1..N : /\ Temp(candidates[n]) \in DOMAIN files
                            /\ files[Temp(candidates[n])] = archive.entries[candidates[n]].size
        /\ Temp(index) \in DOMAIN files /\ files[Temp(index)] = archive.entries[index].size - left
    BY <1>1, <1>12 DEF IInv, Stored, Running
  <2>2. archive.entries[index].size - left = archive.entries[index].size
    BY <1>1, <1>3, WhileReading
  <2>3. \A n \in 1..(N + 1) :
          /\ Temp(candidates'[n]) \in DOMAIN files
          /\ files[Temp(candidates'[n])] = archive.entries[candidates'[n]].size
    BY <1>8, <1>9, <2>1, <2>2
  <2> QED
    BY <1>1, <1>8, <1>12, <2>3 DEF Stored
<1>19. ToSet(candidates') \in SUBSET (1..Len(archive.entries))
  BY <1>3, <1>10, Known DEF e
<1>20. index' \in Nat /\ 1 <= index' /\ index' <= Len(archive.entries) + 1
  BY <1>1, <1>3, Known DEF e
<1>21. TypeOK'
  BY <1>1, <1>2, <1>17, <1>19, <1>20, Known, TypeKept DEF Active
<1> QED
  BY <1>1, <1>2, <1>13, <1>14, <1>15, <1>17, <1>18, <1>21, Known DEF IInv

LEMMA DroppingOther ==
  ASSUME IInv, DropOther
  PROVE  IInv'
<1> DEFINE e == archive.entries
           x == e[index]
<1>1. /\ at = "inspect" /\ x.image = "other" /\ index' = index + 1 /\ at' = "next"
      /\ UNCHANGED <<archive, foreign, left, pageRemaining, totalRemaining, candidates, pages, err>>
  BY DEF DropOther, given, limitVars, nameVars, entries
<1>2. FInv'
  BY Dropping DEF IInv
<1>3. /\ index <= Len(e) /\ index \in 1..Len(e) /\ x.kind = "file" /\ x \in Entry /\ left = 0
      /\ index \in Nat /\ e \in Seq(Entry)
  BY <1>1, WhileReading, AtHand, Known DEF IInv, Position
<1>4. Offence(e, index) = "none"
  BY <1>1, WithinLimits DEF ImageOffence
<1>5. CleanBefore(e, index + 1)
  BY <1>1, <1>3, <1>4, AtHand, CleanOn
<1>6. PagesBefore(e, index + 1) = PagesBefore(e, index)
  BY <1>1, <1>3, PagesOn
<1>7. totalRemaining = Rest(e, index + 1)
  <2>1. totalRemaining = Rest(e, index) - (x.size - left) /\ Rest(e, index) \in Int /\ x.size \in Nat
    BY <1>1, WhileReading
  <2>2. Rest(e, index + 1) = Rest(e, index) - x.size
    BY <1>3, RestOn
  <2> DEFINE rest == Rest(e, index)
             size == x.size
  <2>3. rest \in Int /\ size \in Nat /\ totalRemaining = rest - (size - left) /\ left = 0
    BY <1>3, <2>1
  <2> HIDE DEF rest, size
  <2>4. totalRemaining = rest - size
    BY <2>3
  <2> QED
    BY <2>2, <2>4 DEF rest, size
<1>8. /\ DOMAIN files' \in SUBSET DOMAIN files /\ DOMAIN files \ {Temp(index)} \in SUBSET DOMAIN files'
      /\ \A n \in DOMAIN files' : files'[n] = files[n]
  BY DEF DropOther, Without
<1> HIDE DEF e, x
<1>9. Passed' /\ Position' /\ Blamed'
  BY <1>1, <1>3, <1>5, AtHand DEF Passed, Position, Blamed, e
<1>10. Budget'
  BY <1>1, <1>7 DEF Budget, e
<1>11. Charged'
  <2>1. IsFiniteSet(DOMAIN files) /\ Sum(files, DOMAIN files \ foreign) + totalRemaining <= MaxTotalBytes
    BY DEF IInv, Charged
  <2>2. /\ IsFiniteSet(DOMAIN files')
        /\ Sum(files', DOMAIN files' \ foreign) <= Sum(files, DOMAIN files \ foreign)
        /\ Sum(files', DOMAIN files' \ foreign) \in Nat
    BY <1>8, <2>1, Known, FewerBytes
  <2>3. Sum(files', DOMAIN files' \ foreign) + totalRemaining <= MaxTotalBytes
    BY <2>1, <2>2, Known
  <2> QED
    BY <1>1, <2>2, <2>3 DEF Charged
<1>12. Listed'
  BY <1>1, <1>3, <1>6, AtHand DEF Listed, IInv, e
<1>13. Stored'
  <2>1. \A n \in 1..Len(candidates) :
          /\ Temp(candidates[n]) \in DOMAIN files /\ Temp(candidates[n]) # Temp(index)
          /\ files[Temp(candidates[n])] = archive.entries[candidates[n]].size
    BY <1>1, <1>3, AtHand DEF IInv, Stored, Running, Temp, e
  <2>2. pages = <<>> /\ Len(pages) = 0
    BY <1>1, <1>3, AtHand DEF e
  <2>3. \A n \in 1..Len(candidates) :
          /\ Temp(candidates[n]) \in DOMAIN files'
          /\ files'[Temp(candidates[n])] = archive.entries[candidates[n]].size
    BY <1>8, <2>1
  <2> QED
    BY <1>1, <2>2, <2>3 DEF Stored
<1>14. index' \in Nat /\ 1 <= index' /\ index' <= Len(archive.entries) + 1
  BY <1>1, <1>3, Known DEF e
<1>15. \A n \in DOMAIN files' : files'[n] \in Nat
  BY <1>8, Known
<1>16. TypeOK'
  BY <1>1, <1>2, <1>12, <1>14, <1>15, Known, TypeKept DEF Active
<1> QED
  BY <1>1, <1>2, <1>9, <1>10, <1>11, <1>12, <1>13, <1>16, Known DEF IInv

LEMMA Ending ==
  ASSUME IInv, EndOfArchive
  PROVE  IInv'
<1>1. /\ at = "next" /\ index > Len(archive.entries) /\ candidates' = Sorted(candidates) /\ at' = "name"
      /\ UNCHANGED <<archive, foreign, index, left, pageRemaining, totalRemaining, files, pages, err>>
  BY DEF EndOfArchive, given, limitVars, entries
<1>2. FInv'
  BY Steering DEF IInv
<1>3. index = Len(archive.entries) + 1
  BY <1>1, Known
<1>4. /\ candidates \in Seq(Nat) /\ pages = <<>> /\ Len(pages) = 0
      /\ \A m, n \in 1..Len(candidates) : candidates[m] = candidates[n] => m = n
      /\ ToSet(candidates) = PagesBefore(archive.entries, index)
  BY <1>1, EmptySeq DEF IInv, Listed, Running
<1>5. PICK s : s = candidates'
  OBVIOUS
<1>6. /\ s \in Seq(Nat) /\ Len(s) = Len(candidates) /\ ToSet(s) = ToSet(candidates)
      /\ \A m, n \in 1..Len(s) : m < n => Earlier(archive.entries, s[m], s[n])
      /\ \A m, n \in 1..Len(s) : s[m] = s[n] => m = n
  BY <1>1, <1>4, <1>5, Known, SortedIsRight
<1>7. Passed' /\ Position' /\ Budget' /\ Blamed'
  BY <1>1, <1>3 DEF Passed, Position, Budget, Blamed, Running, IInv
<1>8. Charged'
  BY <1>1 DEF Charged, IInv
<1>9. Listed'
  BY <1>1, <1>4, <1>5, <1>6 DEF Listed, IInv
<1>10. Stored'
  <2>1. \A n \in 1..Len(candidates) :
          /\ Temp(candidates[n]) \in DOMAIN files
          /\ files[Temp(candidates[n])] = archive.entries[candidates[n]].size
    BY <1>1, <1>4 DEF IInv, Stored, Running
  <2>2. \A i \in ToSet(candidates) :
          Temp(i) \in DOMAIN files /\ files[Temp(i)] = archive.entries[i].size
    BY <1>4, <2>1, LenProperties DEF ToSet
  <2>3. \A n \in 1..Len(s) : s[n] \in ToSet(candidates)
    BY <1>6, LenProperties DEF ToSet
  <2> QED
    BY <1>1, <1>4, <1>5, <2>2, <2>3 DEF Stored
<1>11. TypeOK'
  BY <1>1, <1>2, <1>5, <1>6, <1>9, Known, TypeKept DEF Active
<1> QED
  BY <1>1, <1>2, <1>7, <1>8, <1>9, <1>10, <1>11, Known DEF IInv

\* What is known while pages are named.
LEMMA WhileNaming ==
  ASSUME IInv, at = "name"
  PROVE  /\ candidates \in Seq(Nat) /\ pages \in Seq(Nat)
         /\ Len(candidates) \in Nat /\ Len(pages) \in Nat /\ Len(pages) <= Len(candidates)
         /\ \A m, n \in 1..Len(candidates) : candidates[m] = candidates[n] => m = n
         /\ \A n \in 1..Len(pages) : pages[n] = candidates[n]
         /\ index = Len(archive.entries) + 1 /\ err = "none"
         /\ ToSet(candidates) = PagesBefore(archive.entries, index)
         /\ \A m, n \in 1..Len(candidates) :
              m < n => Earlier(archive.entries, candidates[m], candidates[n])
  BY LenProperties DEF IInv, Listed, Running, Position

LEMMA NamingPage ==
  ASSUME IInv, NamePage
  PROVE  IInv'
<1> DEFINE N == Len(pages)
           i == candidates[N + 1]
           temp == Temp(i)
           page == PageFile(N + 1)
<1>1. /\ at = "name" /\ at' = "name" /\ N + 1 <= Len(candidates) /\ page \notin DOMAIN files
      /\ pages' = Append(pages, i)
      /\ UNCHANGED <<archive, foreign, index, left, pageRemaining, totalRemaining, candidates, err>>
  BY DEF NamePage, NextPage, Collide, given, limitVars
<1>2. /\ DOMAIN files' = (DOMAIN files \ {temp}) \cup {page} /\ files'[page] = files[temp]
      /\ \A n \in DOMAIN files \ {temp} : n # page => files'[n] = files[n]
  BY DEF NamePage, NextPage
<1>3. FInv'
  BY Naming DEF IInv
<1>4. /\ N \in Nat /\ Len(candidates) \in Nat /\ N + 1 \in 1..Len(candidates) /\ N + 1 > N
      /\ i \in Nat
  <2>1. N \in Nat /\ Len(candidates) \in Nat /\ candidates \in Seq(Nat)
    BY <1>1, WhileNaming
  <2>2. N + 1 \in 1..Len(candidates) /\ N + 1 > N
    BY <1>1, <2>1
  <2> QED
    BY <2>1, <2>2, ElementOfSeq
<1>5. temp \in DOMAIN files /\ files[temp] = archive.entries[i].size /\ temp \notin foreign
  <2>1. temp \notin foreign
    BY TempIsNoPage DEF IInv, FInv, ForeignNamed
  <2> QED
    BY <1>1, <1>4, <2>1 DEF IInv, Stored, Running
<1>6. /\ pages' \in Seq(Nat) /\ Len(pages') = N + 1
      /\ (\A n \in 1..N : pages'[n] = pages[n]) /\ pages'[N + 1] = i
  BY <1>1, <1>4, WhileNaming, AppendProperties
<1>7. \A n \in 1..(N + 1) : n \in 1..N \/ n = N + 1
  BY <1>4
<1>8. Passed' /\ Position' /\ Budget' /\ Blamed'
  BY <1>1 DEF Passed, Position, Budget, Blamed, Running, IInv
<1>9. Charged'
  <2> DEFINE S == DOMAIN files \ foreign
             T == DOMAIN files' \ foreign
  <2>1. IsFiniteSet(DOMAIN files) /\ IsFiniteSet(S) /\ Sum(files, S) + totalRemaining <= MaxTotalBytes
    BY Known DEF IInv, Charged
  <2>2. /\ temp \in S /\ page \notin S /\ page \notin foreign /\ (\A n \in S : files[n] \in Nat)
        /\ T = (S \ {temp}) \cup {page} /\ files'[page] = files[temp]
        /\ \A n \in S \ {temp} : files'[n] = files[n]
    <3>1. foreign \subseteq DOMAIN files /\ \A n \in DOMAIN files : files[n] \in Nat
      BY Known DEF IInv, FInv, FilesTracked
    <3> HIDE DEF temp, page
    <3> QED
      BY <1>1, <1>2, <1>5, <3>1
  <2>3. IsFiniteSet(DOMAIN files')
    <3>1. IsFiniteSet(DOMAIN files \ {temp})
      BY <2>1, FS_Subset
    <3> QED
      BY <1>2, <3>1, FS_AddElement
  <2> HIDE DEF S, T, temp, page
  <2>4. Sum(files', T) = Sum(files, S) - files[temp] + files'[page] /\ Sum(files, S) \in Nat
    BY <2>1, <2>2, BytesReplaced
  <2>5. files[temp] \in Nat
    BY <2>2
  <2>6. Sum(files', T) = Sum(files, S)
    BY <2>2, <2>4, <2>5
  <2> QED
    BY <1>1, <2>1, <2>3, <2>6 DEF Charged, T
<1>10. Listed'
  <2>1. \A n \in 1..Len(pages') : pages'[n] = candidates[n]
    BY <1>1, <1>6, <1>7, WhileNaming
  <2> QED
    BY <1>1, <1>4, <1>6, <2>1, WhileNaming DEF Listed, Running
<1>11. Stored'
  <2>1. ASSUME NEW n \in 1..(N + 1)
        PROVE  PageFile(n) \in DOMAIN files' /\ files'[PageFile(n)] = archive.entries[candidates[n]].size
    <3>1. CASE n = N + 1
      BY <1>2, <1>5, <3>1
    <3>2. CASE n \in 1..N
      <4>1. PageFile(n) \in DOMAIN files /\ files[PageFile(n)] = archive.entries[candidates[n]].size
        BY <1>1, <3>2 DEF IInv, Stored, Running
      <4>2. PageFile(n) # temp /\ PageFile(n) # page
        BY <1>1, <4>1, TempIsNoPage
      <4> HIDE DEF temp, page
      <4> QED
        BY <1>2, <4>1, <4>2
    <3> QED
      BY <1>7, <3>1, <3>2
  <2>2. ASSUME NEW n \in 1..Len(candidates), n > N + 1
        PROVE  /\ Temp(candidates[n]) \in DOMAIN files'
               /\ files'[Temp(candidates[n])] = archive.entries[candidates[n]].size
    <3>1. n > N /\ n # N + 1
      BY <1>4, <2>2
    <3>2. /\ Temp(candidates[n]) \in DOMAIN files
          /\ files[Temp(candidates[n])] = archive.entries[candidates[n]].size
      BY <1>1, <3>1 DEF IInv, Stored, Running
    <3>3. candidates[n] # i
      BY <1>1, <1>4, <3>1, WhileNaming
    <3>4. Temp(candidates[n]) # temp /\ Temp(candidates[n]) # page
      BY <3>3, TempIsNoPage DEF Temp
    <3> HIDE DEF temp, page, i
    <3> QED
      BY <1>2, <3>2, <3>4
  <2> QED
    BY <1>1, <1>6, <2>1, <2>2 DEF Stored
<1>12. \A n \in DOMAIN files' : files'[n] \in Nat
  BY <1>2, <1>5, Known
<1>13. TypeOK'
  BY <1>1, <1>3, <1>10, <1>12, Known, TypeKept DEF Active
<1> QED
  BY <1>1, <1>3, <1>8, <1>9, <1>10, <1>11, <1>13, Known DEF IInv

LEMMA Finishing ==
  ASSUME IInv, Finish
  PROVE  IInv'
<1>1. /\ at = "name" /\ at' = "done" /\ ~(Len(pages) + 1 <= Len(candidates))
      /\ UNCHANGED <<archive, foreign, index, left, pageRemaining, totalRemaining, files,
                     candidates, pages, err>>
  <2>1. at = "name" /\ at' = "done" /\ Len(pages) + 1 > Len(candidates)
    BY DEF Finish, NextPage
  <2>2. Len(pages) \in Nat /\ Len(candidates) \in Nat
    BY <2>1, WhileNaming
  <2> QED
    BY <2>1, <2>2 DEF Finish, given, limitVars, nameVars
<1>2. FInv'
  BY Steering DEF IInv
<1>3. Len(pages) = Len(candidates)
  <2>1. Len(pages) \in Nat /\ Len(candidates) \in Nat /\ Len(pages) <= Len(candidates)
    BY <1>1, WhileNaming
  <2> QED
    BY <1>1, <2>1
<1>4. Passed' /\ Position' /\ Budget' /\ Blamed'
  BY <1>1 DEF Passed, Position, Budget, Blamed, Running, IInv
<1>5. Charged'
  BY <1>1 DEF Charged, IInv
<1>6. Listed'
  BY <1>1, <1>3, WhileNaming DEF Listed, Running
<1>7. Stored'
  BY <1>1 DEF Stored, Running, IInv
<1>8. TypeOK'
  BY <1>1, <1>2, <1>6, Known, TypeKept
<1> QED
  BY <1>1, <1>2, <1>4, <1>5, <1>6, <1>7, <1>8, Known DEF IInv

\* The extraction before its first step.
LEMMA StartsRight == Init => IInv
<1> SUFFICES ASSUME Init PROVE IInv
  OBVIOUS
<1>1. /\ archive \in Archives /\ at = "start" /\ index = 1 /\ left = 0
      /\ pageRemaining = 0 /\ totalRemaining = MaxTotalBytes
      /\ foreign = DOMAIN files /\ created = {} /\ candidates = <<>> /\ pages = <<>>
      /\ err = "none" /\ refused = {}
  BY DEF Init
<1>2. /\ \A n \in DOMAIN files : files[n] \in Nat
      /\ DOMAIN files = {} \/ DOMAIN files = {PageFile(1)}
  BY DEF Init
<1>3. IsFiniteSet(DOMAIN files)
  <2>1. CASE DOMAIN files = {}
    BY <2>1, FS_EmptySet
  <2>2. CASE DOMAIN files = {PageFile(1)}
    <3>1. IsFiniteSet({PageFile(1)})
      BY FS_Singleton
    <3> QED
      BY <2>2, <3>1
  <2> QED
    BY <1>2, <2>1, <2>2
<1>4. FInv
  BY NothingExtracted
<1>5. Passed /\ Position /\ Budget /\ Blamed /\ Stored
  BY <1>1 DEF Passed, Position, Budget, Blamed, Stored, Running
<1>6. Charged
  <2>1. DOMAIN files \ foreign = {} /\ MaxTotalBytes \in Nat
    BY <1>1, ExtractionLimits
  <2>2. Sum(files, DOMAIN files \ foreign) = 0
    BY <2>1, SumEmpty
  <2> QED
    BY <1>1, <1>3, <2>1, <2>2 DEF Charged
<1>7. /\ Len(<<>>) = 0 /\ <<>> \in Seq(Nat) /\ ToSet(<<>>) = {}
  BY DEF ToSet
<1>8. Listed
  BY <1>1, <1>7 DEF Listed, Running
<1>9. TypeOK
  <2>1. /\ ArchiveType(archive) /\ Len(archive.entries) \in Nat
        /\ MaxPageBytes \in Nat /\ MaxTotalBytes \in Nat
    BY <1>1, ArchivesAssumption, ArchiveKnown, ExtractionLimits
  <2>2. index \in 1..(Len(archive.entries) + 1) /\ pageRemaining \in 0..MaxPageBytes
        /\ totalRemaining \in 0..MaxTotalBytes /\ left \in Nat
    BY <1>1, <2>1
  <2> QED
    BY <1>1, <1>2, <1>7, <2>1, <2>2 DEF TypeOK, entries, Active
<1> QED
  BY <1>1, <1>4, <1>5, <1>6, <1>8, <1>9 DEF IInv

\* Every step keeps it.
LEMMA ExtractionKeeps ==
  ASSUME IInv, [Next]_vars
  PROVE  IInv'
<1>1. CASE UNCHANGED vars
  <2>1. /\ UNCHANGED <<archive, foreign, at, index, left, pageRemaining, totalRemaining, files, created>>
        /\ UNCHANGED <<candidates, pages, err, refused>>
    BY <1>1 DEF vars
  <2>2. FInv' /\ TypeOK'
    BY <2>1 DEF IInv, FInv, FilesTracked, ForeignNamed, FailedLeavesNothing, TypeOK, entries
  <2>3. Passed' /\ Position' /\ Budget' /\ Blamed' /\ Charged'
    BY <2>1 DEF IInv, Passed, Position, Budget, Blamed, Charged
  <2>4. Listed' /\ Stored'
    BY <2>1 DEF IInv, Listed, Stored
  <2> QED
    BY <2>1, <2>2, <2>3, <2>4 DEF IInv
<1>2. CASE RefuseInput \/ Begin
  BY <1>2, Refusing, Beginning
<1>3. CASE RefuseEntry \/ SkipDirectory \/ OpenEntry
  BY <1>3, RefusingEntry, Skipping, OpeningEntry
<1>4. CASE ReadChunk \/ ReadTooMuch \/ ReadEnd
  BY <1>4, ReadingOn, ReadingTooMuch, ReadingEnds
<1>5. CASE KeepPage \/ DropOther \/ RefuseImage
  BY <1>5, KeepingPage, DroppingOther, RefusingImage
<1>6. CASE EndOfArchive \/ NamePage \/ Finish
  BY <1>6, Ending, NamingPage, Finishing
<1>7. CASE RefuseName \/ Fault
  BY <1>7, Blaming DEF RefuseName, Fault, Reasons
<1>8. CASE Kill \/ Accept \/ LoseResult
  BY <1>8, Leaving
<1> QED
  BY <1>1, <1>2, <1>3, <1>4, <1>5, <1>6, <1>7, <1>8 DEF Next

\* The inductive invariant of an extraction.
THEOREM ExtractionInductive == Spec => []IInv
<1>1. IInv /\ [Next]_vars => IInv'
  BY ExtractionKeeps
<1> QED
  BY <1>1, StartsRight, PTL DEF Spec

\* The variables keep their types; among others the remaining bytes never go
\* below zero, and only entries that exist are pages.
THEOREM ExtractionTyped == Spec => []TypeOK
<1>1. IInv => TypeOK
  BY DEF IInv
<1> QED
  BY <1>1, ExtractionInductive, PTL

LEMMA VerdictHolds == IInv => VerdictRight
<1> SUFFICES ASSUME IInv, at \in {"done", "failed"}, err \notin {"fault", "collision"}
             PROVE  err \in Verdicts(archive)
  BY DEF VerdictRight
<1>1. CASE at = "failed"
  BY <1>1 DEF IInv, Blamed
<1>2. CASE at = "done"
  <2>1. /\ Admitted(archive) /\ CleanBefore(archive.entries, index)
        /\ index = Len(archive.entries) + 1 /\ err = "none"
    BY <1>2 DEF IInv, Passed, Position, Running
  <2>2. EntriesVerdict(archive.entries) = "none"
    BY <2>1, Known, NoneOffends
  <2> QED
    BY <2>1, <2>2, Known, OnlyEntries
<1> QED
  BY <1>1, <1>2

\* Without faults an extraction succeeds exactly when the directory is in order
\* and every entry is within the limits, to the byte and the pixel, and names the
\* limit that was broken first: for any archive and any limits.
THEOREM VerdictIsRight == Spec => []VerdictRight
  BY VerdictHolds, ExtractionInductive, PTL

\* The library is never given a ZIP directory with more headers than the limit,
\* for any file, whatever its end record says of their number.
THEOREM DirectoryIsBounded == Spec => []DirectoryBounded
<1>1. IInv => DirectoryBounded
  <2> SUFFICES ASSUME IInv, archive.form = "zip", at \in Running
               PROVE  LibraryHeaders(archive.end, archive.headers) <= MaxEntries
    BY DEF DirectoryBounded, Running
  <2>1. PreflightZIP(archive.end, archive.headers, MaxEntries) = "ok"
    BY DEF IInv, Passed, Admitted
  <2>2. /\ archive.end \in EndRecord /\ HeadersKnown(archive.headers) /\ MaxEntries \in Nat
        /\ archive.end.tail # NoEnd => EndOffset(archive.end) \notin DOMAIN archive.headers
    BY Known, ArchiveKnown
  <2>3. archive.end.tail # NoEnd
    BY <2>1 DEF PreflightZIP
  <2>4. /\ LibraryHeaders(archive.end, archive.headers) = archive.end.count
        /\ archive.end.count <= MaxEntries
    BY <2>1, <2>2, <2>3, LibraryIsBounded
  <2> QED
    BY <2>4
<1> QED
  BY <1>1, ExtractionInductive, PTL

\* The files written never come to more than the extraction limit, those that are
\* only inspected and those that could not be removed included.
THEOREM OutputIsBounded == Spec => []OutputBounded
<1>1. IInv => OutputBounded
  <2> SUFFICES ASSUME IInv PROVE OutputBounded
    OBVIOUS
  <2>1. Bytes(DOMAIN files \ foreign) = Sum(files, DOMAIN files \ foreign)
    BY DEF Bytes, Sum
  <2>2. Sum(files, DOMAIN files \ foreign) + totalRemaining <= MaxTotalBytes
    BY DEF IInv, Charged
  <2>3. Sum(files, DOMAIN files \ foreign) <= MaxTotalBytes
    BY <2>2, Known
  <2> QED
    BY <2>1, <2>3 DEF OutputBounded
<1> QED
  BY <1>1, ExtractionInductive, PTL

LEMMA PagesHold == IInv => PagesRight
<1> SUFFICES ASSUME IInv, at = "done" PROVE PagesRight
  BY DEF PagesRight
<1>1. /\ pages \in Seq(Nat) /\ candidates \in Seq(Nat) /\ Len(pages) = Len(candidates)
      /\ \A n \in 1..Len(pages) : pages[n] = candidates[n]
      /\ ToSet(candidates) = PagesBefore(archive.entries, index)
      /\ \A m, n \in 1..Len(candidates) :
           m < n => Earlier(archive.entries, candidates[m], candidates[n])
  BY DEF IInv, Listed, Running
<1>2. pages = candidates
  BY <1>1, SeqEqual
<1>3. index - 1 = Len(archive.entries)
  BY Known DEF IInv, Position
<1>4. ToSet(pages) = Images(archive.entries)
  BY <1>1, <1>2, <1>3 DEF PagesBefore, Images
<1>5. \A n \in 1..Len(pages) : files[PageFile(n)] = archive.entries[pages[n]].size
  BY <1>1 DEF IInv, Stored, Running
<1> QED
  BY <1>1, <1>2, <1>4, <1>5 DEF PagesRight, Earlier, entries

\* A finished extraction returns every image of the archive, complete, in natural
\* order, equal names in archive order.
THEOREM PagesAreRight == Spec => []PagesRight
  BY PagesHold, ExtractionInductive, PTL

\* What a finished extraction returns is within the limits of extractJob.
LEMMA DoneIsWithin ==
  ASSUME IInv, at = "done"
  PROVE  SizesWithin
<1> DEFINE e == archive.entries
           S == ToSet(pages)
           F == FilesBefore(e, index)
           f == [i \in F |-> e[i].size]
           g == [i \in S |-> e[i].size]
<1>1. /\ CleanBefore(e, index) /\ index = Len(e) + 1 /\ totalRemaining = Rest(e, index)
      /\ archive \in Archives /\ e \in Seq(Entry) /\ Len(e) \in Nat
      /\ ToSet(candidates) = PagesBefore(e, index)
  BY Known DEF IInv, Passed, Position, Budget, Listed, Running
<1>2. 1..(index - 1) = 1..Len(e)
  BY <1>1
<1>3. S \subseteq PagesBefore(e, index)
  BY <1>1 DEF IInv, TypeOK
<1>4. S \in SUBSET F /\ F \in SUBSET (1..Len(e))
  BY <1>2, <1>3 DEF PagesBefore, FilesBefore
<1>5. IsFiniteSet(F) /\ IsFiniteSet(S)
  <2>1. IsFiniteSet(1..Len(e))
    BY <1>1, FS_Interval
  <2> QED
    BY <1>4, <2>1, FS_Subset
<1>6. \A i \in 1..Len(e) : e[i].size \in Nat
  BY <1>1, ElementOfSeq, EntryKnown
<1>7. ASSUME NEW p \in S PROVE e[p].size \in 1..MaxPageBytes
  <2>1. p \in 1..Len(e) /\ e[p].kind = "file" /\ e[p].image = "page" /\ Offence(e, p) = "none"
    BY <1>1, <1>2, <1>3 DEF PagesBefore, CleanBefore
  <2>2. e[p].size > 0 /\ e[p].size \in Nat
    BY <1>1, <1>6, <2>1, ArchivesAssumption
  <2>3. ~(e[p].size > MaxPageBytes /\ MaxPageBytes <= Rest(e, p)) /\ ~(e[p].size > Rest(e, p))
    BY <2>1 DEF Offence
  <2> DEFINE size == e[p].size
             rest == Rest(e, p)
  <2>4. rest \in Int /\ size \in Nat /\ size > 0 /\ MaxPageBytes \in Nat
    BY <1>1, <2>1, <2>2, RestOn, Known
  <2> HIDE DEF size, rest
  <2>5. size <= MaxPageBytes
    BY <2>3, <2>4 DEF size, rest
  <2> QED
    BY <2>4, <2>5 DEF size
<1>8. Rest(e, index) = MaxTotalBytes - Sum(f, F)
  BY SumOfField DEF Rest
<1>9. MapThenSumSet(LAMBDA i : entries[i].size, S) = Sum(g, S)
  BY SumOfField DEF entries
<1>10. (\A i \in F : f[i] \in Nat) /\ \A i \in S : f[i] \in Nat /\ g[i] = f[i]
  BY <1>4, <1>6
<1> HIDE DEF f, g, S, F
<1>11. Sum(f, S) = Sum(g, S) /\ Sum(f, S) <= Sum(f, F) /\ Sum(f, F) \in Nat /\ Sum(f, S) \in Nat
  BY <1>4, <1>5, <1>10, SumAgree, SumPart, SumNat
<1>12. Sum(g, S) <= MaxTotalBytes
  <2>1. totalRemaining = MaxTotalBytes - Sum(f, F)
    BY <1>1, <1>8
  <2>2. Sum(f, F) <= MaxTotalBytes
    BY <1>11, <2>1, Counters
  <2> QED
    BY <1>11, <2>2, Counters
<1> QED
  BY <1>7, <1>9, <1>12 DEF S, entries, SizesWithin

\* The parent finds what the archive holds: of its checks only the bound on the
\* result and the one for an empty chapter can fail.
LEMMA DoneIsJudged ==
  ASSUME IInv, at = "done"
  PROVE  /\ "none" \in Verdicts(archive)
         /\ ListTooLong(entries) => Judgement = "result"
         /\ ~ListTooLong(entries) /\ Images(entries) = {} => Judgement = "no_pages"
         /\ ~ListTooLong(entries) /\ Images(entries) # {} => Judgement = "none"
<1>1. "none" \in Verdicts(archive)
  <2>1. err = "none"
    BY DEF IInv, Position
  <2> QED
    BY <2>1, VerdictHolds DEF VerdictRight
<1>2. ToSet(pages) = Images(entries)
  BY PagesHold DEF PagesRight
<1>3. ResultTooLarge <=> ListTooLong(entries)
  BY <1>2 DEF ResultTooLarge, ResultBytes, ListTooLong
<1>4. pages = <<>> <=> Images(entries) = {}
  <2>1. pages \in Seq(Nat) /\ DOMAIN pages = 1..Len(pages) /\ Len(pages) \in Nat
    BY LenProperties DEF IInv, Listed
  <2>2. Images(entries) = {pages[n] : n \in 1..Len(pages)}
    BY <1>2, <2>1 DEF ToSet
  <2>3. CASE Len(pages) = 0
    <3>1. pages = <<>>
      BY <2>1, <2>3, EmptySeq
    <3> QED
      BY <2>1, <2>2, <2>3, <3>1
  <2>4. CASE Len(pages) > 0
    <3>1. pages[1] \in Images(entries) /\ pages # <<>>
      BY <2>1, <2>2, <2>4
    <3> QED
      BY <3>1
  <2> QED
    BY <2>1, <2>3, <2>4
<1>5. InPlace
  <2>1. \A n \in 1..Len(pages) :
          PageFile(n) \in DOMAIN files /\ files[PageFile(n)] = archive.entries[candidates[n]].size
    BY DEF IInv, Stored, Running
  <2>2. \A n \in 1..Len(pages) : pages[n] = candidates[n]
    BY DEF IInv, Listed
  <2> QED
    BY <2>1, <2>2 DEF InPlace, entries
<1> QED
  BY <1>1, <1>3, <1>4, <1>5, DoneIsWithin DEF Judgement

\* Whether a chapter that the child has finished is published follows from the
\* archive, for any archive and any limits: it is when it has an image and the list
\* of its images fits the result, and without faults it is turned away only for the
\* one or the other; neither the sizes nor the files are ever the reason.
THEOREM OutcomeIsRight == Spec => []OutcomeRight
<1>1. Init => OutcomeRight
  BY DEF Init, OutcomeRight
<1>2. IInv /\ OutcomeRight /\ [Next]_vars => OutcomeRight'
  <2> SUFFICES ASSUME IInv, OutcomeRight, [Next]_vars, at' \in {"published", "rejected"}
               PROVE  OutcomeRight'
    BY DEF OutcomeRight
  <2>1. CASE UNCHANGED vars
    BY <2>1 DEF vars, OutcomeRight, entries
  <2>2. CASE Accept \/ LoseResult
    <3>1. at = "done" /\ archive' = archive
      BY <2>2 DEF Accept, LoseResult, given
    <3>2. \/ err' = "fault" /\ at' = "rejected"
          \/ err' = Judgement /\ at' = IF Judgement = "none" THEN "published" ELSE "rejected"
      BY <2>2 DEF Accept, LoseResult
    <3> QED
      BY <3>1, <3>2, DoneIsJudged DEF OutcomeRight, entries
  <2>3. CASE Next /\ ~Accept /\ ~LoseResult
    <3>1. \A why : ~Fail(why)
      BY DEF Fail
    <3>2. CASE RefuseInput \/ Begin \/ RefuseEntry \/ SkipDirectory \/ OpenEntry
      BY <3>1, <3>2 DEF RefuseInput, Begin, RefuseEntry, SkipDirectory, OpenEntry
    <3>3. CASE ReadChunk \/ ReadTooMuch \/ ReadEnd \/ KeepPage \/ DropOther \/ RefuseImage
      BY <3>1, <3>3 DEF ReadChunk, ReadTooMuch, ReadEnd, KeepPage, DropOther, RefuseImage
    <3>4. CASE EndOfArchive \/ RefuseName \/ NamePage \/ Finish \/ Fault \/ Kill
      BY <3>1, <3>4 DEF EndOfArchive, RefuseName, NamePage, Finish, Fault, Kill
    <3> QED
      BY <2>3, <3>2, <3>3, <3>4 DEF Next
  <2> QED
    BY <2>1, <2>2, <2>3
<1> QED
  BY <1>1, <1>2, ExtractionInductive, PTL DEF Spec

=============================================================================
