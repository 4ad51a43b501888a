---------------------------- MODULE MCExtraction ----------------------------
(* Extraction over archives of at most three entries: all small combinations *)
(* of kinds and sizes; pairs of names; dimensions about the pixel limit; ZIP  *)
(* directories with every single defect; inputs that are refused at once.     *)
EXTENDS Extraction

\* The laws that sort.SliceStable needs, and the meaning of the order, for all
\* names of up to three bytes (".", "0", "1", "9", "A", "a").
Names(n, bytes) == UNION {[1..k -> bytes] : k \in 0..n}

ASSUME OrderIsMeant ==
  \A a, b \in Names(3, {46, 48, 49, 57, 65, 97}) : (NaturalCompare(a, b) = -1) <=> Precedes(a, b)
ASSUME OrderIsTotal ==
  \A a, b \in Names(3, {46, 48, 49, 97}) :
    NaturalCompare(a, b) = -NaturalCompare(b, a) /\ (NaturalCompare(a, b) = 0 <=> a = b)
ASSUME OrderIsTransitive ==
  \A a, b, c \in Names(2, {46, 48, 49, 65, 97}) :
    NaturalCompare(a, b) = -1 /\ NaturalCompare(b, c) = -1 => NaturalCompare(a, c) = -1

Plain == [kind |-> "file", size |-> 1, name |-> <<97>>, image |-> "page", width |-> 1, height |-> 1,
          told |-> 3]
Dir == [Plain EXCEPT !.kind = "dir", !.size = 0, !.image = "other"]

Headers(fields) ==
  LET offset[i \in 1..(Len(fields) + 1)] == IF i = 1 THEN 40 ELSE offset[i - 1] + HeaderSize(fields[i - 1])
      field(o) == CHOOSE i \in 1..Len(fields) : offset[i] = o
  IN  [o \in {offset[i] : i \in 1..Len(fields)} |-> fields[field(o)]]

DirectorySize(fields) == MapThenSumSet(LAMBDA i : HeaderSize(fields[i]), DOMAIN fields)

\* A ZIP file in order: 40 bytes of data, the directory, the end record.
ZipFile(content, fields, comment) ==
  [input |-> "regular", form |-> "zip", entries |-> content, headers |-> Headers(fields),
   end |-> [size |-> 40 + DirectorySize(fields) + 22 + comment, tail |-> 22 + comment,
            comment |-> comment, saturated |-> FALSE, locator |-> FALSE, disks |-> "one",
            count |-> Len(fields), directorySize |-> DirectorySize(fields), directoryOffset |-> 40]]

Rar(content) == [ZipFile(<<>>, <<>>, 0) EXCEPT !.form = "rar", !.entries = content]
ZipOf(content) == ZipFile(content, [i \in DOMAIN content |-> [fields |-> i, disk |-> 0]], 0)

\* Sizes reach one byte beyond the page limit, and two or three files beyond
\* the total.
SmallEntry ==
  {[Dir EXCEPT !.kind = k] : k \in {"dir", "link", "locked"}}
    \cup {[Plain EXCEPT !.size = n] : n \in 1..3}
    \cup {[Plain EXCEPT !.size = n, !.image = m] : n \in 0..3, m \in {"other", "bad"}}
Limited == UNION {[1..n -> SmallEntry] : n \in 0..3}

\* a, A, 2, 02, 10 and a2.
Named ==
  [1..2 -> {[Plain EXCEPT !.name = n] : n \in {<<97>>, <<65>>, <<50>>, <<48, 50>>, <<49, 48>>, <<97, 50>>}}]

Dimensioned == {<<[Plain EXCEPT !.width = w, !.height = h]>> : w, h \in 0..5}

\* Results of 9, 10 and 11 bytes and more: the bound is 10, and what is no page
\* does not count.
Told ==
  LET told == {[Plain EXCEPT !.told = n] : n \in {4, 5, 8, 9}}
  IN  [1..1 -> told] \cup [1..2 -> told \cup {[Dir EXCEPT !.told = 9]}]

\* One defect, or one more header than the limit, at a time.
Defects(z) ==
  {[z EXCEPT !.end.tail = NoEnd], [z EXCEPT !.end.comment = @ + 1], [z EXCEPT !.end.saturated = TRUE],
   [z EXCEPT !.end.locator = TRUE], [z EXCEPT !.end.disks = "many"], [z EXCEPT !.end.size = 21]}
    \cup {[z EXCEPT !.end.count = n] : n \in 0..3}
    \cup {[z EXCEPT !.end.directoryOffset = o, !.end.directorySize = n] :
            o \in {39, 40, 41, 86, 87}, n \in {z.end.directorySize, EndOffset(z.end) - 41} \cap Nat}
    \cup {[z EXCEPT !.headers = [o \in DOMAIN @ \ {d} |-> @[o]]] : d \in DOMAIN z.headers}
    \cup {[z EXCEPT !.headers[d].disk = 1] : d \in DOMAIN z.headers}
    \cup {[z EXCEPT !.headers[d].fields = @ + 1] : d \in DOMAIN z.headers}

Directories ==
  LET fields(n) == [i \in 1..n |-> [fields |-> i, disk |-> 0]]
      damaged == UNION {Defects(ZipFile(<<>>, fields(n), c)) : n \in 0..3, c \in {0, 3}}
  IN  {[z EXCEPT !.entries = [i \in 1..LibraryHeaders(z.end, z.headers) |-> Dir]] : z \in damaged}

Inputs ==
  {[Rar(<<Plain>>) EXCEPT !.input = "irregular"], [Rar(<<Plain>>) EXCEPT !.form = "unknown"],
   [Rar(<<Plain>>) EXCEPT !.end.size = MaxArchiveBytes], [Rar(<<Plain>>) EXCEPT !.end.size = MaxArchiveBytes + 1]}

SmallArchives ==
  {Rar(e) : e \in Limited} \cup {ZipOf(e) : e \in Named \cup Dimensioned \cup Told} \cup Directories \cup Inputs
=============================================================================
