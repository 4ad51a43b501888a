---------------------------- MODULE ZipPreflight ----------------------------
(***************************************************************************)
(* internal/archive/zip_preflight.go: the scan of a ZIP file's end record  *)
(* and central directory before the library that allocates memory for each *)
(* directory header sees it.                                               *)
(*                                                                         *)
(* Of the file only what the scan reads is kept: the end record, and the   *)
(* headers by the offset they are at.  Everything is in bytes.             *)
(***************************************************************************)
EXTENDS Integers, FiniteSets

zipEOCDSize == 22
zipCDSize == 46

\* tail is what follows the last end record signature, the record included;
\* NoEnd if there is none where it may be.
NoEnd == -1

EndRecord ==
  [size: Nat, tail: Nat \cup {NoEnd}, comment: Nat, saturated: BOOLEAN, locator: BOOLEAN,
   disks: {"one", "many"}, count: Nat, directorySize: Nat, directoryOffset: Nat]

\* A header's length without its fixed part, and the disk it speaks of.
Header == [fields: Nat, disk: Nat]

EndOffset(end) == end.size - end.tail

HeaderSize(header) == zipCDSize + header.fields

\* Mutant: the count of the end record is taken for the number of headers.
WalkTrusting(end, headers, maxEntries) == "ok"

\* The walk over the directory, one header at a time.
Walk(end, headers, maxEntries) ==
  LET endOffset == EndOffset(end)
      from[at \in Nat \X (0..maxEntries)] ==
        LET offset == at[1]
            actual == at[2]
        IN
        IF offset >= endOffset THEN IF actual = end.count THEN "ok" ELSE "corrupt"
        ELSE IF endOffset - offset < zipCDSize \/ offset \notin DOMAIN headers THEN "corrupt"
        ELSE IF actual + 1 > maxEntries THEN "entries"
        ELSE IF headers[offset].disk # 0 THEN "unsupported"
        ELSE IF HeaderSize(headers[offset]) > endOffset - offset THEN "corrupt"
        ELSE from[<<offset + HeaderSize(headers[offset]), actual + 1>>]
  IN  from[<<end.directoryOffset, 0>>]

PreflightZIP(end, headers, maxEntries) ==
  IF end.size < zipEOCDSize \/ end.tail = NoEnd THEN "corrupt"
  ELSE IF zipEOCDSize + end.comment # end.tail THEN "corrupt"
  ELSE IF end.saturated \/ end.locator \/ end.disks = "many" THEN "unsupported"
  ELSE IF end.count > maxEntries THEN "entries"
  ELSE IF end.directoryOffset > EndOffset(end)
          \/ end.directorySize # EndOffset(end) - end.directoryOffset THEN "corrupt"
  ELSE Walk(end, headers, maxEntries)

-----------------------------------------------------------------------------
\* archive/zip appends headers until one does not parse, whatever the count
\* and size in the end record say: how many it allocates.
LibraryHeaders(end, headers) ==
  LET from[offset \in Nat] ==
        IF offset \notin DOMAIN headers THEN 0 ELSE 1 + from[offset + HeaderSize(headers[offset])]
  IN  from[end.directoryOffset]

\* The reference: the file ends with its end record, which speaks of one disk,
\* and the headers between the directory's offset and the record tile it.
Tiles(end, headers, S) ==
  /\ end.directoryOffset \in S \cup {EndOffset(end)}
  /\ \A o \in S : o >= end.directoryOffset /\ headers[o].disk = 0
                  /\ o + HeaderSize(headers[o]) \in S \cup {EndOffset(end)}
  /\ \A o \in S : o = end.directoryOffset \/ \E p \in S : p + HeaderSize(headers[p]) = o

WellFormedZIP(end, headers, maxEntries) ==
  /\ end.tail # NoEnd /\ end.size >= zipEOCDSize /\ end.tail = zipEOCDSize + end.comment
  /\ ~end.saturated /\ ~end.locator /\ end.disks = "one"
  /\ end.directoryOffset + end.directorySize = EndOffset(end)
  /\ \E S \in SUBSET {o \in DOMAIN headers : o < EndOffset(end)} :
       Cardinality(S) = end.count /\ end.count <= maxEntries /\ Tiles(end, headers, S)
=============================================================================
