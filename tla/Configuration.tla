---------------------------- MODULE Configuration ----------------------------
(***************************************************************************)
(* How the numbers of the admin's connection entry become the limits that  *)
(* the plugin and its extractor child enforce: internal/silo/config.go,    *)
(* the command line of internal/silo/extractor.go and main.go, and         *)
(* normalizeLimits of internal/archive/archive.go.  All of it is without   *)
(* state: an operator says which configurations may come out.              *)
(***************************************************************************)
EXTENDS Integers, Sequences, SequencesExt

Limit == {"entries", "page", "total", "archive", "dictionary"}
Readable == Limit \cup {"cache"}
Setting == Readable \cup {"ttl"}

CONSTANTS
  Default,         \* setting -> its default in config.go
  Least, Most,     \* setting -> its bounds in config.go
  ChildDefault,    \* limit -> its default in archive.go
  MaxDictionary,   \* maxRARDictionaryBytes
  Saturated,       \* an int64 that a number beyond int64 may convert to and from
  Refused          \* what becomes of a configuration with an error

ASSUME TablesAssumption ==
  /\ Default \in [Setting -> Nat] /\ Least \in [Setting -> Nat \ {0}] /\ Most \in [Setting -> Nat]
  /\ \A s \in Setting : Default[s] \in Least[s]..Most[s]
  /\ ChildDefault \in [Limit -> Nat \ {0}]
  /\ MaxDictionary \in Nat /\ Most["dictionary"] <= MaxDictionary
  /\ Saturated \in Nat /\ \A s \in Setting : Saturated > Most[s]
  /\ Refused \notin Int

\* A field of the entry: a number, if it is one, is integral, or it is not, or
\* it does not fit int64.
Field ==
  [type: {"absent", "integer", "fraction", "wide", "other"}, number: Int]

\* A URL by what validateBaseURL asks of it.
Url ==
  [scheme: {"http", "https", "other"}, host: {"none", "loopback", "named"},
   user: BOOLEAN, query: BOOLEAN, path: {"none", "slash", "long"}]

Connection ==
  [base: {"absent", "blank", "url"}, url: Url, dir: {"absent", "blank", "root", "path"},
   unknown: BOOLEAN, fields: [Readable -> Field]]

-----------------------------------------------------------------------------
\* validateBaseURL: an origin, over TLS unless it is this host.
ValidateBaseURL(url) ==
  /\ url.scheme \in {"http", "https"} /\ url.host # "none" /\ ~url.user
  /\ ~url.query /\ url.path # "long"
  /\ url.scheme = "http" => url.host = "loopback"

NormalizeNumbers(numbers) ==
  [s \in Setting |-> IF numbers[s] = 0 THEN Default[s] ELSE numbers[s]]

\* normalizeConfig: 0 stands for the default, and nothing is cut to a bound.
NormalizeConfig(config) ==
  LET numbers == NormalizeNumbers(config.numbers) IN
  IF ValidateBaseURL(config.url) /\ config.dir \notin {"blank", "root"}
     /\ \A s \in Setting : numbers[s] \in Least[s]..Most[s]
  THEN [url |-> [config.url EXCEPT !.path = "none"], dir |-> config.dir, numbers |-> numbers]
  ELSE Refused

\* readInt, of a field that the conversion to int64 and back may leave as it was
\* although it does not fit.
ReadInt(field, current, survives) ==
  IF field.type = "absent" THEN current
  ELSE IF field.type = "integer" THEN field.number
  ELSE IF field.type = "wide" /\ survives THEN Saturated ELSE Refused

\* What the fields may be read as; no field is read into the time to live.
ReadNumbers(fields) ==
  {[s \in Setting |-> IF s \in Readable THEN ReadInt(fields[s], Default[s], s \in surviving)
                      ELSE Default[s]] :
     surviving \in SUBSET {s \in Readable : fields[s].type = "wide"}}

\* The configuration of numbers that were read; one error is enough.
Configured(c, numbers) ==
  IF \E s \in Readable : numbers[s] = Refused THEN Refused
  ELSE NormalizeConfig([url |-> c.url, dir |-> c.dir, numbers |-> numbers])

\* What becomes of a connection.
ReadConnection(c) ==
  IF c.base # "url" \/ c.dir \in {"absent", "blank"} \/ c.unknown THEN {Refused}
  ELSE {Configured(c, n) : n \in ReadNumbers(c.fields)}

\* ConfigFromEntries: nil entries are skipped; there must be one of the others,
\* with the only key that is known, and a value.
ConfigFromEntries(entries) ==
  LET given == SelectSeq(entries, LAMBDA e : ~e.nil) IN
  IF Len(given) # 1 \/ (\E i \in DOMAIN given : given[i].key # "connection" \/ ~given[i].valued)
  THEN {Refused} ELSE ReadConnection(given[1].value)

-----------------------------------------------------------------------------
\* What runExtractorChild puts on the command line and runExtractCommand takes
\* from it: a flag that is left out is 0.
CommandLine(numbers) == [l \in Limit |-> numbers[l]]

\* normalizeLimits, in the child.
NormalizeLimits(limits) ==
  LET filled == [l \in Limit |-> IF limits[l] = 0 THEN ChildDefault[l] ELSE limits[l]] IN
  IF (\A l \in Limit : filled[l] >= 1) /\ filled["dictionary"] <= MaxDictionary
  THEN filled ELSE Refused

-----------------------------------------------------------------------------
\* What a connection says of a setting; an explicit 0 says nothing.
Meant(field, s) == IF field.type = "absent" \/ field.number = 0 THEN Default[s] ELSE field.number

\* An accepted configuration has the numbers that were asked for, all of them
\* numbers, and all of them within their bounds; none is cut or wrapped to fit.
AcceptedAsMeant(c) ==
  \A config \in ReadConnection(c) \ {Refused} :
    /\ \A s \in Setting : config.numbers[s] \in Least[s]..Most[s]
    /\ \A s \in Readable : /\ c.fields[s].type \in {"absent", "integer"}
                           /\ config.numbers[s] = Meant(c.fields[s], s)

\* Configure normalizes what ConfigFromEntries has normalized: nothing changes.
NormalizedOnce(c) ==
  \A config \in ReadConnection(c) \ {Refused} : NormalizeConfig(config) = config

\* The child enforces the limits that the plugin has accepted, and accepts them.
ChildLimited(c) ==
  \A config \in ReadConnection(c) \ {Refused} :
    NormalizeLimits(CommandLine(config.numbers)) = [l \in Limit |-> config.numbers[l]]
=============================================================================
