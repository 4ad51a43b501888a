------------------------ MODULE ConfigurationProofs ------------------------
(***************************************************************************)
(* Proofs about Configuration, for any numbers in a connection and any     *)
(* tables of defaults and bounds that fit together.                        *)
(***************************************************************************)
EXTENDS Configuration, TLAPS

\* A configuration that is accepted comes from numbers that were read.
LEMMA AcceptedFrom ==
  ASSUME NEW c \in Connection, NEW config \in ReadConnection(c), config # Refused
  PROVE  \E n \in ReadNumbers(c.fields) :
           /\ \A s \in Readable : n[s] # Refused
           /\ config = NormalizeConfig([url |-> c.url, dir |-> c.dir, numbers |-> n])
  BY DEF ReadConnection, Configured

\* What is read from a field and accepted.
LEMMA ReadFrom ==
  ASSUME NEW fields, NEW n \in ReadNumbers(fields), NEW s \in Readable, n[s] # Refused
  PROVE  \/ fields[s].type = "absent" /\ n[s] = Default[s]
         \/ fields[s].type = "integer" /\ n[s] = fields[s].number
         \/ n[s] = Saturated
<1>1. PICK surviving : n[s] = ReadInt(fields[s], Default[s], s \in surviving)
  BY DEF ReadNumbers, Setting
<1> QED
  BY <1>1 DEF ReadInt

\* What a configuration that is accepted looks like.
LEMMA Normal ==
  ASSUME NEW config, NormalizeConfig(config) # Refused
  PROVE  /\ NormalizeConfig(config) =
              [url |-> [config.url EXCEPT !.path = "none"], dir |-> config.dir,
               numbers |-> NormalizeNumbers(config.numbers)]
         /\ \A s \in Setting : NormalizeNumbers(config.numbers)[s] \in Least[s]..Most[s]
         /\ ValidateBaseURL(config.url) /\ config.dir \notin {"blank", "root"}
  BY DEF NormalizeConfig

\* An accepted configuration has the numbers that were asked for.
THEOREM AcceptedIsMeant == \A c \in Connection : AcceptedAsMeant(c)
<1> SUFFICES ASSUME NEW c \in Connection, NEW config \in ReadConnection(c), config # Refused
             PROVE  /\ \A s \in Setting : config.numbers[s] \in Least[s]..Most[s]
                    /\ \A s \in Readable : /\ c.fields[s].type \in {"absent", "integer"}
                                           /\ config.numbers[s] = Meant(c.fields[s], s)
  BY DEF AcceptedAsMeant
<1>1. PICK n \in ReadNumbers(c.fields) :
        /\ \A s \in Readable : n[s] # Refused
        /\ config = NormalizeConfig([url |-> c.url, dir |-> c.dir, numbers |-> n])
  BY AcceptedFrom
<1>2. config.numbers = NormalizeNumbers(n)
      /\ \A s \in Setting : NormalizeNumbers(n)[s] \in Least[s]..Most[s]
  BY <1>1, Normal
<1>3. ASSUME NEW s \in Readable
      PROVE  /\ c.fields[s].type \in {"absent", "integer"}
             /\ config.numbers[s] = Meant(c.fields[s], s)
  <2>1. s \in Setting /\ c.fields[s] \in Field /\ Default[s] \in Int /\ Saturated \in Nat
        /\ Saturated > Most[s] /\ Least[s] \in Nat \ {0} /\ Most[s] \in Nat
    BY TablesAssumption DEF Connection, Setting
  <2>2. n[s] # Refused
    BY <1>1
  <2>3. NormalizeNumbers(n)[s] = IF n[s] = 0 THEN Default[s] ELSE n[s]
    BY <2>1 DEF NormalizeNumbers
  <2>4. NormalizeNumbers(n)[s] \in Least[s]..Most[s]
    BY <1>2, <2>1
  <2>5. n[s] # Saturated
    BY <2>1, <2>3, <2>4
  <2>6. \/ c.fields[s].type = "absent" /\ n[s] = Default[s]
        \/ c.fields[s].type = "integer" /\ n[s] = c.fields[s].number
    BY <1>1, <2>2, <2>5, ReadFrom
  <2> QED
    BY <1>2, <2>1, <2>3, <2>6 DEF Meant
<1> QED
  BY <1>2, <1>3

\* Normalizing a second time changes nothing.
THEOREM NormalizingAgain == \A c \in Connection : NormalizedOnce(c)
<1> SUFFICES ASSUME NEW c \in Connection, NEW config \in ReadConnection(c), config # Refused
             PROVE  NormalizeConfig(config) = config
  BY DEF NormalizedOnce
<1>1. PICK n \in ReadNumbers(c.fields) :
        config = NormalizeConfig([url |-> c.url, dir |-> c.dir, numbers |-> n])
  BY AcceptedFrom
<1> DEFINE url == [c.url EXCEPT !.path = "none"]
           numbers == NormalizeNumbers(n)
<1>2. /\ config = [url |-> url, dir |-> c.dir, numbers |-> numbers]
      /\ \A s \in Setting : numbers[s] \in Least[s]..Most[s]
      /\ ValidateBaseURL(c.url) /\ c.dir \notin {"blank", "root"}
  BY <1>1, Normal
<1>3. c.url \in Url
  BY DEF Connection
<1>4. ValidateBaseURL(url) /\ [url EXCEPT !.path = "none"] = url
  BY <1>2, <1>3 DEF ValidateBaseURL, Url
<1>5. NormalizeNumbers(numbers) = numbers
  <2>1. \A s \in Setting : numbers[s] # 0
    BY <1>2, TablesAssumption
  <2> QED
    BY <2>1 DEF NormalizeNumbers
<1> HIDE DEF url, numbers
<1>6. config.url = url /\ config.dir = c.dir /\ config.numbers = numbers
  BY <1>2
<1> QED
  BY <1>2, <1>4, <1>5, <1>6 DEF NormalizeConfig

\* The extractor child works with the limits of the configuration.
THEOREM ChildIsLimited == \A c \in Connection : ChildLimited(c)
<1> SUFFICES ASSUME NEW c \in Connection, NEW config \in ReadConnection(c), config # Refused
             PROVE  NormalizeLimits(CommandLine(config.numbers))
                      = [l \in Limit |-> config.numbers[l]]
  BY DEF ChildLimited
<1> DEFINE limits == CommandLine(config.numbers)
<1>1. \A s \in Setting : config.numbers[s] \in Least[s]..Most[s]
  BY AcceptedIsMeant DEF AcceptedAsMeant
<1>2. \A l \in Limit : limits[l] = config.numbers[l] /\ limits[l] \in Least[l]..Most[l]
                       /\ Least[l] \in Nat \ {0} /\ Most[l] \in Nat
  BY <1>1, TablesAssumption DEF CommandLine, Limit, Setting, Readable
<1>3. \A l \in Limit : limits[l] >= 1 /\ limits[l] # 0
  BY <1>2
<1>4. limits["dictionary"] <= MaxDictionary
  BY <1>2, TablesAssumption DEF Limit
<1>5. [l \in Limit |-> IF limits[l] = 0 THEN ChildDefault[l] ELSE limits[l]]
        = [l \in Limit |-> config.numbers[l]]
  BY <1>2, <1>3
<1> HIDE DEF limits
<1>6. \A l \in Limit : [k \in Limit |-> config.numbers[k]][l] >= 1
  BY <1>2, <1>3
<1>7. [k \in Limit |-> config.numbers[k]]["dictionary"] <= MaxDictionary
  BY <1>2, <1>4 DEF Limit
<1> QED
  BY <1>5, <1>6, <1>7 DEF NormalizeLimits, limits
=============================================================================
