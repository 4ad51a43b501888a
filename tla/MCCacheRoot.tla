----------------------------- MODULE MCCacheRoot -----------------------------
(* CacheRoot with small sets for TLC, and what Configuration makes of small  *)
(* connections before a cache directory is opened.                           *)
EXTENDS CacheRoot, Configuration, TLC

Symmetry == Permutations(Proc) \cup Permutations(Dir)

SmallDefault == [s \in Setting |-> 2]
SmallLeast == [s \in Setting |-> 1]
SmallMost == [s \in Setting |-> IF s \in {"cache", "ttl"} THEN 3 ELSE 2]
SmallChildDefault == [l \in Limit |-> 3]

Absent == [type |-> "absent", number |-> 0]
Integer(n) == [type |-> "integer", number |-> n]
AnyField == {Absent} \cup {Integer(n) : n \in -1..4} \cup {[Absent EXCEPT !.type = t] : t \in {"fraction", "wide", "other"}}

Plain ==
  [base |-> "url", dir |-> "path", unknown |-> FALSE, fields |-> [s \in Readable |-> Absent],
   url |-> [scheme |-> "https", host |-> "named", user |-> FALSE, query |-> FALSE, path |-> "slash"]]

\* Any URL and directory; or a few values in every field, or any in two of them.
SmallConnections ==
  {[Plain EXCEPT !.url = u, !.base = b, !.dir = d, !.unknown = x] :
     u \in Url, b \in {"absent", "url"}, d \in {"blank", "root", "path"}, x \in BOOLEAN}
    \cup {[Plain EXCEPT !.fields = f] :
            f \in [Readable -> {Absent, Integer(0), Integer(1), [Absent EXCEPT !.type = "wide"]}]}
    \cup {[Plain EXCEPT !.fields[s] = v, !.fields[t] = w] :
            s, t \in Readable, v, w \in AnyField}

ASSUME ConfigurationIsMeant ==
  \A c \in SmallConnections : AcceptedAsMeant(c) /\ NormalizedOnce(c) /\ ChildLimited(c)

\* Connections are accepted, the one without numbers with the defaults; an entry
\* list with anything but one connection is not.
ASSUME ConfigurationIsPossible ==
  LET entry == [nil |-> FALSE, key |-> "connection", valued |-> TRUE, value |-> Plain]
      nil == [entry EXCEPT !.nil = TRUE]
  IN  /\ {c.numbers : c \in ConfigFromEntries(<<nil, entry>>)} = {SmallDefault}
      /\ \A s \in {<<>>, <<nil>>, <<entry, entry>>, <<[entry EXCEPT !.key = "other"]>>,
                   <<[entry EXCEPT !.valued = FALSE]>>} : ConfigFromEntries(s) = {Refused}
=============================================================================
