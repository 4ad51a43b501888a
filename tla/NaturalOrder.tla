---------------------------- MODULE NaturalOrder ----------------------------
(***************************************************************************)
(* The order of page names: naturalCompare of internal/archive/archive.go, *)
(* translated as it is written, and the order it is meant to be.  A name   *)
(* is the sequence of its bytes.                                           *)
(***************************************************************************)
EXTENDS Integers, Sequences, FiniteSetsExt

Zero == 48

IsDigit(c) == c \in Zero..57

\* strings.ToLower, where the capital letters of a name are ASCII.
LowerByte(c) == IF c \in 65..90 THEN c + 32 ELSE c
Lower(name) == [i \in DOMAIN name |-> LowerByte(name[i])]

Sign(m, n) == IF m < n THEN -1 ELSE IF m > n THEN 1 ELSE 0

\* strings.Compare.
Compare(a, b) ==
  LET differ == {i \in DOMAIN a \cap DOMAIN b : a[i] # b[i]} IN
  IF differ = {} THEN Sign(Len(a), Len(b)) ELSE Sign(a[Min(differ)], b[Min(differ)])

\* The first position after the run of digits that starts at i.
RunEnd(name, i) == Min({j \in i..Len(name) : ~IsDigit(name[j])} \cup {Len(name) + 1})

\* The run from i to before j, without leading zeros.
Trimmed(name, i, j) ==
  LET first == Min({k \in i..(j - 1) : name[k] # Zero} \cup {j}) IN SubSeq(name, first, j - 1)

NaturalCompare(a, b) ==
  LET aa == Lower(a)
      bb == Lower(b)
      Numbers(i, j, k, l) ==
        LET an == Trimmed(aa, i, k)
            bn == Trimmed(bb, j, l)
        IN  IF Len(an) # Len(bn) THEN Sign(Len(an), Len(bn))
            ELSE IF Compare(an, bn) # 0 THEN Compare(an, bn) ELSE Sign(k - i, l - j)
      from[at \in (1..(Len(aa) + 1)) \X (1..(Len(bb) + 1))] ==
        LET i == at[1]
            j == at[2]
        IN
        IF i > Len(aa) \/ j > Len(bb)
        THEN IF Len(aa) # Len(bb) THEN Sign(Len(aa), Len(bb)) ELSE Compare(a, b)
        ELSE IF IsDigit(aa[i]) /\ IsDigit(bb[j])
        THEN LET k == RunEnd(aa, i)
                 l == RunEnd(bb, j)
             IN  IF Numbers(i, j, k, l) # 0 THEN Numbers(i, j, k, l) ELSE from[<<k, l>>]
        ELSE IF aa[i] # bb[j] THEN Sign(aa[i], bb[j]) ELSE from[<<i + 1, j + 1>>]
  IN  from[<<1, 1>>]

-----------------------------------------------------------------------------
(* The reference: a name is a sequence of letters and numbers, the first   *)
(* of them in which two names differ decides, and numbers are compared as  *)
(* numbers.                                                                *)

\* The value of the run of digits from i to before j.
Value(name, i, j) ==
  LET upTo[k \in (i - 1)..(j - 1)] == IF k = i - 1 THEN 0 ELSE 10 * upTo[k - 1] + name[k] - Zero
  IN  upTo[j - 1]

\* Where letters and numbers begin; each is the bytes up to the next beginning.
Begins(name) ==
  {i \in DOMAIN name : i > 1 => ~(IsDigit(name[i - 1]) /\ IsDigit(name[i]))} \cup {Len(name) + 1}
Token(name, i) ==
  IF i > Len(name) THEN <<>> ELSE SubSeq(name, i, IF IsDigit(name[i]) THEN RunEnd(name, i) - 1 ELSE i)

\* No token comes before any, a number before a longer one of the same value.
TokenPrecedes(s, t) ==
  \/ s = <<>> /\ t # <<>>
  \/ /\ s # <<>> /\ t # <<>>
     /\ IF IsDigit(s[1]) /\ IsDigit(t[1])
        THEN LET m == Value(s, 1, Len(s) + 1)
                 n == Value(t, 1, Len(t) + 1)
             IN  m < n \/ (m = n /\ Len(s) < Len(t))
        ELSE s[1] < t[1]

\* Letters count without their case, unless nothing else tells the names apart.
Precedes(a, b) ==
  LET aa == Lower(a)
      bb == Lower(b)
  IN  \/ \E i \in Begins(aa) \cap Begins(bb) :
           /\ SubSeq(aa, 1, i - 1) = SubSeq(bb, 1, i - 1)
           /\ TokenPrecedes(Token(aa, i), Token(bb, i))
      \/ aa = bb /\ Compare(a, b) = -1
=============================================================================
