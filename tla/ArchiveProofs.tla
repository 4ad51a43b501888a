---------------------------- MODULE ArchiveProofs ----------------------------
(***************************************************************************)
(* Proofs about the two algorithms of an extraction that look at no        *)
(* variable: the order of page names of NaturalOrder, for all names, and   *)
(* the scan of a ZIP directory of ZipPreflight, for all files and limits.  *)
(***************************************************************************)
EXTENDS NaturalOrder, ZipPreflight, DataLemmas, SequenceTheorems

Text == Seq(0..255)

-----------------------------------------------------------------------------
(* The order of bytes, strings.Compare.                                    *)

Agree(a, b, n) == \A i \in 1..(n - 1) : a[i] = b[i]

\* What is known of a text.
LEMMA TextBytes ==
  ASSUME NEW a \in Text
  PROVE  /\ Len(a) \in Nat /\ DOMAIN a = 1..Len(a)
         /\ \A i \in 1..Len(a) : a[i] \in Nat /\ a[i] <= 255
<1>1. Len(a) \in Nat /\ DOMAIN a = 1..Len(a)
  BY LenProperties DEF Text
<1>2. ASSUME NEW i \in 1..Len(a) PROVE a[i] \in Nat /\ a[i] <= 255
  <2>1. a[i] \in 0..255
    BY ElementOfSeq DEF Text
  <2>2. \A v \in 0..255 : v \in Nat /\ v <= 255
    OBVIOUS
  <2> QED
    BY <2>1, <2>2
<1> QED
  BY <1>1, <1>2

\* What a sign says.
LEMMA SignIs ==
  ASSUME NEW m \in Int, NEW n \in Int
  PROVE  /\ Sign(m, n) \in {-1, 0, 1}
         /\ Sign(m, n) = -1 <=> m < n
         /\ Sign(m, n) = 0 <=> m = n
         /\ Sign(m, n) = 1 <=> m > n
  BY DEF Sign

\* Two texts differ somewhere first, or one continues the other.
LEMMA CompareCases ==
  ASSUME NEW a \in Text, NEW b \in Text
  PROVE  \/ \E d \in 1..Len(a) : /\ d <= Len(b) /\ a[d] # b[d] /\ Agree(a, b, d)
                                 /\ Compare(a, b) = Sign(a[d], b[d])
         \/ /\ \A i \in 1..Len(a) : i <= Len(b) => a[i] = b[i]
            /\ Compare(a, b) = Sign(Len(a), Len(b))
<1> DEFINE differ == {i \in DOMAIN a \cap DOMAIN b : a[i] # b[i]}
<1>1. /\ DOMAIN a = 1..Len(a) /\ DOMAIN b = 1..Len(b)
      /\ Len(a) \in Nat /\ Len(b) \in Nat
  BY TextBytes
<1>2. CASE differ = {}
  <2>1. Compare(a, b) = Sign(Len(a), Len(b))
    BY <1>2 DEF Compare
  <2> QED
    BY <1>1, <1>2, <2>1
<1>3. CASE differ # {}
  <2>1. differ \in SUBSET Nat
    BY <1>1
  <2> HIDE DEF differ
  <2>2. Min(differ) \in differ /\ \A y \in differ : Min(differ) <= y
    BY <1>3, <2>1, MinNat
  <2>3. Compare(a, b) = Sign(a[Min(differ)], b[Min(differ)])
    BY <1>3 DEF Compare, differ
  <2> DEFINE d == Min(differ)
  <2> HIDE DEF d
  <2>4. d \in differ /\ \A y \in differ : d <= y
    BY <2>2 DEF d
  <2>5. d \in 1..Len(a) /\ d <= Len(b) /\ a[d] # b[d]
    BY <1>1, <2>4 DEF differ
  <2>6. Agree(a, b, d)
    BY <1>1, <2>4, <2>5 DEF differ, Agree
  <2> QED
    BY <2>3, <2>5, <2>6 DEF d
<1> QED
  BY <1>2, <1>3

\* One text is before another where they differ first, or where it ends.
Smaller(x, y) ==
  \E d \in Nat \ {0} :
    /\ d <= Len(x) + 1 /\ d <= Len(y) /\ Agree(x, y, d)
    /\ d = Len(x) + 1 \/ (d <= Len(x) /\ x[d] < y[d])

LEMMA CompareIs ==
  ASSUME NEW a \in Text, NEW b \in Text
  PROVE  /\ Compare(a, b) \in {-1, 0, 1}
         /\ Compare(a, b) = -1 <=> Smaller(a, b)
         /\ Compare(a, b) = 0 <=> a = b
         /\ Compare(a, b) = 1 <=> Smaller(b, a)
<1>1. /\ Len(a) \in Nat /\ Len(b) \in Nat
      /\ \A i \in 1..Len(a) : a[i] \in Nat /\ a[i] <= 255
      /\ \A i \in 1..Len(b) : b[i] \in Nat /\ b[i] <= 255
  BY TextBytes
<1>2. CASE \E d \in 1..Len(a) : /\ d <= Len(b) /\ a[d] # b[d] /\ Agree(a, b, d)
                                /\ Compare(a, b) = Sign(a[d], b[d])
  <2>1. PICK d \in 1..Len(a) : /\ d <= Len(b) /\ a[d] # b[d] /\ Agree(a, b, d)
                               /\ Compare(a, b) = Sign(a[d], b[d])
    BY <1>2
  <2>2. d \in Nat \ {0} /\ d <= Len(a) /\ a[d] \in Int /\ b[d] \in Int
    BY <1>1, <2>1
  <2>3. ASSUME NEW e \in Nat \ {0}, e <= Len(a) + 1, e <= Len(b), Agree(a, b, e) PROVE e <= d
    BY <1>1, <2>1, <2>2, <2>3 DEF Agree
  <2>4. ASSUME NEW e \in Nat \ {0}, e <= Len(b) + 1, e <= Len(a), Agree(b, a, e) PROVE e <= d
    BY <1>1, <2>1, <2>2, <2>4 DEF Agree
  <2>5. ASSUME NEW e \in Nat \ {0}, e <= Len(a) + 1, e <= Len(b), Agree(a, b, e),
               e = Len(a) + 1 \/ (e <= Len(a) /\ a[e] < b[e])
        PROVE  a[d] < b[d]
    BY <1>1, <2>1, <2>2, <2>3, <2>5 DEF Agree
  <2>6. ASSUME NEW e \in Nat \ {0}, e <= Len(b) + 1, e <= Len(a), Agree(b, a, e),
               e = Len(b) + 1 \/ (e <= Len(b) /\ b[e] < a[e])
        PROVE  b[d] < a[d]
    BY <1>1, <2>1, <2>2, <2>4, <2>6 DEF Agree
  <2>7. Agree(b, a, d)
    BY <2>1 DEF Agree
  <2>8. Smaller(a, b) <=> a[d] < b[d]
    <3>1. a[d] < b[d] => Smaller(a, b)
      BY <1>1, <2>1, <2>2 DEF Smaller
    <3> QED
      BY <3>1, <2>5 DEF Smaller
  <2>9. Smaller(b, a) <=> b[d] < a[d]
    <3>1. b[d] < a[d] => Smaller(b, a)
      BY <1>1, <2>1, <2>2, <2>7 DEF Smaller
    <3> QED
      BY <3>1, <2>6 DEF Smaller
  <2>10. a # b
    BY <2>1
  <2> QED
    BY <2>1, <2>2, <2>8, <2>9, <2>10, SignIs
<1>3. CASE /\ \A i \in 1..Len(a) : i <= Len(b) => a[i] = b[i]
           /\ Compare(a, b) = Sign(Len(a), Len(b))
  <2>1. Smaller(a, b) <=> Len(a) < Len(b)
    <3>1. ASSUME Len(a) < Len(b) PROVE Smaller(a, b)
      <4>1. Len(a) + 1 \in Nat \ {0} /\ Len(a) + 1 <= Len(b) /\ Agree(a, b, Len(a) + 1)
        BY <1>1, <1>3, <3>1 DEF Agree
      <4> QED
        BY <4>1 DEF Smaller
    <3>2. ASSUME Smaller(a, b) PROVE Len(a) < Len(b)
      BY <1>1, <1>3, <3>2 DEF Smaller
    <3> QED
      BY <3>1, <3>2
  <2>2. Smaller(b, a) <=> Len(b) < Len(a)
    <3>1. ASSUME Len(b) < Len(a) PROVE Smaller(b, a)
      <4>1. Len(b) + 1 \in Nat \ {0} /\ Len(b) + 1 <= Len(a) /\ Agree(b, a, Len(b) + 1)
        BY <1>1, <1>3, <3>1 DEF Agree
      <4> QED
        BY <4>1 DEF Smaller
    <3>2. ASSUME Smaller(b, a) PROVE Len(b) < Len(a)
      <4>1. PICK d \in Nat \ {0} : /\ d <= Len(b) + 1 /\ d <= Len(a)
                                   /\ d = Len(b) + 1 \/ (d <= Len(b) /\ b[d] < a[d])
        BY <3>2 DEF Smaller
      <4>2. d <= Len(b) => a[d] = b[d] /\ b[d] \in Int
        BY <1>1, <1>3, <4>1
      <4> QED
        BY <1>1, <4>1, <4>2
    <3> QED
      BY <3>1, <3>2
  <2>3. Len(a) = Len(b) => a = b
    BY <1>1, <1>3, SeqEqual DEF Text
  <2> QED
    BY <1>1, <1>3, <2>1, <2>2, <2>3, SignIs
<1> QED
  BY <1>2, <1>3, CompareCases

\* It is transitive.
LEMMA SmallerTransitive ==
  ASSUME NEW a \in Text, NEW b \in Text, NEW c \in Text, Smaller(a, b), Smaller(b, c)
  PROVE  Smaller(a, c)
<1>1. /\ Len(a) \in Nat /\ Len(b) \in Nat /\ Len(c) \in Nat
      /\ \A i \in 1..Len(a) : a[i] \in Nat /\ a[i] <= 255
      /\ \A i \in 1..Len(b) : b[i] \in Nat /\ b[i] <= 255
      /\ \A i \in 1..Len(c) : c[i] \in Nat /\ c[i] <= 255
  BY TextBytes
<1>2. PICK d \in Nat \ {0} : /\ d <= Len(a) + 1 /\ d <= Len(b) /\ Agree(a, b, d)
                             /\ d = Len(a) + 1 \/ (d <= Len(a) /\ a[d] < b[d])
  BY DEF Smaller
<1>3. PICK e \in Nat \ {0} : /\ e <= Len(b) + 1 /\ e <= Len(c) /\ Agree(b, c, e)
                             /\ e = Len(b) + 1 \/ (e <= Len(b) /\ b[e] < c[e])
  BY DEF Smaller
<1>4. CASE d <= e
  <2>1. Agree(a, c, d) /\ d <= Len(c)
    BY <1>1, <1>2, <1>3, <1>4 DEF Agree
  <2>2. ASSUME d <= Len(a) PROVE a[d] < c[d]
    <3>1. a[d] \in Int /\ b[d] \in Int /\ c[d] \in Int /\ a[d] < b[d]
      BY <1>1, <1>2, <2>1, <2>2
    <3>2. b[d] <= c[d]
      BY <1>1, <1>2, <1>3, <1>4, <3>1 DEF Agree
    <3> QED
      BY <3>1, <3>2
  <2> QED
    BY <1>2, <2>1, <2>2 DEF Smaller
<1>5. CASE e < d
  <2>1. Agree(a, c, e) /\ e <= Len(a) /\ e <= Len(c)
    BY <1>1, <1>2, <1>3, <1>5 DEF Agree
  <2>2. a[e] < c[e]
    BY <1>1, <1>2, <1>3, <1>5 DEF Agree
  <2>3. e <= Len(a) + 1
    BY <1>1, <2>1
  <2> QED
    BY <1>3, <2>1, <2>2, <2>3 DEF Smaller
<1> QED
  BY <1>4, <1>5

-----------------------------------------------------------------------------
(* Numbers: what a run of digits is worth.                                 *)

Digits(s) == \A k \in 1..Len(s) : s[k] \in Nat /\ 48 <= s[k] /\ s[k] <= 57

\* f is what the first digits of s are worth, for each number of them.
Reads(f, s) ==
  /\ \A k \in 0..Len(s) : f[k] \in Nat
  /\ f[0] = 0
  /\ \A k \in 1..Len(s) : f[k] = 10 * f[k - 1] + s[k] - 48

\* The value of a run of digits is read off digit by digit.
LEMMA ValueReads ==
  ASSUME NEW s \in Text, Digits(s)
  PROVE  \E f : Reads(f, s) /\ Value(s, 1, Len(s) + 1) = f[Len(s)]
<1>1. Len(s) \in Nat
  BY TextBytes
<1> DEFINE step == [kv \in Int \X Nat |->
                      IF kv[1] \in 1..Len(s) THEN 10 * kv[2] + s[kv[1]] - Zero ELSE 0]
           Solves(h) == h = [k \in (1 - 1)..((Len(s) + 1) - 1) |->
                               IF k = 1 - 1 THEN 0 ELSE 10 * h[k - 1] + s[k] - Zero]
<1>2. ASSUME NEW k \in Int, NEW v \in Nat PROVE step[<<k, v>>] \in Nat
  <2>1. step[<<k, v>>] = IF k \in 1..Len(s) THEN 10 * v + s[k] - Zero ELSE 0
    OBVIOUS
  <2>2. CASE k \in 1..Len(s)
    <3>1. s[k] \in Nat /\ 48 <= s[k]
      BY <2>2 DEF Digits
    <3> HIDE DEF step
    <3> QED
      BY <2>1, <2>2, <3>1 DEF Zero
  <2>3. CASE k \notin 1..Len(s)
    BY <2>1, <2>3
  <2> QED
    BY <2>2, <2>3
<1> HIDE DEF step
<1>3. PICK h \in [0..Len(s) -> Nat] : Computes(h, Len(s), 0, step)
  <2>1. 0 \in Nat /\ \A k \in Int, v \in Nat : step[<<k, v>>] \in Nat
    BY <1>2
  <2> QED
    BY <1>1, <2>1, RecursionDefined
<1>4. 0..Len(s) = (1 - 1)..((Len(s) + 1) - 1) /\ 1 - 1 = 0
  BY <1>1
<1>5. ASSUME NEW k \in 0..Len(s)
      PROVE  h[k] = IF k = 0 THEN 0 ELSE 10 * h[k - 1] + s[k] - Zero
  <2>1. k \in 0..Len(s)
    BY <1>1
  <2>2. h[k] = IF k = 0 THEN 0 ELSE step[<<k, h[k - 1]>>]
    BY <1>3, <2>1 DEF Computes
  <2>3. CASE k # 0
    <3>1. k - 1 \in 0..Len(s) /\ k \in Int /\ k \in 1..Len(s)
      BY <1>1, <2>3
    <3>2. h[k - 1] \in Nat
      BY <1>3, <3>1
    <3>3. step[<<k, h[k - 1]>>] = 10 * h[k - 1] + s[k] - Zero
      BY <3>1, <3>2 DEF step
    <3> QED
      BY <2>2, <2>3, <3>3
  <2> QED
    BY <2>2, <2>3
<1>6. Solves(h)
  <2>1. h = [k \in 0..Len(s) |-> h[k]]
    BY <1>3
  <2>2. h = [k \in (1 - 1)..((Len(s) + 1) - 1) |-> h[k]]
    BY <1>4, <2>1
  <2>3. \A k \in (1 - 1)..((Len(s) + 1) - 1) :
          h[k] = IF k = 1 - 1 THEN 0 ELSE 10 * h[k - 1] + s[k] - Zero
    BY <1>1, <1>5
  <2> QED
    BY <2>2, <2>3
<1>7. Value(s, 1, Len(s) + 1) = (CHOOSE g : Solves(g))[(Len(s) + 1) - 1]
  BY Zenon DEF Value
<1> DEFINE g == CHOOSE u : Solves(u)
<1>8. Solves(g)
  BY <1>6
<1> HIDE DEF g
<1>9. \A k \in (1 - 1)..((Len(s) + 1) - 1) :
        g[k] = IF k = 1 - 1 THEN 0 ELSE 10 * g[k - 1] + s[k] - Zero
  BY <1>8
<1>10. \A k \in 0..Len(s) : g[k] = IF k = 0 THEN 0 ELSE 10 * g[k - 1] + s[k] - Zero
  BY <1>1, <1>9
<1> HIDE DEF Solves
<1> DEFINE T == {k \in Nat : k <= Len(s) => g[k] \in Nat}
<1>11. \A k \in Nat : k \in T
  <2>1. 0 \in T
    BY <1>1, <1>10
  <2>2. ASSUME NEW k \in Nat, k \in T PROVE k + 1 \in T
    <3> SUFFICES ASSUME k + 1 <= Len(s) PROVE g[k + 1] \in Nat
      OBVIOUS
    <3>1. k <= Len(s) /\ k + 1 \in 0..Len(s) /\ k + 1 \in 1..Len(s) /\ (k + 1) - 1 = k /\ k + 1 # 0
      BY <1>1
    <3>2. g[k] \in Nat /\ s[k + 1] \in Nat /\ 48 <= s[k + 1]
      BY <2>2, <3>1 DEF Digits
    <3>3. g[k + 1] = 10 * g[k] + s[k + 1] - Zero
      BY <1>10, <3>1
    <3> QED
      BY <3>2, <3>3 DEF Zero
  <2> HIDE DEF T
  <2> QED
    BY <2>1, <2>2, NatInduct
<1>12. \A k \in 0..Len(s) : g[k] \in Nat
  BY <1>1, <1>11
<1>13. Reads(g, s)
  <2>1. \A k \in 1..Len(s) : k \in 0..Len(s) /\ k # 0
    BY <1>1
  <2> QED
    BY <1>1, <1>10, <1>12, <2>1 DEF Reads, Zero
<1>14. Value(s, 1, Len(s) + 1) = g[Len(s)]
  BY <1>1, <1>7 DEF g
<1> QED
  BY <1>13, <1>14

\* Digits that follow do not bring a smaller number up to a larger one.
LEMMA LessStays ==
  ASSUME NEW s \in Text, NEW t \in Text, Digits(s), Digits(t),
         NEW f, NEW g, Reads(f, s), Reads(g, t)
  PROVE  \A x, y, n \in Nat : x + n <= Len(s) /\ y + n <= Len(t) /\ f[x] < g[y] => f[x + n] < g[y + n]
<1> SUFFICES ASSUME NEW x \in Nat, NEW y \in Nat, NEW n \in Nat,
                    x + n <= Len(s), y + n <= Len(t), f[x] < g[y]
             PROVE  f[x + n] < g[y + n]
  OBVIOUS
<1>1. Len(s) \in Nat /\ Len(t) \in Nat
  BY TextBytes
<1> DEFINE T == {k \in Nat : k <= n => f[x + k] < g[y + k]}
<1>2. 0 \in T
  OBVIOUS
<1>3. ASSUME NEW k \in Nat, k \in T PROVE k + 1 \in T
  <2> SUFFICES ASSUME k + 1 <= n PROVE f[x + (k + 1)] < g[y + (k + 1)]
    OBVIOUS
  <2>1. k <= n /\ f[x + k] < g[y + k]
    BY <1>3
  <2> DEFINE i == x + (k + 1)
             j == y + (k + 1)
  <2>2. i \in 1..Len(s) /\ j \in 1..Len(t) /\ i - 1 = x + k /\ j - 1 = y + k
    BY <1>1
  <2>3. i - 1 \in 0..Len(s) /\ j - 1 \in 0..Len(t)
    BY <1>1, <2>2
  <2> HIDE DEF i, j
  <2>4. /\ f[i] = 10 * f[i - 1] + s[i] - 48 /\ g[j] = 10 * g[j - 1] + t[j] - 48
        /\ f[i - 1] \in Nat /\ g[j - 1] \in Nat
        /\ s[i] \in Nat /\ s[i] <= 57 /\ t[j] \in Nat /\ 48 <= t[j]
    BY <2>2, <2>3 DEF Reads, Digits
  <2>5. f[i - 1] < g[j - 1]
    BY <2>1, <2>2
  <2>6. \A p, q, c, d \in Nat : p < q /\ c <= 57 /\ 48 <= d => 10 * p + c - 48 < 10 * q + d - 48
    OBVIOUS
  <2>7. 10 * f[i - 1] + s[i] - 48 < 10 * g[j - 1] + t[j] - 48
    BY <2>4, <2>5, <2>6
  <2> QED
    BY <2>4, <2>7 DEF i, j
<1> HIDE DEF T
<1>4. n \in T
  BY <1>2, <1>3, NatInduct
<1> QED
  BY <1>4 DEF T

\* The n digits after the first x of s are those after the first y of t.
SameAfter(s, x, t, y, n) == \A k \in 1..n : s[x + k] = t[y + k]

\* The same digits bring equal numbers to equal ones.
LEMMA EqualStays ==
  ASSUME NEW s \in Text, NEW t \in Text,
         NEW f, NEW g, Reads(f, s), Reads(g, t)
  PROVE  \A x, y, n \in Nat :
           x + n <= Len(s) /\ y + n <= Len(t) /\ f[x] = g[y] /\ SameAfter(s, x, t, y, n)
             => f[x + n] = g[y + n]
<1> SUFFICES ASSUME NEW x \in Nat, NEW y \in Nat, NEW n \in Nat,
                    x + n <= Len(s), y + n <= Len(t),
                    f[x] = g[y], SameAfter(s, x, t, y, n)
             PROVE  f[x + n] = g[y + n]
  OBVIOUS
<1>1. Len(s) \in Nat /\ Len(t) \in Nat
  BY TextBytes
<1> DEFINE T == {k \in Nat : k <= n => f[x + k] = g[y + k]}
<1>2. 0 \in T
  OBVIOUS
<1>3. ASSUME NEW k \in Nat, k \in T PROVE k + 1 \in T
  <2> SUFFICES ASSUME k + 1 <= n PROVE f[x + (k + 1)] = g[y + (k + 1)]
    OBVIOUS
  <2>1. k <= n /\ f[x + k] = g[y + k]
    BY <1>3
  <2> DEFINE i == x + (k + 1)
             j == y + (k + 1)
  <2>2. i \in 1..Len(s) /\ j \in 1..Len(t) /\ i - 1 = x + k /\ j - 1 = y + k
    BY <1>1
  <2>3. k + 1 \in 1..n
    OBVIOUS
  <2>4. s[i] = t[j]
    BY <2>3 DEF SameAfter
  <2> HIDE DEF i, j
  <2>5. f[i] = 10 * f[i - 1] + s[i] - 48 /\ g[j] = 10 * g[j - 1] + t[j] - 48
    BY <2>2 DEF Reads
  <2>6. f[i] = g[j]
    BY <2>1, <2>2, <2>4, <2>5
  <2> QED
    BY <2>6 DEF i, j
<1> HIDE DEF T
<1>4. n \in T
  BY <1>2, <1>3, NatInduct
<1> QED
  BY <1>4 DEF T

\* Leading zeros are worth nothing.
LEMMA ZerosAreNothing ==
  ASSUME NEW s \in Text, NEW f, Reads(f, s), NEW z \in Nat, z <= Len(s),
         \A k \in 1..z : s[k] = 48
  PROVE  f[z] = 0
<1>1. Len(s) \in Nat
  BY TextBytes
<1> DEFINE T == {k \in Nat : k <= z => f[k] = 0}
<1>2. 0 \in T
  BY DEF Reads
<1>3. ASSUME NEW k \in Nat, k \in T PROVE k + 1 \in T
  <2> SUFFICES ASSUME k + 1 <= z PROVE f[k + 1] = 0
    OBVIOUS
  <2>1. f[k] = 0 /\ k + 1 \in 1..Len(s) /\ k + 1 \in 1..z /\ (k + 1) - 1 = k
    BY <1>1, <1>3
  <2>2. f[k + 1] = 10 * f[k] + s[k + 1] - 48 /\ s[k + 1] = 48
    BY <2>1 DEF Reads
  <2> QED
    BY <2>1, <2>2
<1> HIDE DEF T
<1>4. z \in T
  BY <1>2, <1>3, NatInduct
<1> QED
  BY <1>4 DEF T

-----------------------------------------------------------------------------
(* Tokens: the letters and numbers of a name.                              *)

\* A part of a text.
LEMMA PartIs ==
  ASSUME NEW name \in Text, NEW i \in 1..(Len(name) + 1), NEW e \in i..(Len(name) + 1)
  PROVE  /\ SubSeq(name, i, e - 1) \in Text
         /\ Len(SubSeq(name, i, e - 1)) = e - i
         /\ \A k \in 1..(e - i) : SubSeq(name, i, e - 1)[k] = name[i + k - 1]
<1>1. Len(name) \in Nat
  BY TextBytes
<1>2. i \in Int /\ e - 1 \in Int /\ i <= e
  BY <1>1
<1>3. ASSUME NEW k \in i..(e - 1) PROVE name[k] \in 0..255
  <2>1. k \in 1..Len(name)
    BY <1>1
  <2> QED
    BY <2>1, ElementOfSeq DEF Text
<1>4. /\ SubSeq(name, i, e - 1) \in Seq(0..255)
      /\ Len(SubSeq(name, i, e - 1)) = IF i <= e - 1 THEN (e - 1) - i + 1 ELSE 0
      /\ \A k \in 1..((e - 1) - i + 1) : SubSeq(name, i, e - 1)[k] = name[i + k - 1]
  BY <1>2, <1>3, SubSeqProperties
<1>5. (e - 1) - i + 1 = e - i
  BY <1>2
<1>6. (IF i <= e - 1 THEN (e - 1) - i + 1 ELSE 0) = e - i
  BY <1>1, <1>2
<1> QED
  BY <1>4, <1>5, <1>6 DEF Text

\* A run of digits ends before the first byte that is none.
LEMMA RunEndIs ==
  ASSUME NEW name \in Text, NEW i \in 1..(Len(name) + 1)
  PROVE  /\ RunEnd(name, i) \in i..(Len(name) + 1)
         /\ \A j \in i..(RunEnd(name, i) - 1) : IsDigit(name[j])
         /\ RunEnd(name, i) <= Len(name) => ~IsDigit(name[RunEnd(name, i)])
<1> DEFINE T == {j \in i..Len(name) : ~IsDigit(name[j])} \cup {Len(name) + 1}
<1>1. Len(name) \in Nat
  BY TextBytes
<1>2. T \in SUBSET Nat /\ T # {}
  BY <1>1
<1>3. RunEnd(name, i) = Min(T)
  BY DEF RunEnd
<1>4. \A j \in i..Len(name) : ~IsDigit(name[j]) => j \in T
  OBVIOUS
<1>5. Len(name) + 1 \in T
  OBVIOUS
<1>6. \A j \in T : j \in i..(Len(name) + 1) /\ (j <= Len(name) => ~IsDigit(name[j]))
  BY <1>1
<1> HIDE DEF T
<1>7. RunEnd(name, i) \in T /\ \A j \in T : RunEnd(name, i) <= j
  BY <1>2, <1>3, MinNat
<1>8. RunEnd(name, i) <= Len(name) + 1
  BY <1>5, <1>7
<1>9. ASSUME NEW j \in i..(RunEnd(name, i) - 1) PROVE IsDigit(name[j])
  <2>1. RunEnd(name, i) \in Nat
    BY <1>2, <1>7
  <2>2. j \in i..Len(name) /\ ~(RunEnd(name, i) <= j)
    BY <1>1, <1>8, <2>1
  <2> QED
    BY <1>4, <1>7, <2>2
<1> QED
  BY <1>6, <1>7, <1>9

\* Where the token at i ends.
TokenEnd(name, i) == IF IsDigit(name[i]) THEN RunEnd(name, i) ELSE i + 1

\* A token is a byte that is no digit, or all digits that follow each other.
LEMMA TokenIs ==
  ASSUME NEW name \in Text, NEW i \in 1..Len(name)
  PROVE  /\ TokenEnd(name, i) \in Nat /\ i < TokenEnd(name, i)
         /\ TokenEnd(name, i) <= Len(name) + 1
         /\ Token(name, i) \in Text /\ Len(Token(name, i)) = TokenEnd(name, i) - i
         /\ \A k \in 1..(TokenEnd(name, i) - i) : Token(name, i)[k] = name[i + k - 1]
         /\ Token(name, i)[1] = name[i]
         /\ IsDigit(name[i]) => Digits(Token(name, i))
<1>1. Len(name) \in Nat /\ i \in 1..(Len(name) + 1) /\ ~(i > Len(name)) /\ i \in Nat
  BY TextBytes
<1>2. /\ TokenEnd(name, i) \in Nat /\ i < TokenEnd(name, i) /\ TokenEnd(name, i) <= Len(name) + 1
      /\ IsDigit(name[i]) => \A j \in i..(TokenEnd(name, i) - 1) : IsDigit(name[j])
  <2>1. CASE IsDigit(name[i])
    <3>1. TokenEnd(name, i) = RunEnd(name, i)
      BY <2>1 DEF TokenEnd
    <3>2. RunEnd(name, i) \in i..(Len(name) + 1) /\ RunEnd(name, i) # i
      BY <1>1, <2>1, RunEndIs
    <3> QED
      BY <1>1, <3>1, <3>2, RunEndIs
  <2>2. CASE ~IsDigit(name[i])
    BY <1>1, <2>2 DEF TokenEnd
  <2> QED
    BY <2>1, <2>2
<1> DEFINE e == TokenEnd(name, i)
           s == Token(name, i)
<1>3. s = SubSeq(name, i, e - 1)
  <2>1. (i + 1) - 1 = i
    BY <1>1
  <2> QED
    BY <1>1, <2>1 DEF Token, TokenEnd
<1>4. e \in i..(Len(name) + 1)
  BY <1>1, <1>2
<1> HIDE DEF e, s
<1>5. s \in Text /\ Len(s) = e - i /\ \A k \in 1..(e - i) : s[k] = name[i + k - 1]
  BY <1>1, <1>3, <1>4, PartIs
<1>6. s[1] = name[i]
  <2>1. 1 \in 1..(e - i) /\ i + 1 - 1 = i
    BY <1>1, <1>2 DEF e
  <2> QED
    BY <1>5, <2>1
<1>7. ASSUME IsDigit(name[i]) PROVE Digits(s)
  <2> SUFFICES ASSUME NEW k \in 1..Len(s) PROVE s[k] \in Nat /\ 48 <= s[k] /\ s[k] <= 57
    BY DEF Digits
  <2>1. k \in 1..(e - i) /\ i + k - 1 \in i..(e - 1)
    BY <1>1, <1>4, <1>5
  <2>2. IsDigit(name[i + k - 1]) /\ s[k] = name[i + k - 1]
    BY <1>2, <1>5, <1>7, <2>1 DEF e
  <2>3. \A v : v \in 48..57 => v \in Nat /\ 48 <= v /\ v <= 57
    OBVIOUS
  <2> QED
    BY <2>2, <2>3 DEF IsDigit, Zero
<1> QED
  BY <1>2, <1>5, <1>6, <1>7 DEF e, s

\* Where the next token begins.
LEMMA NextBegins ==
  ASSUME NEW name \in Text, NEW i \in 1..Len(name)
  PROVE  /\ TokenEnd(name, i) \in Begins(name)
         /\ \A m \in Begins(name) : m > i => m >= TokenEnd(name, i)
<1>1. Len(name) \in Nat /\ DOMAIN name = 1..Len(name) /\ i \in 1..(Len(name) + 1)
  BY TextBytes
<1> DEFINE e == TokenEnd(name, i)
<1>2. e \in Nat /\ i < e /\ e <= Len(name) + 1
  BY TokenIs
<1>3. CASE IsDigit(name[i])
  <2>1. /\ e = RunEnd(name, i) /\ \A j \in i..(e - 1) : IsDigit(name[j])
        /\ e <= Len(name) => ~IsDigit(name[e])
    BY <1>1, <1>3, RunEndIs DEF TokenEnd
  <2> HIDE DEF e
  <2>2. e \in Begins(name)
    BY <1>1, <1>2, <2>1 DEF Begins
  <2>3. ASSUME NEW m \in Begins(name), m > i, m < e PROVE FALSE
    <3>1. m \in Nat /\ m \in 1..Len(name) /\ m > 1
      BY <1>1, <1>2, <2>3 DEF Begins
    <3>2. m - 1 \in i..(e - 1) /\ m \in i..(e - 1) /\ m # Len(name) + 1
      BY <1>1, <1>2, <2>3, <3>1
    <3> QED
      BY <2>1, <2>3, <3>1, <3>2 DEF Begins
  <2>4. \A m \in Begins(name) : m \in Nat
    BY <1>1 DEF Begins
  <2>5. \A m \in Begins(name) : m > i => m >= e
    BY <1>2, <2>3, <2>4
  <2> QED
    BY <2>2, <2>5 DEF e
<1>4. CASE ~IsDigit(name[i])
  <2>1. e = i + 1 /\ e - 1 = i
    BY <1>4 DEF TokenEnd
  <2>2. \A m \in Begins(name) : m \in Nat
    BY <1>1 DEF Begins
  <2> HIDE DEF e
  <2>3. e \in Begins(name)
    BY <1>1, <1>2, <1>4, <2>1 DEF Begins
  <2>4. \A m \in Begins(name) : m > i => m >= e
    BY <2>1, <2>2
  <2> QED
    BY <2>3, <2>4 DEF e
<1> QED
  BY <1>3, <1>4

\* Where tokens of both names begin, and nothing differs before.
Common(aa, bb) == {i \in Begins(aa) \cap Begins(bb) : Agree(aa, bb, i)}

\* Before a common beginning the tokens are the same.
LEMMA TokensBefore ==
  ASSUME NEW aa \in Text, NEW bb \in Text, NEW m \in Common(aa, bb), NEW i \in 1..(m - 1)
  PROVE  /\ i \in 1..Len(aa) /\ i \in 1..Len(bb)
         /\ TokenEnd(aa, i) = TokenEnd(bb, i) /\ TokenEnd(aa, i) <= m
         /\ Token(aa, i) = Token(bb, i)
<1>1. /\ Len(aa) \in Nat /\ DOMAIN aa = 1..Len(aa)
      /\ Len(bb) \in Nat /\ DOMAIN bb = 1..Len(bb)
  BY TextBytes
<1>2. /\ m \in Begins(aa) /\ m \in Begins(bb) /\ m \in Nat /\ m <= Len(aa) + 1 /\ m <= Len(bb) + 1
      /\ \A k \in 1..(m - 1) : aa[k] = bb[k]
  BY <1>1 DEF Common, Begins, Agree
<1>3. i \in Nat /\ i < m /\ i \in 1..Len(aa) /\ i \in 1..Len(bb)
  BY <1>1, <1>2
<1> DEFINE e == TokenEnd(aa, i)
           f == TokenEnd(bb, i)
<1>4. e \in Nat /\ i < e /\ e <= m /\ f \in Nat /\ i < f /\ f <= m
  BY <1>2, <1>3, TokenIs, NextBegins
<1>5. e = f
  <2>1. CASE IsDigit(aa[i])
    <3>1. IsDigit(bb[i])
      BY <1>2, <2>1
    <3>2. i \in 1..(Len(aa) + 1) /\ i \in 1..(Len(bb) + 1)
      BY <1>1, <1>3
    <3>3. /\ e = RunEnd(aa, i) /\ \A j \in i..(e - 1) : IsDigit(aa[j])
          /\ e <= Len(aa) => ~IsDigit(aa[e])
      BY <2>1, <3>2, RunEndIs DEF TokenEnd
    <3>4. /\ f = RunEnd(bb, i) /\ \A j \in i..(f - 1) : IsDigit(bb[j])
          /\ f <= Len(bb) => ~IsDigit(bb[f])
      BY <3>1, <3>2, RunEndIs DEF TokenEnd
    <3> HIDE DEF e, f
    <3>5. ~(e < f)
      BY <1>1, <1>2, <1>3, <1>4, <3>3, <3>4
    <3>6. ~(f < e)
      BY <1>1, <1>2, <1>3, <1>4, <3>3, <3>4
    <3> QED
      BY <1>4, <3>5, <3>6
  <2>2. CASE ~IsDigit(aa[i])
    BY <1>2, <2>2 DEF TokenEnd
  <2> QED
    BY <2>1, <2>2
<1>6. Token(aa, i) = Token(bb, i)
  <2>1. /\ Token(aa, i) \in Text /\ Len(Token(aa, i)) = e - i
        /\ \A k \in 1..(e - i) : Token(aa, i)[k] = aa[i + k - 1]
        /\ Token(bb, i) \in Text /\ Len(Token(bb, i)) = f - i
        /\ \A k \in 1..(f - i) : Token(bb, i)[k] = bb[i + k - 1]
    BY <1>3, TokenIs
  <2> HIDE DEF e, f
  <2>2. \A k \in 1..(e - i) : i + k - 1 \in 1..(m - 1)
    BY <1>2, <1>3, <1>4
  <2>3. \A k \in 1..Len(Token(aa, i)) : Token(aa, i)[k] = Token(bb, i)[k]
    BY <1>2, <1>5, <2>1, <2>2
  <2> QED
    BY <1>5, <2>1, <2>3, SeqEqual DEF Text
<1> QED
  BY <1>3, <1>4, <1>5, <1>6

\* After the same token there is a common beginning again.
LEMMA NextCommon ==
  ASSUME NEW aa \in Text, NEW bb \in Text, NEW i \in Common(aa, bb),
         i <= Len(aa), i <= Len(bb), Token(aa, i) = Token(bb, i)
  PROVE  TokenEnd(aa, i) = TokenEnd(bb, i) /\ TokenEnd(aa, i) \in Common(aa, bb)
<1>1. /\ Len(aa) \in Nat /\ DOMAIN aa = 1..Len(aa)
      /\ Len(bb) \in Nat /\ DOMAIN bb = 1..Len(bb)
  BY TextBytes
<1>2. i \in 1..Len(aa) /\ i \in 1..Len(bb) /\ \A k \in 1..(i - 1) : aa[k] = bb[k]
  BY <1>1 DEF Common, Begins, Agree
<1> DEFINE e == TokenEnd(aa, i)
<1>3. /\ e \in Nat /\ TokenEnd(bb, i) \in Nat /\ e - i = TokenEnd(bb, i) - i
      /\ \A k \in 1..(e - i) : aa[i + k - 1] = bb[i + k - 1]
  <2>1. /\ e \in Nat /\ Len(Token(aa, i)) = e - i
        /\ \A k \in 1..(e - i) : Token(aa, i)[k] = aa[i + k - 1]
    BY <1>2, TokenIs
  <2>2. /\ TokenEnd(bb, i) \in Nat /\ Len(Token(bb, i)) = TokenEnd(bb, i) - i
        /\ \A k \in 1..(TokenEnd(bb, i) - i) : Token(bb, i)[k] = bb[i + k - 1]
    BY <1>2, TokenIs
  <2>3. e - i = TokenEnd(bb, i) - i
    BY <2>1, <2>2
  <2> HIDE DEF e
  <2> QED
    BY <2>1, <2>2, <2>3
<1>4. e = TokenEnd(bb, i)
  BY <1>2, <1>3
<1>5. e \in Begins(aa) /\ e \in Begins(bb)
  BY <1>2, <1>4, NextBegins
<1> HIDE DEF e
<1>6. ASSUME NEW k \in 1..(e - 1) PROVE aa[k] = bb[k]
  <2>1. CASE k < i
    BY <1>2, <2>1
  <2>2. CASE k >= i
    <3>1. k - i + 1 \in 1..(e - i) /\ i + (k - i + 1) - 1 = k
      BY <1>2, <1>3, <2>2
    <3> QED
      BY <1>3, <3>1
  <2> QED
    BY <1>2, <1>3, <2>1, <2>2
<1> QED
  BY <1>4, <1>5, <1>6 DEF Common, Agree, e

-----------------------------------------------------------------------------
(* Numbers are compared without their leading zeros.                       *)

\* an is s without its z leading zeros.
Trims(s, z, an) ==
  /\ z \in Nat /\ z <= Len(s) /\ \A x \in 1..z : s[x] = 48
  /\ z < Len(s) => s[z + 1] # 48
  /\ an \in Text /\ Len(an) = Len(s) - z /\ \A x \in 1..Len(an) : an[x] = s[z + x]

\* What Trimmed returns of a number.
LEMMA TrimmedIs ==
  ASSUME NEW name \in Text, NEW i \in 1..Len(name), IsDigit(name[i])
  PROVE  \E z : Trims(Token(name, i), z, Trimmed(name, i, RunEnd(name, i)))
<1> DEFINE e == RunEnd(name, i)
           s == Token(name, i)
           T == {k \in i..(e - 1) : name[k] # Zero} \cup {e}
           first == Min(T)
           an == Trimmed(name, i, e)
<1>1. Len(name) \in Nat /\ i \in Nat /\ e = TokenEnd(name, i)
  BY TextBytes DEF TokenEnd
<1>2. /\ e \in Nat /\ i < e /\ e <= Len(name) + 1
      /\ s \in Text /\ Len(s) = e - i /\ \A k \in 1..(e - i) : s[k] = name[i + k - 1]
  BY <1>1, TokenIs
<1>3. an = SubSeq(name, first, e - 1)
  BY DEF Trimmed
<1> HIDE DEF e, s, an
<1>4. T \in SUBSET Nat /\ T # {}
  BY <1>1, <1>2
<1>5. /\ \A k \in i..(e - 1) : name[k] # 48 => k \in T
      /\ \A k \in T : k = e \/ (k \in i..(e - 1) /\ name[k] # 48)
      /\ e \in T
  BY DEF Zero
<1> HIDE DEF T
<1>6. first \in T /\ \A k \in T : first <= k
  BY <1>4, MinNat
<1> HIDE DEF first
<1>7. first \in Nat /\ i <= first /\ first <= e
  BY <1>1, <1>2, <1>4, <1>5, <1>6
<1> DEFINE z == first - i
<1>8. z \in Nat /\ z <= Len(s)
  BY <1>1, <1>2, <1>7
<1>9. ASSUME NEW x \in 1..z PROVE s[x] = 48
  <2>1. i + x - 1 \in i..(e - 1) /\ i + x - 1 < first /\ x \in 1..(e - i)
    BY <1>1, <1>2, <1>7
  <2>2. name[i + x - 1] = 48
    BY <1>4, <1>5, <1>6, <1>7, <2>1
  <2> QED
    BY <1>2, <2>1, <2>2
<1>10. ASSUME z < Len(s) PROVE s[z + 1] # 48
  <2>1. first # e /\ z + 1 \in 1..(e - i) /\ i + (z + 1) - 1 = first
    BY <1>1, <1>2, <1>7, <1>10
  <2> QED
    BY <1>2, <1>5, <1>6, <2>1
<1>11. an \in Text /\ Len(an) = e - first /\ \A k \in 1..(e - first) : an[k] = name[first + k - 1]
  <2>1. first \in 1..(Len(name) + 1) /\ e \in first..(Len(name) + 1)
    BY <1>1, <1>2, <1>7
  <2> QED
    BY <1>3, <2>1, PartIs
<1>12. Len(an) = Len(s) - z
  BY <1>1, <1>2, <1>7, <1>11
<1>13. ASSUME NEW x \in 1..Len(an) PROVE an[x] = s[z + x]
  <2>1. x \in 1..(e - first) /\ z + x \in 1..(e - i) /\ i + (z + x) - 1 = first + x - 1
    BY <1>1, <1>2, <1>7, <1>11
  <2> QED
    BY <1>2, <1>11, <2>1
<1>14. Trims(s, z, an)
  BY <1>8, <1>9, <1>10, <1>11, <1>12, <1>13 DEF Trims
<1> QED
  BY <1>14 DEF e, s, an

\* More digits do not bring a number down to zero.
LEMMA PositiveStays ==
  ASSUME NEW s \in Text, Digits(s), NEW f, Reads(f, s),
         NEW x \in Nat, NEW n \in Nat, x + n <= Len(s), f[x] > 0
  PROVE  f[x + n] > 0
<1>1. Len(s) \in Nat
  BY TextBytes
<1> DEFINE T == {k \in Nat : k <= n => f[x + k] > 0}
<1>2. 0 \in T
  OBVIOUS
<1>3. ASSUME NEW k \in Nat, k \in T PROVE k + 1 \in T
  <2> SUFFICES ASSUME k + 1 <= n PROVE f[x + (k + 1)] > 0
    OBVIOUS
  <2>1. f[x + k] > 0
    BY <1>3
  <2> DEFINE i == x + (k + 1)
  <2>2. i \in 1..Len(s) /\ i - 1 = x + k /\ i - 1 \in 0..Len(s)
    BY <1>1
  <2> HIDE DEF i
  <2>3. f[i] = 10 * f[i - 1] + s[i] - 48 /\ f[i - 1] \in Nat /\ s[i] \in Nat /\ 48 <= s[i]
    BY <2>2 DEF Reads, Digits
  <2>4. \A p, c \in Nat : p > 0 /\ 48 <= c => 10 * p + c - 48 > 0
    OBVIOUS
  <2>5. 10 * f[i - 1] + s[i] - 48 > 0
    BY <2>1, <2>2, <2>3, <2>4
  <2> QED
    BY <2>3, <2>5 DEF i
<1> HIDE DEF T
<1>4. n \in T
  BY <1>2, <1>3, NatInduct
<1> QED
  BY <1>4 DEF T

\* The number with fewer digits is the smaller one.
LEMMA ShorterIsLess ==
  ASSUME NEW s \in Text, NEW t \in Text, Digits(s), Digits(t),
         NEW f, NEW g, Reads(f, s), Reads(g, t),
         NEW y \in Nat, NEW z \in Nat, NEW an, NEW bn, Trims(s, y, an), Trims(t, z, bn), Len(an) < Len(bn)
  PROVE  f[Len(s)] < g[Len(t)]
<1>1. Len(s) \in Nat /\ Len(t) \in Nat
  BY TextBytes
<1>2. /\ y \in Nat /\ y <= Len(s) /\ z \in Nat /\ z <= Len(t) /\ Len(s) - y < Len(t) - z
      /\ t[z + 1] # 48
  BY <1>1 DEF Trims
<1>3. f[y] = 0 /\ g[z] = 0
  BY <1>2, ZerosAreNothing DEF Trims
<1>4. g[z + 1] > 0
  <2>1. z + 1 \in 1..Len(t) /\ (z + 1) - 1 = z
    BY <1>1, <1>2
  <2>2. g[z + 1] = 10 * g[z] + t[z + 1] - 48 /\ t[z + 1] \in Nat /\ 48 <= t[z + 1]
    BY <2>1 DEF Reads, Digits
  <2>3. \A c \in Nat : 48 <= c /\ c # 48 => 10 * 0 + c - 48 > 0
    OBVIOUS
  <2> QED
    BY <1>2, <1>3, <2>2, <2>3
<1>5. PICK n \in Nat, m \in Nat : n = Len(s) - y /\ m = Len(t) - (Len(s) - y)
  <2>1. Len(s) - y \in Nat /\ Len(t) - (Len(s) - y) \in Nat
    BY <1>1, <1>2
  <2> QED
    BY <2>1
<1>6. z + 1 <= m /\ m + n = Len(t) /\ y + n = Len(s)
  BY <1>1, <1>2, <1>5
<1>7. g[m] > 0
  <2>1. m - (z + 1) \in Nat /\ (z + 1) + (m - (z + 1)) = m /\ z + 1 \in Nat /\ m <= Len(t)
    BY <1>1, <1>2, <1>5, <1>6
  <2>2. g[(z + 1) + (m - (z + 1))] > 0
    BY <1>4, <2>1, PositiveStays
  <2> QED
    BY <2>1, <2>2
<1>8. f[y] < g[m]
  BY <1>3, <1>7
<1>9. y + n <= Len(s) /\ m + n <= Len(t)
  BY <1>1, <1>6
<1>10. \A u, v, w \in Nat : u + w <= Len(s) /\ v + w <= Len(t) /\ f[u] < g[v] => f[u + w] < g[v + w]
  BY LessStays
<1>11. f[y + n] < g[m + n]
  BY <1>8, <1>9, <1>10
<1> QED
  BY <1>6, <1>11

\* Of as many digits, the first that differ decide.
LEMMA SmallerIsLess ==
  ASSUME NEW s \in Text, NEW t \in Text, Digits(s), Digits(t),
         NEW f, NEW g, Reads(f, s), Reads(g, t),
         NEW y \in Nat, NEW z \in Nat, NEW an, NEW bn, Trims(s, y, an), Trims(t, z, bn), Len(an) = Len(bn)
  PROVE  /\ Smaller(an, bn) => f[Len(s)] < g[Len(t)]
         /\ an = bn => f[Len(s)] = g[Len(t)]
<1>1. Len(s) \in Nat /\ Len(t) \in Nat
  BY TextBytes
<1>2. /\ y \in Nat /\ y <= Len(s) /\ z \in Nat /\ z <= Len(t)
      /\ Len(an) = Len(s) - y /\ Len(bn) = Len(t) - z
      /\ \A x \in 1..Len(an) : an[x] = s[y + x]
      /\ \A x \in 1..Len(bn) : bn[x] = t[z + x]
  BY DEF Trims
<1> DEFINE q == Len(s) - y
<1>3. q \in Nat /\ y + q = Len(s) /\ z + q = Len(t) /\ q = Len(an) /\ q = Len(bn)
  <2>1. Len(s) - y = Len(t) - z
    BY <1>2
  <2> QED
    BY <1>1, <1>2, <2>1
<1> HIDE DEF q
<1>4. PICK p \in Nat : p = q
  BY <1>3
<1>5. \A x \in 1..p : an[x] = s[y + x] /\ bn[x] = t[z + x]
  BY <1>2, <1>3, <1>4
<1>6. f[y] = g[z]
  <2>1. f[y] = 0 /\ g[z] = 0
    BY <1>2, ZerosAreNothing DEF Trims
  <2> QED
    BY <2>1
<1>shift. \A u, v, w \in Nat :
          u + w <= Len(s) /\ v + w <= Len(t) /\ f[u] = g[v] /\ SameAfter(s, u, t, v, w)
            => f[u + w] = g[v + w]
  BY EqualStays
<1>7. \A n \in Nat : n <= p => y + n <= Len(s) /\ z + n <= Len(t)
  BY <1>1, <1>3, <1>4
<1>8. ASSUME an = bn PROVE f[Len(s)] = g[Len(t)]
  <2>1. SameAfter(s, y, t, z, p)
    BY <1>5, <1>8 DEF SameAfter
  <2>2. y + p <= Len(s) /\ z + p <= Len(t)
    BY <1>1, <1>3, <1>4
  <2>3. f[y + p] = g[z + p]
    BY <1>6, <1>shift, <2>1, <2>2
  <2> QED
    BY <1>3, <1>4, <2>3
<1>9. ASSUME Smaller(an, bn) PROVE f[Len(s)] < g[Len(t)]
  <2>1. PICK d \in Nat \ {0} : /\ d <= p /\ Agree(an, bn, d) /\ an[d] < bn[d]
    BY <1>3, <1>4, <1>9 DEF Smaller
  <2> DEFINE i == y + d
             j == z + d
  <2> PICK n \in Nat, m \in Nat : n = d - 1 /\ m = p - d
    BY <1>4, <2>1
  <2>2. n \in Nat /\ m \in Nat /\ n <= p /\ \A k \in 1..n : k \in 1..p
    BY <1>4, <2>1
  <2>3. SameAfter(s, y, t, z, n)
    <3> SUFFICES ASSUME NEW k \in 1..n PROVE s[y + k] = t[z + k]
      BY DEF SameAfter
    <3>1. k \in 1..p /\ an[k] = bn[k]
      BY <2>1, <2>2 DEF Agree
    <3> QED
      BY <1>5, <3>1
  <2>4. y + n <= Len(s) /\ z + n <= Len(t)
    BY <1>7, <2>2
  <2>5. i - 1 = y + n /\ j - 1 = z + n /\ i \in Nat /\ j \in Nat
    BY <2>1
  <2>6. i + m = Len(s) /\ j + m = Len(t) /\ i \in 1..Len(s) /\ j \in 1..Len(t)
    BY <1>1, <1>3, <1>4, <2>1, SMTT(30)
  <2>7. d \in 1..p
    BY <1>4, <2>1
  <2>8. s[i] < t[j]
    BY <1>5, <2>1, <2>7
  <2> HIDE DEF i, j
  <2>9. f[y + n] = g[z + n]
    <3>1. /\ y \in Nat /\ z \in Nat /\ n \in Nat
          /\ y + n <= Len(s) /\ z + n <= Len(t) /\ f[y] = g[z]
      BY <1>6, <2>4
    <3> QED
      BY <1>shift, <2>3, <3>1, SMTT(30)
  <2>10. i - 1 \in 0..Len(s) /\ j - 1 \in 0..Len(t)
    BY <1>1, <2>5, <2>6
  <2>11. /\ f[i] = 10 * f[i - 1] + s[i] - 48 /\ g[j] = 10 * g[j - 1] + t[j] - 48
         /\ f[i - 1] \in Nat /\ f[i - 1] = g[j - 1] /\ s[i] \in Nat /\ t[j] \in Nat
    BY <2>5, <2>6, <2>9, <2>10 DEF Reads, Digits
  <2>12. \A v, c, e \in Nat : c < e => 10 * v + c - 48 < 10 * v + e - 48
    OBVIOUS
  <2>13. 10 * f[i - 1] + s[i] - 48 < 10 * f[i - 1] + t[j] - 48
    BY <2>8, <2>11, <2>12
  <2>14. f[i] < g[j]
    BY <2>11, <2>13
  <2>15. i + m <= Len(s) /\ j + m <= Len(t)
    BY <1>1, <2>6
  <2>16. f[i + m] < g[j + m]
    BY <2>5, <2>14, <2>15, LessStays
  <2> QED
    BY <2>6, <2>16
<1> QED
  BY <1>8, <1>9

\* And leading zeros make no difference.
LEMMA SameIsEqual ==
  ASSUME NEW s \in Text, NEW t \in Text, Digits(s), Digits(t),
         NEW f, NEW g, Reads(f, s), Reads(g, t),
         NEW y \in Nat, NEW z \in Nat, NEW an, Trims(s, y, an), Trims(t, z, an)
  PROVE  f[Len(s)] = g[Len(t)]
<1>1. Len(an) = Len(an)
  OBVIOUS
<1> QED
  BY <1>1, SmallerIsLess, ZenonT(30)

\* What numbers of a name are compared by, as NaturalCompare has it.
NumbersOf(aa, bb, i, j, k, l) ==
  LET an == Trimmed(aa, i, k)
      bn == Trimmed(bb, j, l)
  IN  IF Len(an) # Len(bn) THEN Sign(Len(an), Len(bn))
      ELSE IF Compare(an, bn) # 0 THEN Compare(an, bn) ELSE Sign(k - i, l - j)

\* What is known of a token.
IsToken(s) ==
  /\ s \in Text
  /\ s # <<>> => /\ Len(s) \in Nat \ {0} /\ s[1] \in Nat
                 /\ IsDigit(s[1]) => Digits(s) /\ Value(s, 1, Len(s) + 1) \in Nat

\* What NaturalCompare and Precedes look at is a token.
LEMMA TokenKnown ==
  ASSUME NEW name \in Text, NEW i \in 1..(Len(name) + 1)
  PROVE  /\ IsToken(Token(name, i))
         /\ Token(name, i) = <<>> <=> i = Len(name) + 1
<1>1. Len(name) \in Nat
  BY TextBytes
<1>2. CASE i = Len(name) + 1
  <2>1. Token(name, i) = <<>>
    BY <1>1, <1>2 DEF Token
  <2> QED
    BY <1>2, <2>1, EmptySeq DEF IsToken, Text
<1>3. CASE i # Len(name) + 1
  <2>1. i \in 1..Len(name)
    BY <1>1, <1>3
  <2> DEFINE s == Token(name, i)
  <2>2. /\ s \in Text /\ Len(s) \in Nat \ {0} /\ s[1] = name[i]
        /\ IsDigit(name[i]) => Digits(s)
    BY <2>1, TokenIs
  <2> HIDE DEF s
  <2>3. s # <<>>
    BY <2>2, EmptySeq
  <2>4. s[1] \in Nat
    BY <2>1, <2>2, TextBytes
  <2>5. ASSUME Digits(s) PROVE Value(s, 1, Len(s) + 1) \in Nat
    <3>1. PICK f : Reads(f, s) /\ Value(s, 1, Len(s) + 1) = f[Len(s)]
      BY <2>2, <2>5, ValueReads
    <3>2. Len(s) \in 0..Len(s)
      BY <2>2
    <3> QED
      BY <3>1, <3>2 DEF Reads
  <2> QED
    BY <1>3, <2>2, <2>3, <2>4, <2>5 DEF IsToken, s
<1> QED
  BY <1>2, <1>3

\* No token precedes one that precedes it.
LEMMA PrecedesOnce ==
  ASSUME NEW s, NEW t, IsToken(s), IsToken(t), TokenPrecedes(s, t)
  PROVE  ~TokenPrecedes(t, s) /\ s # t
  BY DEF IsToken, TokenPrecedes

\* The order of tokens is transitive: a number is between no two bytes that are
\* both before, or both behind, the digits.
LEMMA PrecedesTransitive ==
  ASSUME NEW s, NEW t, NEW u, IsToken(s), IsToken(t), IsToken(u),
         TokenPrecedes(s, t), TokenPrecedes(t, u)
  PROVE  TokenPrecedes(s, u)
<1>1. \A v : IsDigit(v) <=> v \in Int /\ 48 <= v /\ v <= 57
  BY DEF IsDigit, Zero
<1>2. t # <<>> /\ u # <<>>
  BY DEF TokenPrecedes
<1>3. CASE s = <<>>
  BY <1>2, <1>3 DEF TokenPrecedes
<1>4. CASE s # <<>>
  <2>1. /\ s[1] \in Nat /\ t[1] \in Nat /\ u[1] \in Nat
        /\ Len(s) \in Nat /\ Len(t) \in Nat /\ Len(u) \in Nat
        /\ IsDigit(s[1]) => Value(s, 1, Len(s) + 1) \in Nat
        /\ IsDigit(t[1]) => Value(t, 1, Len(t) + 1) \in Nat
        /\ IsDigit(u[1]) => Value(u, 1, Len(u) + 1) \in Nat
    BY <1>2, <1>4 DEF IsToken
  <2>2. CASE IsDigit(s[1]) /\ IsDigit(t[1]) /\ IsDigit(u[1])
    BY <1>2, <1>4, <2>1, <2>2 DEF TokenPrecedes
  <2>3. CASE ~(IsDigit(s[1]) /\ IsDigit(t[1])) /\ ~(IsDigit(t[1]) /\ IsDigit(u[1]))
    <3>1. s[1] < t[1] /\ t[1] < u[1]
      BY <1>2, <1>4, <2>3 DEF TokenPrecedes
    <3>2. ~(IsDigit(s[1]) /\ IsDigit(u[1]))
      BY <1>1, <2>1, <2>3, <3>1
    <3>3. s[1] < u[1]
      BY <2>1, <3>1
    <3> QED
      BY <1>2, <1>4, <3>2, <3>3 DEF TokenPrecedes
  <2>4. CASE IsDigit(s[1]) /\ IsDigit(t[1]) /\ ~IsDigit(u[1])
    <3>1. t[1] < u[1]
      BY <1>2, <2>4 DEF TokenPrecedes
    <3>2. s[1] < u[1]
      BY <1>1, <2>1, <2>4, <3>1, SMTT(30)
    <3> QED
      BY <1>2, <1>4, <2>4, <3>2 DEF TokenPrecedes
  <2>5. CASE ~IsDigit(s[1]) /\ IsDigit(t[1]) /\ IsDigit(u[1])
    <3>1. s[1] < t[1]
      BY <1>2, <1>4, <2>5 DEF TokenPrecedes
    <3>2. s[1] < u[1]
      BY <1>1, <2>1, <2>5, <3>1, SMTT(30)
    <3> QED
      BY <1>2, <1>4, <2>5, <3>2 DEF TokenPrecedes
  <2> QED
    BY <2>2, <2>3, <2>4, <2>5
<1> QED
  BY <1>3, <1>4

\* Numbers are compared by value, then by length: what naturalCompare does with
\* leading zeros cut off and digits compared from the left.
LEMMA NumbersAre ==
  ASSUME NEW aa \in Text, NEW bb \in Text, NEW i \in 1..Len(aa), i \in 1..Len(bb),
         IsDigit(aa[i]), IsDigit(bb[i]),
         NEW n, n = NumbersOf(aa, bb, i, i, RunEnd(aa, i), RunEnd(bb, i))
  PROVE  /\ n \in {-1, 0, 1}
         /\ n = -1 => TokenPrecedes(Token(aa, i), Token(bb, i))
         /\ n = 1 => TokenPrecedes(Token(bb, i), Token(aa, i))
         /\ n = 0 => Token(aa, i) = Token(bb, i)
<1> DEFINE s == Token(aa, i)
           t == Token(bb, i)
           an == Trimmed(aa, i, RunEnd(aa, i))
           bn == Trimmed(bb, i, RunEnd(bb, i))
<1>1. /\ s \in Text /\ Digits(s) /\ s[1] = aa[i] /\ Len(s) = RunEnd(aa, i) - i
      /\ t \in Text /\ Digits(t) /\ t[1] = bb[i] /\ Len(t) = RunEnd(bb, i) - i
      /\ Len(s) \in Nat \ {0} /\ Len(t) \in Nat \ {0}
  BY TokenIs DEF TokenEnd
<1>2. n = IF Len(an) # Len(bn) THEN Sign(Len(an), Len(bn))
          ELSE IF Compare(an, bn) # 0 THEN Compare(an, bn) ELSE Sign(Len(s), Len(t))
  BY <1>1 DEF NumbersOf
<1>3. PICK y : Trims(s, y, an)
  BY TrimmedIs
<1>4. PICK z : Trims(t, z, bn)
  BY TrimmedIs
<1> HIDE DEF s, t, an, bn
<1>5. y \in Nat /\ z \in Nat /\ an \in Text /\ bn \in Text
  BY <1>3, <1>4 DEF Trims
<1>6. Len(an) \in Nat /\ Len(bn) \in Nat
  BY <1>5, TextBytes
<1>7. PICK f : Reads(f, s) /\ Value(s, 1, Len(s) + 1) = f[Len(s)]
  BY <1>1, ValueReads
<1>8. PICK g : Reads(g, t) /\ Value(t, 1, Len(t) + 1) = g[Len(t)]
  BY <1>1, ValueReads
<1>9. f[Len(s)] \in Nat /\ g[Len(t)] \in Nat
  BY <1>1, <1>7, <1>8 DEF Reads
<1>10. /\ Len(an) < Len(bn) => f[Len(s)] < g[Len(t)]
       /\ Len(bn) < Len(an) => g[Len(t)] < f[Len(s)]
  BY <1>1, <1>3, <1>4, <1>5, <1>7, <1>8, ShorterIsLess
<1>11. Len(an) = Len(bn) =>
         /\ Smaller(an, bn) => f[Len(s)] < g[Len(t)]
         /\ Smaller(bn, an) => g[Len(t)] < f[Len(s)]
         /\ an = bn => f[Len(s)] = g[Len(t)]
  <2> SUFFICES ASSUME Len(an) = Len(bn)
               PROVE  /\ Smaller(an, bn) => f[Len(s)] < g[Len(t)]
                      /\ Smaller(bn, an) => g[Len(t)] < f[Len(s)]
                      /\ an = bn => f[Len(s)] = g[Len(t)]
    OBVIOUS
  <2>1. Smaller(an, bn) => f[Len(s)] < g[Len(t)]
    BY <1>1, <1>3, <1>4, <1>5, <1>7, <1>8, SmallerIsLess
  <2>2. Len(bn) = Len(an)
    OBVIOUS
  <2>3. Smaller(bn, an) => g[Len(t)] < f[Len(s)]
    BY <1>1, <1>3, <1>4, <1>5, <1>7, <1>8, <2>2, SmallerIsLess
  <2>4. ASSUME an = bn PROVE f[Len(s)] = g[Len(t)]
    <3>1. Trims(t, z, an)
      BY <1>4, <2>4
    <3> QED
      BY <1>1, <1>3, <1>5, <1>7, <1>8, <3>1, SameIsEqual
  <2> QED
    BY <2>1, <2>3, <2>4
<1>12. s # <<>> /\ t # <<>>
  BY <1>1, EmptySeq
<1>13. /\ TokenPrecedes(s, t) <=>
            f[Len(s)] < g[Len(t)] \/ (f[Len(s)] = g[Len(t)] /\ Len(s) < Len(t))
       /\ TokenPrecedes(t, s) <=>
            g[Len(t)] < f[Len(s)] \/ (g[Len(t)] = f[Len(s)] /\ Len(t) < Len(s))
  BY <1>1, <1>7, <1>8, <1>12 DEF TokenPrecedes
<1>14. CASE Len(an) # Len(bn)
  <2>1. n = Sign(Len(an), Len(bn))
    BY <1>2, <1>14
  <2> QED
    BY <1>6, <1>10, <1>13, <1>14, <2>1, SignIs DEF s, t
<1>15. CASE Len(an) = Len(bn) /\ Compare(an, bn) # 0
  <2>1. n = Compare(an, bn)
    BY <1>2, <1>15
  <2> QED
    BY <1>5, <1>11, <1>13, <1>15, <2>1, CompareIs DEF s, t
<1>16. CASE Len(an) = Len(bn) /\ Compare(an, bn) = 0
  <2>1. n = Sign(Len(s), Len(t)) /\ an = bn
    BY <1>2, <1>5, <1>16, CompareIs
  <2>2. f[Len(s)] = g[Len(t)]
    BY <1>11, <1>16, <2>1
  <2>3. ASSUME Len(s) = Len(t) PROVE s = t
    <3>1. /\ y <= Len(s) /\ Len(an) = Len(s) - y /\ \A x \in 1..y : s[x] = 48
          /\ \A x \in 1..Len(an) : an[x] = s[y + x]
          /\ z <= Len(t) /\ Len(bn) = Len(t) - z /\ \A x \in 1..z : t[x] = 48
          /\ \A x \in 1..Len(bn) : bn[x] = t[z + x]
      BY <1>3, <1>4 DEF Trims
    <3>2. y = z
      <4>1. Len(s) - y = Len(s) - z
        BY <1>16, <2>3, <3>1
      <4>2. Len(s) \in Int /\ y \in Int /\ z \in Int
        BY <1>1, <1>5
      <4> QED
        BY <4>1, <4>2
    <3>3. ASSUME NEW x \in 1..Len(s) PROVE s[x] = t[x]
      <4>1. CASE x <= y
        BY <3>1, <3>2, <4>1
      <4>2. CASE ~(x <= y)
        <5>1. x - y \in 1..Len(an) /\ y + (x - y) = x
          BY <1>1, <1>5, <3>1, <4>2
        <5> QED
          BY <2>1, <3>1, <3>2, <5>1
      <4> QED
        BY <4>1, <4>2
    <3> QED
      BY <1>1, <2>3, <3>3, SeqEqual DEF Text
  <2>4. Len(s) \in Int /\ Len(t) \in Int
    BY <1>1
  <2> QED
    BY <1>13, <2>1, <2>2, <2>3, <2>4, SignIs DEF s, t
<1> QED
  BY <1>14, <1>15, <1>16

-----------------------------------------------------------------------------
(* The loop of naturalCompare.                                             *)

\* One round at the positions in at, given what the next round returns.
Round(a, b, aa, bb, at, again) ==
  LET i == at[1]
      j == at[2]
  IN
  IF i > Len(aa) \/ j > Len(bb)
  THEN IF Len(aa) # Len(bb) THEN Sign(Len(aa), Len(bb)) ELSE Compare(a, b)
  ELSE IF IsDigit(aa[i]) /\ IsDigit(bb[j])
  THEN LET k == RunEnd(aa, i)
           l == RunEnd(bb, j)
       IN  IF NumbersOf(aa, bb, i, j, k, l) # 0 THEN NumbersOf(aa, bb, i, j, k, l) ELSE again[<<k, l>>]
  ELSE IF aa[i] # bb[j] THEN Sign(aa[i], bb[j]) ELSE again[<<i + 1, j + 1>>]

Positions(aa, bb) == (1..(Len(aa) + 1)) \X (1..(Len(bb) + 1))

Rounds(h, a, b, aa, bb) == h = [at \in Positions(aa, bb) |-> Round(a, b, aa, bb, at, h)]

\* The recursion by which NaturalCompare is defined has a solution.
LEMMA RoundsDefined ==
  ASSUME NEW a \in Text, NEW b \in Text, NEW aa \in Text, NEW bb \in Text
  PROVE  \E h : Rounds(h, a, b, aa, bb)
<1> DEFINE D == Positions(aa, bb)
           Over(i, j) == i > Len(aa) \/ j > Len(bb)
           Numeric(i, j) == IsDigit(aa[i]) /\ IsDigit(bb[j])
           number(i, j) == NumbersOf(aa, bb, i, j, RunEnd(aa, i), RunEnd(bb, j))
           Stops(i, j) == Over(i, j) \/ (IF Numeric(i, j) THEN number(i, j) # 0 ELSE aa[i] # bb[j])
           result(i, j) ==
             IF Over(i, j) THEN IF Len(aa) # Len(bb) THEN Sign(Len(aa), Len(bb)) ELSE Compare(a, b)
             ELSE IF Numeric(i, j) THEN number(i, j) ELSE Sign(aa[i], bb[j])
           follows(i, j) ==
             IF Numeric(i, j) THEN <<RunEnd(aa, i), RunEnd(bb, j)>> ELSE <<i + 1, j + 1>>
           stop == {at \in D : Stops(at[1], at[2])}
           val == [at \in D |-> result(at[1], at[2])]
           next == [at \in D |-> follows(at[1], at[2])]
<1>1. Len(aa) \in Nat /\ Len(bb) \in Nat
  BY TextBytes
<1>2. ASSUME NEW at \in D \ stop PROVE next[at] \in D
  <2>1. /\ at[1] \in 1..(Len(aa) + 1) /\ at[2] \in 1..(Len(bb) + 1)
        /\ ~(at[1] > Len(aa)) /\ ~(at[2] > Len(bb))
    BY DEF Positions
  <2>2. at[1] + 1 \in 1..(Len(aa) + 1) /\ at[2] + 1 \in 1..(Len(bb) + 1)
    BY <1>1, <2>1, SMTT(30)
  <2>3. RunEnd(aa, at[1]) \in at[1]..(Len(aa) + 1) /\ RunEnd(bb, at[2]) \in at[2]..(Len(bb) + 1)
    BY <2>1, RunEndIs
  <2>4. RunEnd(aa, at[1]) \in 1..(Len(aa) + 1) /\ RunEnd(bb, at[2]) \in 1..(Len(bb) + 1)
    BY <1>1, <2>1, <2>3
  <2>5. next[at] = follows(at[1], at[2])
    OBVIOUS
  <2> QED
    BY <2>2, <2>4, <2>5 DEF Positions
<1> HIDE DEF D, stop, val, next
<1>3. PICK h : Loops(h, D, stop, val, next)
  BY <1>2, LoopDefined
<1>4. h = [at \in D |-> IF at \in stop THEN val[at] ELSE h[next[at]]]
  BY <1>3 DEF Loops
<1>5. ASSUME NEW at \in D
      PROVE  (IF at \in stop THEN val[at] ELSE h[next[at]]) = Round(a, b, aa, bb, at, h)
  <2>1. at \in stop <=> Stops(at[1], at[2])
    BY DEF stop
  <2>2. val[at] = result(at[1], at[2]) /\ next[at] = follows(at[1], at[2])
    BY DEF val, next
  <2> QED
    BY <2>1, <2>2 DEF Round
<1>6. h = [at \in D |-> Round(a, b, aa, bb, at, h)]
  BY <1>4, <1>5
<1> QED
  BY <1>6 DEF Rounds, D

\* NaturalCompare is what the loop returns for the beginning of both names.
LEMMA CompareLoops ==
  ASSUME NEW a \in Text, NEW b \in Text, Lower(a) \in Text, Lower(b) \in Text
  PROVE  \E h : /\ NaturalCompare(a, b) = h[<<1, 1>>]
                /\ \A at \in Positions(Lower(a), Lower(b)) :
                     h[at] = Round(a, b, Lower(a), Lower(b), at, h)
<1> DEFINE aa == Lower(a)
           bb == Lower(b)
           h == CHOOSE g : Rounds(g, a, b, aa, bb)
<1>1. NaturalCompare(a, b) = h[<<1, 1>>]
  BY Zenon DEF NaturalCompare, Rounds, Round, NumbersOf, Positions
<1>2. Rounds(h, a, b, aa, bb)
  BY RoundsDefined
<1> HIDE DEF h, aa, bb
<1>3. \A at \in Positions(aa, bb) : h[at] = Round(a, b, aa, bb, at, h)
  <2>1. h = [at \in Positions(aa, bb) |-> Round(a, b, aa, bb, at, h)]
    BY <1>2 DEF Rounds
  <2> HIDE DEF Round
  <2> QED
    BY <2>1
<1> QED
  BY <1>1, <1>3 DEF aa, bb

\* A round at a common beginning: the tokens decide, or the next ones do, or
\* both names are at their end.
LEMMA RoundIs ==
  ASSUME NEW a \in Text, NEW b \in Text, NEW aa \in Text, NEW bb \in Text,
         NEW h, \A at \in Positions(aa, bb) : h[at] = Round(a, b, aa, bb, at, h),
         NEW i \in Common(aa, bb)
  PROVE  \/ TokenPrecedes(Token(aa, i), Token(bb, i)) /\ h[<<i, i>>] = -1
         \/ TokenPrecedes(Token(bb, i), Token(aa, i)) /\ h[<<i, i>>] = 1
         \/ /\ Token(aa, i) = Token(bb, i) /\ i \in 1..Len(aa)
            /\ TokenEnd(aa, i) \in Common(aa, bb)
            /\ h[<<i, i>>] = h[<<TokenEnd(aa, i), TokenEnd(aa, i)>>]
         \/ i = Len(aa) + 1 /\ aa = bb /\ h[<<i, i>>] = Compare(a, b)
<1> DEFINE s == Token(aa, i)
           t == Token(bb, i)
           at == <<i, i>>
<1>1. /\ Len(aa) \in Nat /\ DOMAIN aa = 1..Len(aa)
      /\ Len(bb) \in Nat /\ DOMAIN bb = 1..Len(bb)
  BY TextBytes
<1>2. /\ i \in Nat /\ i \in 1..(Len(aa) + 1) /\ i \in 1..(Len(bb) + 1)
      /\ \A k \in 1..(i - 1) : aa[k] = bb[k]
  BY <1>1 DEF Common, Begins, Agree
<1>bounds. Len(aa) \in Nat /\ Len(bb) \in Nat /\ i \in Nat /\ i <= Len(aa) + 1 /\ i <= Len(bb) + 1
  BY <1>1, <1>2
<1>3. /\ IsToken(s) /\ (s = <<>> <=> i = Len(aa) + 1)
      /\ IsToken(t) /\ (t = <<>> <=> i = Len(bb) + 1)
  BY <1>2, TokenKnown
<1>4. h[at] = Round(a, b, aa, bb, at, h) /\ at[1] = i /\ at[2] = i
  BY <1>2 DEF Positions
<1> HIDE DEF at, s, t
<1>5. CASE i = Len(aa) + 1 /\ i = Len(bb) + 1
  <2>1. aa = bb
    BY <1>1, <1>2, <1>5, SeqEqual DEF Text
  <2>2. i > Len(aa) /\ Len(aa) = Len(bb)
    BY <1>bounds, <1>5
  <2>3. h[at] = Compare(a, b)
    BY <1>4, <2>2 DEF Round
  <2> QED
    BY <1>5, <2>1, <2>3 DEF at
<1>6. CASE i = Len(aa) + 1 /\ i # Len(bb) + 1
  <2>1. i > Len(aa) /\ Len(aa) # Len(bb) /\ Len(aa) < Len(bb)
    BY <1>bounds, <1>6
  <2>2. h[at] = Sign(Len(aa), Len(bb))
    BY <1>4, <2>1 DEF Round
  <2>3. TokenPrecedes(s, t)
    BY <1>3, <1>6 DEF TokenPrecedes
  <2>4. h[at] = -1
    BY <1>bounds, <2>1, <2>2, SignIs
  <2> QED
    BY <2>3, <2>4 DEF at, s, t
<1>7. CASE i # Len(aa) + 1 /\ i = Len(bb) + 1
  <2>1. i > Len(bb) /\ Len(aa) # Len(bb) /\ Len(aa) > Len(bb)
    BY <1>bounds, <1>7
  <2>2. h[at] = Sign(Len(aa), Len(bb))
    BY <1>4, <2>1 DEF Round
  <2>3. TokenPrecedes(t, s)
    BY <1>3, <1>7 DEF TokenPrecedes
  <2>4. h[at] = 1
    BY <1>bounds, <2>1, <2>2, SignIs
  <2> QED
    BY <2>3, <2>4 DEF at, s, t
<1>8. CASE i # Len(aa) + 1 /\ i # Len(bb) + 1
  <2>1. i \in 1..Len(aa) /\ i \in 1..Len(bb) /\ ~(i > Len(aa) \/ i > Len(bb))
    BY <1>1, <1>2, <1>8
  <2>2. s[1] = aa[i] /\ t[1] = bb[i] /\ aa[i] \in Nat /\ bb[i] \in Nat /\ s # <<>> /\ t # <<>>
    <3>1. s[1] = aa[i] /\ t[1] = bb[i]
      BY <2>1, TokenIs DEF s, t
    <3>2. aa[i] \in Nat /\ bb[i] \in Nat
      BY <2>1, TextBytes
    <3> QED
      BY <1>3, <1>8, <3>1, <3>2
  <2>3. s = t => TokenEnd(aa, i) = TokenEnd(bb, i) /\ TokenEnd(aa, i) \in Common(aa, bb)
    BY <2>1, NextCommon DEF s, t
  <2>4. CASE IsDigit(aa[i]) /\ IsDigit(bb[i])
    <3> DEFINE n == NumbersOf(aa, bb, i, i, RunEnd(aa, i), RunEnd(bb, i))
    <3>1. h[at] = IF n # 0 THEN n ELSE h[<<RunEnd(aa, i), RunEnd(bb, i)>>]
      BY <1>4, <2>1, <2>4 DEF Round
    <3>2. n \in {-1, 0, 1} /\ (n = -1 => TokenPrecedes(s, t)) /\ (n = 1 => TokenPrecedes(t, s)) /\ (n = 0 => s = t)
      BY <2>1, <2>4, NumbersAre DEF s, t
    <3>3. TokenEnd(aa, i) = RunEnd(aa, i) /\ TokenEnd(bb, i) = RunEnd(bb, i)
      BY <2>4 DEF TokenEnd
    <3> HIDE DEF n
    <3> QED
      BY <2>1, <2>3, <3>1, <3>2, <3>3 DEF at, s, t
  <2>5. CASE ~(IsDigit(aa[i]) /\ IsDigit(bb[i])) /\ aa[i] # bb[i]
    <3>1. h[at] = Sign(aa[i], bb[i])
      BY <1>4, <2>1, <2>5 DEF Round
    <3>2. /\ TokenPrecedes(s, t) <=> aa[i] < bb[i]
          /\ TokenPrecedes(t, s) <=> bb[i] < aa[i]
      BY <2>2, <2>5 DEF TokenPrecedes
    <3> QED
      BY <2>2, <2>5, <3>1, <3>2, SignIs DEF at, s, t
  <2>6. CASE ~(IsDigit(aa[i]) /\ IsDigit(bb[i])) /\ aa[i] = bb[i]
    <3>1. h[at] = h[<<i + 1, i + 1>>]
      BY <1>4, <2>1, <2>6 DEF Round
    <3>2. TokenEnd(aa, i) = i + 1 /\ TokenEnd(bb, i) = i + 1 /\ (i + 1) - i = 1
      BY <1>2, <2>6 DEF TokenEnd
    <3>3. s \in Text /\ t \in Text /\ Len(s) = 1 /\ Len(t) = 1
      <4>1. /\ s \in Text /\ Len(s) = TokenEnd(aa, i) - i
            /\ t \in Text /\ Len(t) = TokenEnd(bb, i) - i
        BY <2>1, TokenIs DEF s, t
      <4> QED
        BY <3>2, <4>1
    <3>4. s = t
      <4>1. \A k \in 1..Len(s) : s[k] = t[k]
        BY <2>2, <2>6, <3>3
      <4> QED
        BY <3>3, <4>1, SeqEqual DEF Text
    <3> QED
      BY <2>1, <2>3, <3>1, <3>2, <3>4 DEF at, s, t
  <2> QED
    BY <2>4, <2>5, <2>6
<1> QED
  BY <1>5, <1>6, <1>7, <1>8

\* From i on, a token of x precedes that of y, or the names are the same but for
\* case and x is the smaller one.
FirstFrom(i, xx, yy) ==
  \E m \in Common(xx, yy) : m >= i /\ TokenPrecedes(Token(xx, m), Token(yy, m))

\* Before a common beginning nothing was decided.
LEMMA NotBefore ==
  ASSUME NEW aa \in Text, NEW bb \in Text, NEW i \in Common(aa, bb), NEW m \in Common(aa, bb),
         i < m
  PROVE  /\ Token(aa, i) = Token(bb, i) /\ i \in 1..Len(aa) /\ m >= TokenEnd(aa, i)
         /\ ~TokenPrecedes(Token(aa, i), Token(bb, i))
<1>1. /\ Len(aa) \in Nat /\ DOMAIN aa = 1..Len(aa)
      /\ Len(bb) \in Nat /\ DOMAIN bb = 1..Len(bb)
  BY TextBytes
<1>2. i \in Nat /\ m \in Nat /\ i \in 1..(m - 1) /\ i \in 1..(Len(aa) + 1)
  BY <1>1 DEF Common, Begins
<1>3. /\ Token(aa, i) = Token(bb, i) /\ i \in 1..Len(aa) /\ TokenEnd(aa, i) <= m
      /\ TokenEnd(aa, i) \in Nat
  BY <1>2, TokensBefore, TokenIs
<1>4. IsToken(Token(aa, i))
  BY <1>2, TokenKnown
<1> QED
  BY <1>2, <1>3, <1>4, PrecedesOnce

\* What the loop returns from a common beginning.
Meant(h, a, b, aa, bb, i) ==
  /\ h[<<i, i>>] \in {-1, 0, 1}
  /\ h[<<i, i>>] = -1 <=> FirstFrom(i, aa, bb) \/ (aa = bb /\ Compare(a, b) = -1)
  /\ h[<<i, i>>] = 1 <=> FirstFrom(i, bb, aa) \/ (aa = bb /\ Compare(a, b) = 1)
  /\ h[<<i, i>>] = 0 <=> aa = bb /\ Compare(a, b) = 0

\* Either name may come first.
LEMMA CommonEitherWay ==
  ASSUME NEW aa, NEW bb
  PROVE  Common(aa, bb) = Common(bb, aa)
  BY DEF Common, Agree

\* Of a common beginning it is true if it is of those that follow.
LEMMA LoopIsMeant ==
  ASSUME NEW a \in Text, NEW b \in Text, NEW aa \in Text, NEW bb \in Text,
         NEW h, \A at \in Positions(aa, bb) : h[at] = Round(a, b, aa, bb, at, h),
         NEW i \in Common(aa, bb),
         \A m \in Common(aa, bb) : i < m => Meant(h, a, b, aa, bb, m)
  PROVE  Meant(h, a, b, aa, bb, i)
<1> DEFINE s == Token(aa, i)
           t == Token(bb, i)
           r == h[<<i, i>>]
<1>1. Len(aa) \in Nat /\ DOMAIN aa = 1..Len(aa) /\ Len(bb) \in Nat /\ DOMAIN bb = 1..Len(bb)
  BY TextBytes
<1>2. /\ i \in Nat /\ i \in 1..(Len(aa) + 1) /\ i \in 1..(Len(bb) + 1) /\ i \in Common(bb, aa)
      /\ \A m \in Common(aa, bb) : m \in Nat /\ m <= Len(aa) + 1
      /\ Common(bb, aa) = Common(aa, bb)
  <2>1. Common(bb, aa) = Common(aa, bb)
    BY CommonEitherWay
  <2>2. \A m \in Common(aa, bb) : m \in 1..(Len(aa) + 1) /\ m \in 1..(Len(bb) + 1)
    BY <1>1 DEF Common, Begins
  <2>3. \A m \in 1..(Len(aa) + 1) : m \in Nat /\ m <= Len(aa) + 1
    BY <1>1
  <2> QED
    BY <2>1, <2>2, <2>3
<1>3. IsToken(s) /\ IsToken(t)
  BY <1>2, TokenKnown
<1>4. \A m \in Common(aa, bb) : i < m =>
        /\ s = t /\ i \in 1..Len(aa) /\ m >= TokenEnd(aa, i)
        /\ ~TokenPrecedes(s, t) /\ ~TokenPrecedes(t, s)
  BY <1>2, NotBefore
<1>5. /\ FirstFrom(i, aa, bb) <=>
           TokenPrecedes(s, t) \/ \E m \in Common(aa, bb) : m > i /\ TokenPrecedes(Token(aa, m), Token(bb, m))
      /\ FirstFrom(i, bb, aa) <=>
           TokenPrecedes(t, s) \/ \E m \in Common(aa, bb) : m > i /\ TokenPrecedes(Token(bb, m), Token(aa, m))
  <2>1. \A m \in Common(aa, bb) : m >= i <=> m = i \/ m > i
    BY <1>2
  <2> QED
    BY <1>2, <2>1 DEF FirstFrom
<1>6. Compare(a, b) \in {-1, 0, 1}
  BY CompareIs
<1>7. aa = bb => s = t
  OBVIOUS
<1> HIDE DEF s, t, r
<1>8. s = t => ~TokenPrecedes(s, t) /\ ~TokenPrecedes(t, s)
  BY <1>3, PrecedesOnce
<1>9. CASE TokenPrecedes(s, t) /\ r = -1
  <2>1. s # t /\ ~TokenPrecedes(t, s)
    BY <1>3, <1>9, PrecedesOnce
  <2>2. FirstFrom(i, aa, bb) /\ ~FirstFrom(i, bb, aa) /\ aa # bb
    BY <1>4, <1>5, <1>7, <1>9, <2>1
  <2> QED
    BY <1>9, <2>2 DEF Meant, r
<1>10. CASE TokenPrecedes(t, s) /\ r = 1
  <2>1. s # t /\ ~TokenPrecedes(s, t)
    BY <1>3, <1>10, PrecedesOnce
  <2>2. FirstFrom(i, bb, aa) /\ ~FirstFrom(i, aa, bb) /\ aa # bb
    BY <1>4, <1>5, <1>7, <1>10, <2>1
  <2> QED
    BY <1>10, <2>2 DEF Meant, r
<1>11. CASE /\ s = t /\ i \in 1..Len(aa) /\ TokenEnd(aa, i) \in Common(aa, bb)
            /\ r = h[<<TokenEnd(aa, i), TokenEnd(aa, i)>>]
  <2> DEFINE e == TokenEnd(aa, i)
  <2>1. e \in Nat /\ i < e
    BY <1>11, TokenIs
  <2> HIDE DEF e
  <2>2. e \in Common(aa, bb) /\ r = h[<<e, e>>]
    BY <1>11 DEF e
  <2>3. Meant(h, a, b, aa, bb, e)
    BY <2>1, <2>2
  <2>4. \A m \in Common(aa, bb) : m > i <=> m >= e
    BY <1>2, <1>4, <2>1 DEF e
  <2>5. /\ FirstFrom(i, aa, bb) <=> FirstFrom(e, aa, bb)
        /\ FirstFrom(i, bb, aa) <=> FirstFrom(e, bb, aa)
    BY <1>2, <1>5, <1>8, <1>11, <2>4 DEF FirstFrom
  <2> QED
    BY <2>2, <2>3, <2>5 DEF Meant, r
<1>12. CASE i = Len(aa) + 1 /\ aa = bb /\ r = Compare(a, b)
  <2>1. \A m \in Common(aa, bb) : ~(m > i)
    BY <1>1, <1>2, <1>12
  <2>2. ~FirstFrom(i, bb, aa) /\ ~FirstFrom(i, aa, bb)
    BY <1>5, <1>7, <1>8, <1>12, <2>1
  <2> QED
    BY <1>6, <1>12, <2>2 DEF Meant, r
<1> QED
  BY <1>9, <1>10, <1>11, <1>12, RoundIs DEF s, t, r

\* A text in lower case is a text.
LEMMA LowerIs ==
  ASSUME NEW a \in Text
  PROVE  Lower(a) \in Text
<1>1. Len(a) \in Nat /\ DOMAIN a = 1..Len(a)
  BY TextBytes
<1>2. ASSUME NEW i \in 1..Len(a) PROVE LowerByte(a[i]) \in 0..255
  <2>1. a[i] \in Nat /\ a[i] <= 255
    BY TextBytes
  <2>2. \A v \in Nat : v <= 255 => LowerByte(v) \in 0..255
    BY DEF LowerByte
  <2> QED
    BY <2>1, <2>2
<1>3. Lower(a) = [i \in 1..Len(a) |-> LowerByte(a[i])]
  BY <1>1 DEF Lower
<1> QED
  BY <1>1, <1>2, <1>3 DEF Text

\* Precedes, by common beginnings.
LEMMA PrecedesIs ==
  ASSUME NEW a \in Text, NEW b \in Text
  PROVE  Precedes(a, b) <=> \/ FirstFrom(1, Lower(a), Lower(b))
                            \/ Lower(a) = Lower(b) /\ Compare(a, b) = -1
<1> DEFINE aa == Lower(a)
           bb == Lower(b)
<1>1. aa \in Text /\ bb \in Text
  BY LowerIs
<1> HIDE DEF aa, bb
<1>2. /\ Len(aa) \in Nat /\ DOMAIN aa = 1..Len(aa)
      /\ Len(bb) \in Nat /\ DOMAIN bb = 1..Len(bb)
  BY <1>1, TextBytes
<1>3. ASSUME NEW i \in Begins(aa) \cap Begins(bb)
      PROVE  /\ SubSeq(aa, 1, i - 1) = SubSeq(bb, 1, i - 1) <=> Agree(aa, bb, i)
             /\ i \in Nat /\ i >= 1
  <2>1. i \in 1..(Len(aa) + 1) /\ i \in 1..(Len(bb) + 1)
    BY <1>2 DEF Begins
  <2>2. i \in Nat /\ i >= 1 /\ 1 \in 1..(Len(aa) + 1) /\ 1 \in 1..(Len(bb) + 1)
    BY <1>2, <2>1
  <2> DEFINE x == SubSeq(aa, 1, i - 1)
             y == SubSeq(bb, 1, i - 1)
  <2>3. /\ x \in Text /\ Len(x) = i - 1 /\ \A k \in 1..(i - 1) : x[k] = aa[1 + k - 1]
        /\ y \in Text /\ Len(y) = i - 1 /\ \A k \in 1..(i - 1) : y[k] = bb[1 + k - 1]
    BY <1>1, <2>1, <2>2, PartIs
  <2>4. \A k \in 1..(i - 1) : 1 + k - 1 = k
    BY <2>2
  <2> HIDE DEF x, y
  <2>5. \A k \in 1..(i - 1) : x[k] = aa[k] /\ y[k] = bb[k]
    BY <2>3, <2>4
  <2>6. ASSUME Agree(aa, bb, i) PROVE x = y
    <3>1. \A k \in 1..Len(x) : x[k] = y[k]
      BY <2>3, <2>5, <2>6 DEF Agree
    <3> QED
      BY <2>3, <3>1, SeqEqual DEF Text
  <2>7. x = y => Agree(aa, bb, i)
    BY <2>5 DEF Agree
  <2> QED
    BY <2>2, <2>6, <2>7 DEF x, y
<1>4. Precedes(a, b) <=>
        \/ \E i \in Begins(aa) \cap Begins(bb) :
             SubSeq(aa, 1, i - 1) = SubSeq(bb, 1, i - 1) /\ TokenPrecedes(Token(aa, i), Token(bb, i))
        \/ aa = bb /\ Compare(a, b) = -1
  BY DEF Precedes, aa, bb
<1>5. FirstFrom(1, aa, bb) <=>
        \E i \in Begins(aa) \cap Begins(bb) :
          SubSeq(aa, 1, i - 1) = SubSeq(bb, 1, i - 1) /\ TokenPrecedes(Token(aa, i), Token(bb, i))
  BY <1>3 DEF FirstFrom, Common
<1> QED
  BY <1>4, <1>5 DEF aa, bb

\* naturalCompare orders page names as they are meant to be ordered, whatever
\* their length: the first letter or number that differs decides.  The names are
\* all of those that strings.ToLower lowers as Lower does, see NaturalOrder.
THEOREM OrderIsMeant ==
  ASSUME NEW a \in Text, NEW b \in Text
  PROVE  /\ NaturalCompare(a, b) \in {-1, 0, 1}
         /\ NaturalCompare(a, b) = -1 <=> Precedes(a, b)
         /\ NaturalCompare(a, b) = 1 <=> Precedes(b, a)
         /\ NaturalCompare(a, b) = 0 <=> a = b
<1> DEFINE aa == Lower(a)
           bb == Lower(b)
<1>1. aa \in Text /\ bb \in Text
  BY LowerIs
<1>2. PICK h : /\ NaturalCompare(a, b) = h[<<1, 1>>]
               /\ \A at \in Positions(aa, bb) : h[at] = Round(a, b, aa, bb, at, h)
  BY <1>1, CompareLoops
<1>3. a = b => aa = bb
  OBVIOUS
<1>4. (Precedes(a, b) <=> FirstFrom(1, aa, bb) \/ (aa = bb /\ Compare(a, b) = -1))
      /\ (Precedes(b, a) <=> FirstFrom(1, bb, aa) \/ (aa = bb /\ Compare(b, a) = -1))
  BY PrecedesIs
<1> HIDE DEF aa, bb
<1>5. Len(aa) \in Nat /\ DOMAIN aa = 1..Len(aa) /\ Len(bb) \in Nat /\ DOMAIN bb = 1..Len(bb)
  BY <1>1, TextBytes
<1>6. \A i \in Common(aa, bb) : i \in Nat /\ Len(aa) + 1 - i \in Nat
  <2>1. \A i \in Common(aa, bb) : i \in 1..(Len(aa) + 1)
    BY <1>5 DEF Common, Begins
  <2> QED
    BY <1>5, <2>1
<1> DEFINE Bad == {n \in Nat : \E i \in Common(aa, bb) : n = Len(aa) + 1 - i /\ ~Meant(h, a, b, aa, bb, i)}
<1>7. Bad = {}
  <2> SUFFICES ASSUME Bad # {} PROVE FALSE
    OBVIOUS
  <2>1. PICK n \in Bad : \A m \in Bad : n <= m
    <3>1. Bad \in SUBSET Nat
      OBVIOUS
    <3> HIDE DEF Bad
    <3> QED
      BY <3>1, NatMin
  <2>2. PICK i \in Common(aa, bb) : n = Len(aa) + 1 - i /\ ~Meant(h, a, b, aa, bb, i)
    BY <2>1
  <2>3. ASSUME NEW m \in Common(aa, bb), i < m PROVE Meant(h, a, b, aa, bb, m)
    <3> SUFFICES ASSUME ~Meant(h, a, b, aa, bb, m) PROVE FALSE
      OBVIOUS
    <3>1. Len(aa) + 1 - m \in Bad
      BY <1>6
    <3>2. n <= Len(aa) + 1 - m
      BY <2>1, <3>1
    <3>3. Len(aa) \in Nat /\ i \in Nat /\ m \in Nat
      BY <1>5, <1>6
    <3> QED
      BY <2>2, <2>3, <3>2, <3>3
  <2> QED
    BY <1>1, <1>2, <2>2, <2>3, LoopIsMeant
<1>8. \A i \in Common(aa, bb) : Meant(h, a, b, aa, bb, i)
  BY <1>6, <1>7
<1>9. 1 \in Common(aa, bb)
  BY <1>5 DEF Common, Begins, Agree
<1>10. Meant(h, a, b, aa, bb, 1)
  BY <1>8, <1>9
<1>11. /\ Compare(a, b) = 0 <=> a = b
       /\ Compare(a, b) = 1 <=> Compare(b, a) = -1
  BY CompareIs
<1> QED
  BY <1>2, <1>3, <1>4, <1>10, <1>11 DEF Meant

\* It is transitive, which sort.SliceStable needs of its argument.
THEOREM OrderIsTransitive ==
  ASSUME NEW a \in Text, NEW b \in Text, NEW c \in Text, Precedes(a, b), Precedes(b, c)
  PROVE  Precedes(a, c)
<1> DEFINE aa == Lower(a)
           bb == Lower(b)
           cc == Lower(c)
<1>1. aa \in Text /\ bb \in Text /\ cc \in Text
  BY LowerIs
<1>2. /\ Precedes(a, b) <=> FirstFrom(1, aa, bb) \/ (aa = bb /\ Compare(a, b) = -1)
      /\ Precedes(b, c) <=> FirstFrom(1, bb, cc) \/ (bb = cc /\ Compare(b, c) = -1)
      /\ Precedes(a, c) <=> FirstFrom(1, aa, cc) \/ (aa = cc /\ Compare(a, c) = -1)
  BY PrecedesIs
<1> HIDE DEF aa, bb, cc
<1>3. CASE aa = bb /\ Compare(a, b) = -1 /\ bb = cc /\ Compare(b, c) = -1
  <2>1. Smaller(a, b) /\ Smaller(b, c)
    BY <1>3, CompareIs
  <2>2. Smaller(a, c)
    BY <2>1, SmallerTransitive
  <2> QED
    BY <1>2, <1>3, <2>2, CompareIs
<1>4. CASE aa = bb /\ FirstFrom(1, bb, cc)
  BY <1>2, <1>4
<1>5. CASE FirstFrom(1, aa, bb) /\ bb = cc
  BY <1>2, <1>5
<1>6. CASE FirstFrom(1, aa, bb) /\ FirstFrom(1, bb, cc)
  <2>1. PICK m \in Common(aa, bb) : m >= 1 /\ TokenPrecedes(Token(aa, m), Token(bb, m))
    BY <1>6 DEF FirstFrom
  <2>2. PICK n \in Common(bb, cc) : n >= 1 /\ TokenPrecedes(Token(bb, n), Token(cc, n))
    BY <1>6 DEF FirstFrom
  <2>3. /\ Len(aa) \in Nat /\ DOMAIN aa = 1..Len(aa)
        /\ Len(bb) \in Nat /\ DOMAIN bb = 1..Len(bb)
        /\ Len(cc) \in Nat /\ DOMAIN cc = 1..Len(cc)
    BY <1>1, TextBytes
  <2>4. /\ m \in Begins(aa) /\ m \in Begins(bb) /\ Agree(aa, bb, m)
        /\ n \in Begins(bb) /\ n \in Begins(cc) /\ Agree(bb, cc, n)
        /\ m \in 1..(Len(aa) + 1) /\ m \in 1..(Len(bb) + 1)
        /\ n \in 1..(Len(bb) + 1) /\ n \in 1..(Len(cc) + 1)
    BY <2>3 DEF Common, Begins
  <2>5. m \in Nat /\ n \in Nat
    BY <2>3, <2>4
  <2>6. CASE m = n
    <3>1. m \in Common(aa, cc)
      BY <2>4, <2>6 DEF Common, Agree
    <3>2. IsToken(Token(aa, m)) /\ IsToken(Token(bb, m)) /\ IsToken(Token(cc, m))
      BY <1>1, <2>4, <2>6, TokenKnown
    <3>3. TokenPrecedes(Token(aa, m), Token(cc, m))
      BY <2>1, <2>2, <2>6, <3>2, PrecedesTransitive
    <3> QED
      BY <1>2, <2>1, <3>1, <3>3 DEF FirstFrom
  <2>7. CASE m < n
    <3>1. m \in 1..(n - 1)
      BY <2>1, <2>5, <2>7
    <3>2. Token(bb, m) = Token(cc, m) /\ m \in 1..Len(cc) /\ m \in 1..Len(bb)
      BY <1>1, <3>1, TokensBefore
    <3>3. Agree(aa, cc, m)
      BY <2>4, <2>5, <2>7 DEF Agree
    <3>4. m > 1 => m - 1 \in 1..(n - 1)
      BY <2>5, <2>7
    <3>5. m \in Begins(cc)
      <4>1. m > 1 => ~(IsDigit(bb[m - 1]) /\ IsDigit(bb[m]))
        <5>1. m # Len(bb) + 1
          BY <2>3, <3>2
        <5> QED
          BY <2>4, <5>1 DEF Begins
      <4>2. bb[m] = cc[m] /\ (m > 1 => bb[m - 1] = cc[m - 1])
        BY <2>4, <3>1, <3>4 DEF Agree
      <4> QED
        BY <2>3, <3>2, <4>1, <4>2 DEF Begins
    <3>6. m \in Common(aa, cc)
      BY <2>4, <3>3, <3>5 DEF Common
    <3> QED
      BY <1>2, <2>1, <3>2, <3>6 DEF FirstFrom
  <2>8. CASE n < m
    <3>1. n \in 1..(m - 1)
      BY <2>2, <2>5, <2>8
    <3>2. Token(aa, n) = Token(bb, n) /\ n \in 1..Len(aa) /\ n \in 1..Len(bb)
      BY <1>1, <3>1, TokensBefore
    <3>3. Agree(aa, cc, n)
      BY <2>4, <2>5, <2>8 DEF Agree
    <3>4. n > 1 => n - 1 \in 1..(m - 1)
      BY <2>5, <2>8
    <3>5. n \in Begins(aa)
      <4>1. n > 1 => ~(IsDigit(bb[n - 1]) /\ IsDigit(bb[n]))
        <5>1. n # Len(bb) + 1
          BY <2>3, <3>2
        <5> QED
          BY <2>4, <5>1 DEF Begins
      <4>2. bb[n] = aa[n] /\ (n > 1 => bb[n - 1] = aa[n - 1])
        BY <2>4, <3>1, <3>4 DEF Agree
      <4> QED
        BY <2>3, <3>2, <4>1, <4>2 DEF Begins
    <3>6. n \in Common(aa, cc)
      BY <2>4, <3>3, <3>5 DEF Common
    <3> QED
      BY <1>2, <2>2, <3>2, <3>6 DEF FirstFrom
  <2> QED
    BY <2>5, <2>6, <2>7, <2>8
<1> QED
  BY <1>2, <1>3, <1>4, <1>5, <1>6

-----------------------------------------------------------------------------
(* The walk over a ZIP directory.                                          *)

\* One step of the walk at an offset, after a number of headers, given what the
\* next step returns.
HeaderStep(end, headers, maxEntries, at, again) ==
  LET offset == at[1]
      actual == at[2]
  IN
  IF offset >= EndOffset(end) THEN IF actual = end.count THEN "ok" ELSE "corrupt"
  ELSE IF EndOffset(end) - offset < zipCDSize \/ offset \notin DOMAIN headers THEN "corrupt"
  ELSE IF actual + 1 > maxEntries THEN "entries"
  ELSE IF headers[offset].disk # 0 THEN "unsupported"
  ELSE IF HeaderSize(headers[offset]) > EndOffset(end) - offset THEN "corrupt"
  ELSE again[<<offset + HeaderSize(headers[offset]), actual + 1>>]

Steps(h, end, headers, maxEntries) ==
  h = [at \in Nat \X (0..maxEntries) |-> HeaderStep(end, headers, maxEntries, at, h)]

\* The headers that a scan may meet: finitely many, at offsets of the file.
HeadersKnown(headers) ==
  IsFiniteSet(DOMAIN headers) /\ \A o \in DOMAIN headers : o \in Nat /\ headers[o] \in Header

\* A header takes room.
LEMMA HeaderTakesRoom ==
  ASSUME NEW headers, HeadersKnown(headers), NEW o \in DOMAIN headers
  PROVE  /\ o \in Nat /\ HeaderSize(headers[o]) \in Nat /\ HeaderSize(headers[o]) >= zipCDSize
         /\ headers[o].disk \in Nat
  BY DEF HeadersKnown, Header, HeaderSize, zipCDSize

\* The recursion by which Walk is defined has a solution.
LEMMA StepsDefined ==
  ASSUME NEW end, NEW headers, HeadersKnown(headers), NEW maxEntries \in Nat
  PROVE  \E h : Steps(h, end, headers, maxEntries)
<1> DEFINE D == Nat \X (0..maxEntries)
           Over(o) == o >= EndOffset(end)
           Bad(o) == EndOffset(end) - o < zipCDSize \/ o \notin DOMAIN headers
           Long(o) == HeaderSize(headers[o]) > EndOffset(end) - o
           Stops(o, n) == Over(o) \/ Bad(o) \/ n + 1 > maxEntries \/ headers[o].disk # 0 \/ Long(o)
           result(o, n) ==
             IF Over(o) THEN IF n = end.count THEN "ok" ELSE "corrupt"
             ELSE IF Bad(o) THEN "corrupt"
             ELSE IF n + 1 > maxEntries THEN "entries"
             ELSE IF headers[o].disk # 0 THEN "unsupported" ELSE "corrupt"
           stop == {at \in D : Stops(at[1], at[2])}
           val == [at \in D |-> result(at[1], at[2])]
           next == [at \in D |-> <<at[1] + HeaderSize(headers[at[1]]), at[2] + 1>>]
<1>1. ASSUME NEW at \in D \ stop PROVE next[at] \in D
  <2>1. at[1] \in Nat /\ at[2] \in 0..maxEntries /\ ~Stops(at[1], at[2])
    OBVIOUS
  <2>2. at[1] \in DOMAIN headers /\ ~(at[2] + 1 > maxEntries)
    BY <2>1
  <2>3. HeaderSize(headers[at[1]]) \in Nat
    BY <2>2, HeaderTakesRoom
  <2>4. at[1] + HeaderSize(headers[at[1]]) \in Nat /\ at[2] + 1 \in 0..maxEntries
    BY <2>1, <2>2, <2>3
  <2> QED
    BY <2>4
<1> HIDE DEF D, stop, val, next
<1>2. PICK h : Loops(h, D, stop, val, next)
  BY <1>1, LoopDefined
<1>3. h = [at \in D |-> IF at \in stop THEN val[at] ELSE h[next[at]]]
  BY <1>2 DEF Loops
<1>4. ASSUME NEW at \in D
      PROVE  (IF at \in stop THEN val[at] ELSE h[next[at]]) = HeaderStep(end, headers, maxEntries, at, h)
  <2>1. at \in stop <=> Stops(at[1], at[2])
    BY DEF stop
  <2>2. /\ val[at] = result(at[1], at[2])
        /\ next[at] = <<at[1] + HeaderSize(headers[at[1]]), at[2] + 1>>
    BY DEF val, next
  <2> QED
    BY <2>1, <2>2 DEF HeaderStep
<1>5. h = [at \in D |-> HeaderStep(end, headers, maxEntries, at, h)]
  BY <1>3, <1>4
<1> QED
  BY <1>5 DEF Steps, D

\* Walk is what the steps return from the directory's offset.
LEMMA WalkSteps ==
  ASSUME NEW end, NEW headers, HeadersKnown(headers), NEW maxEntries \in Nat
  PROVE  \E h : /\ Walk(end, headers, maxEntries) = h[<<end.directoryOffset, 0>>]
                /\ \A o \in Nat, n \in 0..maxEntries :
                     h[<<o, n>>] = HeaderStep(end, headers, maxEntries, <<o, n>>, h)
<1> DEFINE h == CHOOSE g : Steps(g, end, headers, maxEntries)
<1>1. Walk(end, headers, maxEntries) = h[<<end.directoryOffset, 0>>]
  BY Zenon DEF Walk, Steps, HeaderStep
<1>2. Steps(h, end, headers, maxEntries)
  BY StepsDefined
<1> HIDE DEF h
<1>3. h = [at \in Nat \X (0..maxEntries) |-> HeaderStep(end, headers, maxEntries, at, h)]
  BY <1>2 DEF Steps
<1> HIDE DEF HeaderStep
<1>4. \A o \in Nat, n \in 0..maxEntries :
        h[<<o, n>>] = HeaderStep(end, headers, maxEntries, <<o, n>>, h)
  BY <1>3
<1> QED
  BY <1>1, <1>4

\* Induction over the walk, from its end.
LEMMA FromTheEnd ==
  ASSUME NEW maxEntries \in Nat, NEW T,
         \A o \in Nat, n \in 0..maxEntries :
           (\A p \in Nat : n + 1 <= maxEntries => <<p, n + 1>> \in T) => <<o, n>> \in T
  PROVE  \A o \in Nat, n \in 0..maxEntries : <<o, n>> \in T
<1> DEFINE Good == {m \in Nat : \A o \in Nat, n \in 0..maxEntries : maxEntries - n = m => <<o, n>> \in T}
<1>1. 0 \in Good
  <2>1. \A n \in 0..maxEntries : maxEntries - n = 0 => ~(n + 1 <= maxEntries)
    OBVIOUS
  <2> QED
    BY <2>1
<1>2. ASSUME NEW m \in Nat, m \in Good PROVE m + 1 \in Good
  <2> SUFFICES ASSUME NEW o \in Nat, NEW n \in 0..maxEntries, maxEntries - n = m + 1
               PROVE  <<o, n>> \in T
    OBVIOUS
  <2>1. n + 1 \in 0..maxEntries /\ maxEntries - (n + 1) = m
    OBVIOUS
  <2>2. \A p \in Nat : <<p, n + 1>> \in T
    BY <1>2, <2>1
  <2> QED
    BY <2>2
<1> HIDE DEF Good
<1>3. Nat \subseteq Good
  BY <1>1, <1>2, NatInduct
<1>4. \A n \in 0..maxEntries : maxEntries - n \in Nat
  OBVIOUS
<1> QED
  BY <1>3, <1>4 DEF Good

\* The headers in S tile the directory from an offset on.
TilesFrom(end, headers, offset, S) ==
  /\ S \subseteq {o \in DOMAIN headers : o < EndOffset(end)}
  /\ offset \in S \cup {EndOffset(end)}
  /\ \A o \in S : o >= offset /\ headers[o].disk = 0
                  /\ o + HeaderSize(headers[o]) \in S \cup {EndOffset(end)}
  /\ \A o \in S : o = offset \/ \E p \in S : p + HeaderSize(headers[p]) = o

\* A set of header offsets is finite.
LEMMA HeadersFinite ==
  ASSUME NEW end, NEW headers, HeadersKnown(headers), NEW offset, NEW S,
         TilesFrom(end, headers, offset, S)
  PROVE  IsFiniteSet(S) /\ Cardinality(S) \in Nat /\ S \subseteq DOMAIN headers
<1>1. S \subseteq DOMAIN headers
  BY DEF TilesFrom
<1> QED
  BY <1>1, FS_Subset, FS_CardinalityType DEF HeadersKnown

\* One header before those that tile the rest.
LEMMA HeaderAdded ==
  ASSUME NEW end, NEW headers, HeadersKnown(headers), EndOffset(end) \in Int,
         NEW o \in DOMAIN headers, o < EndOffset(end), headers[o].disk = 0,
         NEW S, TilesFrom(end, headers, o + HeaderSize(headers[o]), S)
  PROVE  /\ TilesFrom(end, headers, o, S \cup {o})
         /\ Cardinality(S \cup {o}) = Cardinality(S) + 1
<1> DEFINE next == o + HeaderSize(headers[o])
<1>1. o \in Nat /\ next \in Nat /\ o < next
  BY HeaderTakesRoom DEF zipCDSize
<1>2. /\ S \subseteq {x \in DOMAIN headers : x < EndOffset(end)}
      /\ next \in S \cup {EndOffset(end)}
      /\ \A x \in S : x >= next /\ headers[x].disk = 0
                      /\ x + HeaderSize(headers[x]) \in S \cup {EndOffset(end)}
      /\ \A x \in S : x = next \/ \E p \in S : p + HeaderSize(headers[p]) = x
  BY DEF TilesFrom
<1>3. \A x \in S : x \in Nat
  BY <1>2 DEF HeadersKnown
<1>4. \A x \in S : x >= o /\ x # o
  BY <1>1, <1>2, <1>3
<1>5. o >= o
  BY <1>1
<1>6. TilesFrom(end, headers, o, S \cup {o})
  <2>1. S \cup {o} \subseteq {x \in DOMAIN headers : x < EndOffset(end)}
    BY <1>2
  <2>2. \A x \in S \cup {o} : x >= o /\ headers[x].disk = 0
                              /\ x + HeaderSize(headers[x]) \in (S \cup {o}) \cup {EndOffset(end)}
    BY <1>2, <1>4, <1>5
  <2>3. \A x \in S \cup {o} : x = o \/ \E p \in S \cup {o} : p + HeaderSize(headers[p]) = x
    BY <1>2
  <2> QED
    BY <2>1, <2>2, <2>3 DEF TilesFrom
<1>7. IsFiniteSet(S)
  BY HeadersFinite
<1> QED
  BY <1>4, <1>6, <1>7, FS_AddElement

\* What remains when the first header is taken away tiles the rest.
LEMMA HeaderRemoved ==
  ASSUME NEW end, NEW headers, HeadersKnown(headers), EndOffset(end) \in Int,
         NEW S, NEW o \in S, TilesFrom(end, headers, o, S)
  PROVE  /\ TilesFrom(end, headers, o + HeaderSize(headers[o]), S \ {o})
         /\ Cardinality(S) \in Nat /\ Cardinality(S) > 0
         /\ Cardinality(S \ {o}) = Cardinality(S) - 1
         /\ o + HeaderSize(headers[o]) <= EndOffset(end)
<1> DEFINE next == o + HeaderSize(headers[o])
           rest == S \ {o}
<1>1. /\ S \subseteq {x \in DOMAIN headers : x < EndOffset(end)}
      /\ \A x \in S : x >= o /\ headers[x].disk = 0
                      /\ x + HeaderSize(headers[x]) \in S \cup {EndOffset(end)}
      /\ \A x \in S : x = o \/ \E p \in S : p + HeaderSize(headers[p]) = x
  BY DEF TilesFrom
<1>2. \A x \in S : x \in Nat /\ x < EndOffset(end)
                   /\ x + HeaderSize(headers[x]) \in Nat /\ x < x + HeaderSize(headers[x])
  <2>1. \A x \in S : x \in DOMAIN headers /\ x < EndOffset(end)
    BY <1>1
  <2>2. \A x \in S : x \in Nat /\ HeaderSize(headers[x]) \in Nat /\ HeaderSize(headers[x]) >= 46
    BY <2>1, HeaderTakesRoom DEF zipCDSize
  <2> QED
    BY <2>1, <2>2
<1>3. next \in Nat /\ o \in Nat /\ o < next /\ next \in rest \cup {EndOffset(end)}
  BY <1>1, <1>2
<1>4. next <= EndOffset(end)
  BY <1>2, <1>3
<1>5. \A x \in rest : x + HeaderSize(headers[x]) \in rest \cup {EndOffset(end)}
  BY <1>1, <1>2
<1>6. \A x \in rest : x = next \/ \E p \in rest : p + HeaderSize(headers[p]) = x
  BY <1>1
<1>7. \A x \in rest : x >= next
  <2> DEFINE low == {x \in rest : ~(x >= next)}
  <2> SUFFICES ASSUME low # {} PROVE FALSE
    OBVIOUS
  <2>1. low \in SUBSET Nat
    BY <1>2
  <2>2. PICK x \in low : \A y \in low : x <= y
    BY <2>1, NatMin
  <2>3. x \in rest /\ ~(x >= next) /\ x \in Nat
    BY <1>2, <2>2
  <2>4. PICK p \in rest : p + HeaderSize(headers[p]) = x
    BY <1>3, <1>6, <2>3
  <2>5. p \in Nat /\ p < x
    BY <1>2, <2>4
  <2>6. p \in low
    BY <1>3, <2>3, <2>5
  <2> QED
    BY <2>2, <2>3, <2>5, <2>6
<1>8. TilesFrom(end, headers, next, rest)
  BY <1>1, <1>3, <1>5, <1>6, <1>7 DEF TilesFrom
<1>9. IsFiniteSet(S) /\ Cardinality(S) \in Nat
  BY HeadersFinite
<1>10. Cardinality(rest) \in Nat /\ Cardinality(rest) = Cardinality(S) - 1
  BY <1>9, FS_RemoveElement, FS_CardinalityType
<1>11. Cardinality(S) > 0
  BY <1>9, <1>10
<1> QED
  BY <1>4, <1>8, <1>9, <1>10, <1>11

\* A walk that succeeds has met headers that tile the directory.
LEMMA OkIsTiled ==
  ASSUME NEW end, EndOffset(end) \in Int, end.count \in Nat,
         NEW headers, HeadersKnown(headers), NEW maxEntries \in Nat, NEW h,
         \A o \in Nat, n \in 0..maxEntries :
           h[<<o, n>>] = HeaderStep(end, headers, maxEntries, <<o, n>>, h)
  PROVE  \A o \in Nat, n \in 0..maxEntries : o <= EndOffset(end) /\ h[<<o, n>>] = "ok" =>
           end.count <= maxEntries /\ \E S : TilesFrom(end, headers, o, S) /\ Cardinality(S) = end.count - n
<1> DEFINE Claim(o, n) == o <= EndOffset(end) /\ h[<<o, n>>] = "ok" =>
             end.count <= maxEntries /\ \E S : TilesFrom(end, headers, o, S) /\ Cardinality(S) = end.count - n
           T == {at \in Nat \X (0..maxEntries) : Claim(at[1], at[2])}
<1>1. ASSUME NEW o \in Nat, NEW n \in 0..maxEntries,
             \A p \in Nat : n + 1 <= maxEntries => <<p, n + 1>> \in T
      PROVE  Claim(o, n)
  <2> SUFFICES ASSUME o <= EndOffset(end), h[<<o, n>>] = "ok"
               PROVE  end.count <= maxEntries
                      /\ \E S : TilesFrom(end, headers, o, S) /\ Cardinality(S) = end.count - n
    OBVIOUS
  <2>1. h[<<o, n>>] = HeaderStep(end, headers, maxEntries, <<o, n>>, h)
    OBVIOUS
  <2>2. CASE o >= EndOffset(end)
    <3>1. n = end.count /\ o = EndOffset(end)
      BY <2>1, <2>2 DEF HeaderStep
    <3>2. TilesFrom(end, headers, o, {})
      BY <3>1 DEF TilesFrom
    <3>3. Cardinality({}) = end.count - n
      BY <3>1, FS_EmptySet
    <3> QED
      BY <3>1, <3>2, <3>3
  <2>3. CASE ~(o >= EndOffset(end))
    <3>1. /\ o \in DOMAIN headers /\ ~(n + 1 > maxEntries) /\ headers[o].disk = 0
          /\ ~(HeaderSize(headers[o]) > EndOffset(end) - o)
          /\ h[<<o + HeaderSize(headers[o]), n + 1>>] = "ok"
      BY <2>1, <2>3 DEF HeaderStep
    <3> DEFINE next == o + HeaderSize(headers[o])
    <3>2. next \in Nat /\ next <= EndOffset(end) /\ n + 1 <= maxEntries /\ o < EndOffset(end)
      BY <2>3, <3>1, HeaderTakesRoom
    <3>3. Claim(next, n + 1)
      BY <1>1, <3>2
    <3>4. PICK S : TilesFrom(end, headers, next, S) /\ Cardinality(S) = end.count - (n + 1)
      BY <3>1, <3>2, <3>3
    <3>5. TilesFrom(end, headers, o, S \cup {o}) /\ Cardinality(S \cup {o}) = Cardinality(S) + 1
      BY <3>1, <3>2, <3>4, HeaderAdded
    <3>6. Cardinality(S \cup {o}) = end.count - n
      BY <3>4, <3>5
    <3> QED
      BY <3>1, <3>2, <3>3, <3>5, <3>6
  <2> QED
    BY <2>2, <2>3
<1> HIDE DEF Claim
<1>2. \A o \in Nat, n \in 0..maxEntries :
        (\A p \in Nat : n + 1 <= maxEntries => <<p, n + 1>> \in T) => <<o, n>> \in T
  BY <1>1
<1> HIDE DEF T
<1>3. \A o \in Nat, n \in 0..maxEntries : <<o, n>> \in T
  BY <1>2, FromTheEnd
<1>4. \A o \in Nat, n \in 0..maxEntries : Claim(o, n)
  BY <1>3 DEF T
<1> QED
  BY <1>4 DEF Claim

\* And the walk over headers that tile the directory succeeds.
LEMMA TiledIsOk ==
  ASSUME NEW end, EndOffset(end) \in Int, end.count \in Nat, NEW headers, HeadersKnown(headers),
         NEW maxEntries \in Nat, end.count <= maxEntries, NEW h,
         \A o \in Nat, n \in 0..maxEntries :
           h[<<o, n>>] = HeaderStep(end, headers, maxEntries, <<o, n>>, h)
  PROVE  \A o \in Nat, n \in 0..maxEntries :
           (\E S : TilesFrom(end, headers, o, S) /\ Cardinality(S) = end.count - n) => h[<<o, n>>] = "ok"
<1> DEFINE Claim(o, n) ==
             (\E S : TilesFrom(end, headers, o, S) /\ Cardinality(S) = end.count - n) => h[<<o, n>>] = "ok"
           T == {at \in Nat \X (0..maxEntries) : Claim(at[1], at[2])}
<1>1. ASSUME NEW o \in Nat, NEW n \in 0..maxEntries,
             \A p \in Nat : n + 1 <= maxEntries => <<p, n + 1>> \in T
      PROVE  Claim(o, n)
  <2> SUFFICES ASSUME NEW S, TilesFrom(end, headers, o, S), Cardinality(S) = end.count - n
               PROVE  h[<<o, n>>] = "ok"
    OBVIOUS
  <2>1. h[<<o, n>>] = HeaderStep(end, headers, maxEntries, <<o, n>>, h)
    OBVIOUS
  <2>2. CASE o \notin S
    <3>1. o = EndOffset(end)
      BY <2>2 DEF TilesFrom
    <3>2. S = {}
      <4>1. \A x \in S : x \in DOMAIN headers /\ x < EndOffset(end) /\ x >= EndOffset(end)
        BY <3>1 DEF TilesFrom
      <4>2. \A x \in S : x \in Nat
        BY <4>1 DEF HeadersKnown
      <4> QED
        BY <4>1, <4>2
    <3>3. end.count - n = 0
      BY <3>2, FS_EmptySet
    <3>4. n = end.count /\ o >= EndOffset(end)
      BY <3>1, <3>3
    <3> QED
      BY <2>1, <3>4 DEF HeaderStep
  <2>3. CASE o \in S
    <3> DEFINE next == o + HeaderSize(headers[o])
    <3>1. /\ TilesFrom(end, headers, next, S \ {o})
          /\ Cardinality(S) \in Nat /\ Cardinality(S) > 0
          /\ Cardinality(S \ {o}) = Cardinality(S) - 1 /\ next <= EndOffset(end)
      BY <2>3, HeaderRemoved
    <3>2. o \in DOMAIN headers /\ o < EndOffset(end) /\ headers[o].disk = 0
      BY <2>3 DEF TilesFrom
    <3>3. /\ HeaderSize(headers[o]) \in Nat /\ HeaderSize(headers[o]) >= zipCDSize /\ next \in Nat
      BY <3>2, HeaderTakesRoom
    <3>4. /\ ~(o >= EndOffset(end)) /\ ~(EndOffset(end) - o < zipCDSize)
          /\ ~(HeaderSize(headers[o]) > EndOffset(end) - o)
      BY <3>1, <3>2, <3>3 DEF zipCDSize
    <3>5. ~(n + 1 > maxEntries) /\ n + 1 <= maxEntries /\ Cardinality(S \ {o}) = end.count - (n + 1)
      BY <3>1
    <3>6. h[<<o, n>>] = h[<<next, n + 1>>]
      BY <2>1, <3>2, <3>4, <3>5 DEF HeaderStep
    <3>7. <<next, n + 1>> \in T
      BY <1>1, <3>3, <3>5
    <3>8. Claim(next, n + 1)
      BY <3>7
    <3> HIDE DEF next
    <3>9. h[<<next, n + 1>>] = "ok"
      BY <3>1, <3>5, <3>8
    <3> QED
      BY <3>6, <3>9
  <2> QED
    BY <2>2, <2>3
<1> HIDE DEF Claim
<1>2. \A o \in Nat, n \in 0..maxEntries :
        (\A p \in Nat : n + 1 <= maxEntries => <<p, n + 1>> \in T) => <<o, n>> \in T
  BY <1>1
<1> HIDE DEF T
<1>3. \A o \in Nat, n \in 0..maxEntries : <<o, n>> \in T
  BY <1>2, FromTheEnd
<1>4. \A o \in Nat, n \in 0..maxEntries : Claim(o, n)
  BY <1>3 DEF T
<1> QED
  BY <1>4 DEF Claim

\* What a walk may say; it complains of too many headers only when there are.
LEMMA WalkSays ==
  ASSUME NEW end, EndOffset(end) \in Int,
         NEW headers, HeadersKnown(headers), NEW maxEntries \in Nat, NEW h,
         \A o \in Nat, n \in 0..maxEntries :
           h[<<o, n>>] = HeaderStep(end, headers, maxEntries, <<o, n>>, h)
  PROVE  \A o \in Nat, n \in 0..maxEntries :
           /\ h[<<o, n>>] \in {"ok", "corrupt", "unsupported", "entries"}
           /\ h[<<o, n>>] = "entries" => Cardinality({x \in DOMAIN headers : x >= o}) > maxEntries - n
<1> DEFINE From(o) == {x \in DOMAIN headers : x >= o}
           Claim(o, n) == /\ h[<<o, n>>] \in {"ok", "corrupt", "unsupported", "entries"}
                          /\ h[<<o, n>>] = "entries" => Cardinality(From(o)) > maxEntries - n
           T == {at \in Nat \X (0..maxEntries) : Claim(at[1], at[2])}
<1>1. ASSUME NEW o \in Nat, NEW n \in 0..maxEntries,
             \A p \in Nat : n + 1 <= maxEntries => <<p, n + 1>> \in T
      PROVE  Claim(o, n)
  <2>1. h[<<o, n>>] = HeaderStep(end, headers, maxEntries, <<o, n>>, h)
    OBVIOUS
  <2>2. \A S \in SUBSET DOMAIN headers : IsFiniteSet(S) /\ Cardinality(S) \in Nat
    BY FS_Subset, FS_CardinalityType DEF HeadersKnown
  <2>3. ASSUME h[<<o, n>>] = "entries", o \in DOMAIN headers, n + 1 > maxEntries
        PROVE  Claim(o, n)
    <3>1. o \in From(o)
      BY <2>3
    <3>2. From(o) \in SUBSET DOMAIN headers
      OBVIOUS
    <3> HIDE DEF From
    <3>3. IsFiniteSet(From(o)) /\ Cardinality(From(o)) \in Nat
      BY <2>2, <3>2
    <3>4. Cardinality(From(o)) # 0
      BY <3>1, <3>3, FS_EmptySet
    <3> QED
      BY <2>3, <3>3, <3>4
  <2>4. ASSUME o \in DOMAIN headers, ~(n + 1 > maxEntries),
               h[<<o, n>>] = h[<<o + HeaderSize(headers[o]), n + 1>>]
        PROVE  Claim(o, n)
    <3> DEFINE next == o + HeaderSize(headers[o])
    <3>1. next \in Nat /\ o < next /\ n + 1 <= maxEntries
      BY <2>4, HeaderTakesRoom DEF zipCDSize
    <3>2. Claim(next, n + 1)
      BY <1>1, <3>1
    <3>3. \A x \in DOMAIN headers : x \in Nat
      BY DEF HeadersKnown
    <3>4. From(next) \in SUBSET From(o) /\ o \in From(o) \ From(next) /\ From(o) \in SUBSET DOMAIN headers
      BY <2>4, <3>1, <3>3
    <3> HIDE DEF From, next
    <3>5. /\ IsFiniteSet(From(o)) /\ Cardinality(From(o)) \in Nat
          /\ IsFiniteSet(From(next)) /\ Cardinality(From(next)) \in Nat
      BY <2>2, <3>4
    <3>6. From(next) # From(o)
      BY <3>4
    <3>7. Cardinality(From(next)) < Cardinality(From(o))
      BY <3>4, <3>5, <3>6, FS_Subset
    <3> QED
      BY <2>4, <3>2, <3>5, <3>7 DEF next
  <2> HIDE DEF T
  <2>5. CASE h[<<o, n>>] \in {"ok", "corrupt", "unsupported"}
    BY <2>5
  <2> HIDE DEF Claim
  <2> QED
    BY <2>1, <2>3, <2>4, <2>5 DEF HeaderStep
<1> HIDE DEF Claim
<1>2. \A o \in Nat, n \in 0..maxEntries :
        (\A p \in Nat : n + 1 <= maxEntries => <<p, n + 1>> \in T) => <<o, n>> \in T
  BY <1>1
<1> HIDE DEF T
<1>3. \A o \in Nat, n \in 0..maxEntries : <<o, n>> \in T
  BY <1>2, FromTheEnd
<1>4. \A o \in Nat, n \in 0..maxEntries : Claim(o, n)
  BY <1>3 DEF T
<1> QED
  BY <1>4 DEF Claim

-----------------------------------------------------------------------------
(* How many headers the library allocates.                                 *)

\* h is the recursion by which LibraryHeaders is defined.
Appends(h, headers) ==
  h = [offset \in Nat |-> IF offset \notin DOMAIN headers THEN 0
                          ELSE 1 + h[offset + HeaderSize(headers[offset])]]

\* It has a solution: the number of headers in the chain that starts at an offset.
LEMMA AppendsDefined ==
  ASSUME NEW headers, HeadersKnown(headers)
  PROVE  \E h : Appends(h, headers)
<1> DEFINE next(z) == z + HeaderSize(headers[z])
           Closed(C) == \A z \in C : z \in DOMAIN headers => next(z) \in C
           Chain(o) == {x \in DOMAIN headers : \A C \in SUBSET Nat : o \in C /\ Closed(C) => x \in C}
           h == [offset \in Nat |-> Cardinality(Chain(offset))]
<1>1. \A z \in DOMAIN headers : z \in Nat /\ next(z) \in Nat /\ z < next(z)
  <2> SUFFICES ASSUME NEW z \in DOMAIN headers PROVE z \in Nat /\ next(z) \in Nat /\ z < next(z)
    OBVIOUS
  <2>1. z \in Nat /\ HeaderSize(headers[z]) \in Nat /\ HeaderSize(headers[z]) >= 46
    BY HeaderTakesRoom DEF zipCDSize
  <2> QED
    BY <2>1
<1> HIDE DEF next
<1>2. ASSUME NEW o \in Nat, o \notin DOMAIN headers PROVE Chain(o) = {}
  <2>1. Closed({o}) /\ {o} \in SUBSET Nat /\ o \in {o}
    BY <1>2
  <2> HIDE DEF Closed
  <2>2. \A x \in Chain(o) : x \in {o} /\ x \in DOMAIN headers
    BY <2>1
  <2> QED
    BY <1>2, <2>2
<1>3. ASSUME NEW o \in DOMAIN headers PROVE Chain(o) = Chain(next(o)) \cup {o} /\ o \notin Chain(next(o))
  <2>1. ASSUME NEW x \in Chain(o), x # o PROVE x \in Chain(next(o))
    <3> SUFFICES ASSUME NEW C \in SUBSET Nat, next(o) \in C, Closed(C) PROVE x \in C
      OBVIOUS
    <3>1. C \cup {o} \in SUBSET Nat /\ o \in C \cup {o} /\ Closed(C \cup {o})
      BY <1>1
    <3>2. x \in C \cup {o}
      <4> HIDE DEF Closed
      <4> QED
        BY <3>1
    <3> QED
      BY <2>1, <3>2
  <2>2. ASSUME NEW x \in Chain(next(o)) PROVE x \in Chain(o)
    <3> SUFFICES ASSUME NEW C \in SUBSET Nat, o \in C, Closed(C) PROVE x \in C
      OBVIOUS
    <3>1. next(o) \in C
      OBVIOUS
    <3> HIDE DEF Closed
    <3> QED
      BY <3>1
  <2>3. o \in Chain(o)
    OBVIOUS
  <2>4. o \notin Chain(next(o))
    <3> DEFINE C == {z \in Nat : z >= next(o)}
    <3>1. next(o) \in Nat /\ o < next(o) /\ o \in Nat
      BY <1>1
    <3>2. Closed(C)
      <4> SUFFICES ASSUME NEW z \in Nat, z >= next(o), z \in DOMAIN headers
                   PROVE  next(z) \in Nat /\ next(z) >= next(o)
        OBVIOUS
      <4>1. next(z) \in Nat /\ z < next(z)
        BY <1>1
      <4> QED
        BY <3>1, <4>1
    <3>3. C \in SUBSET Nat /\ next(o) \in C /\ o \notin C
      BY <3>1
    <3> HIDE DEF Closed, C
    <3> QED
      BY <3>2, <3>3
  <2> HIDE DEF Chain
  <2> QED
    BY <2>1, <2>2, <2>3, <2>4
<1>4. \A o : IsFiniteSet(Chain(o)) /\ Cardinality(Chain(o)) \in Nat
  <2> TAKE o
  <2>1. Chain(o) \in SUBSET DOMAIN headers
    OBVIOUS
  <2> HIDE DEF Chain
  <2> QED
    BY <2>1, FS_Subset, FS_CardinalityType DEF HeadersKnown
<1> HIDE DEF Chain
<1>5. ASSUME NEW o \in Nat
      PROVE  h[o] = IF o \notin DOMAIN headers THEN 0 ELSE 1 + h[next(o)]
  <2>1. CASE o \notin DOMAIN headers
    BY <1>2, <2>1, FS_EmptySet
  <2>2. CASE o \in DOMAIN headers
    <3>1. Cardinality(Chain(next(o)) \cup {o}) = Cardinality(Chain(next(o))) + 1
      BY <1>3, <1>4, <2>2, FS_AddElement
    <3>2. h[o] = Cardinality(Chain(o)) /\ h[next(o)] = Cardinality(Chain(next(o)))
      BY <1>1, <2>2
    <3>3. Chain(o) = Chain(next(o)) \cup {o}
      BY <1>3, <2>2
    <3>4. Cardinality(Chain(o)) = Cardinality(Chain(next(o))) + 1
      BY <3>1, <3>3
    <3>5. Cardinality(Chain(next(o))) \in Nat
      BY <1>4
    <3>6. h[o] = h[next(o)] + 1 /\ h[next(o)] \in Nat
      BY <3>2, <3>4, <3>5
    <3> HIDE DEF h, next
    <3>7. h[o] = 1 + h[next(o)]
      BY <3>6
    <3> QED
      BY <2>2, <3>7
  <2> QED
    BY <2>1, <2>2
<1>6. h = [offset \in Nat |-> h[offset]]
  OBVIOUS
<1> HIDE DEF h
<1>7. h = [offset \in Nat |-> IF offset \notin DOMAIN headers THEN 0 ELSE 1 + h[next(offset)]]
  BY <1>5, <1>6
<1> QED
  BY <1>7 DEF Appends, next

\* LibraryHeaders counts headers until there is none.
LEMMA LibraryAppends ==
  ASSUME NEW end, NEW headers, HeadersKnown(headers)
  PROVE  \E h : /\ LibraryHeaders(end, headers) = h[end.directoryOffset]
                /\ \A o \in Nat : h[o] = IF o \notin DOMAIN headers THEN 0
                                         ELSE 1 + h[o + HeaderSize(headers[o])]
<1> DEFINE h == CHOOSE g : Appends(g, headers)
<1>1. LibraryHeaders(end, headers) = h[end.directoryOffset]
  BY Zenon DEF LibraryHeaders, Appends
<1>2. Appends(h, headers)
  BY AppendsDefined
<1> HIDE DEF h
<1>3. \A o \in Nat : h[o] = IF o \notin DOMAIN headers THEN 0 ELSE 1 + h[o + HeaderSize(headers[o])]
  BY <1>2 DEF Appends
<1> QED
  BY <1>1, <1>3

\* h is what the scan says from an offset on, with so many headers met before.
Scans(h, end, headers, maxEntries) ==
  \A o \in Nat, n \in 0..maxEntries :
    h[<<o, n>>] = HeaderStep(end, headers, maxEntries, <<o, n>>, h)

\* g is how many headers the library appends from an offset on.
Counts(g, headers) ==
  \A o \in Nat : g[o] = IF o \notin DOMAIN headers THEN 0 ELSE 1 + g[o + HeaderSize(headers[o])]

\* After a walk that succeeded the library meets the headers that it met.
LEMMA OkIsCounted ==
  ASSUME NEW end, EndOffset(end) \in Int, end.count \in Nat,
         NEW headers, HeadersKnown(headers), EndOffset(end) \notin DOMAIN headers,
         NEW maxEntries \in Nat, NEW h, NEW g,
         Scans(h, end, headers, maxEntries), Counts(g, headers),
         NEW at \in Nat, NEW met \in 0..maxEntries,
         at <= EndOffset(end), h[<<at, met>>] = "ok"
  PROVE  g[at] = end.count - met
<1> DEFINE Claim(o, n) == o <= EndOffset(end) /\ h[<<o, n>>] = "ok" => g[o] = end.count - n
           T == {u \in Nat \X (0..maxEntries) : Claim(u[1], u[2])}
<1>1. ASSUME NEW o \in Nat, NEW n \in 0..maxEntries,
             \A p \in Nat : n + 1 <= maxEntries => <<p, n + 1>> \in T
      PROVE  Claim(o, n)
  <2> SUFFICES ASSUME o <= EndOffset(end), h[<<o, n>>] = "ok" PROVE g[o] = end.count - n
    OBVIOUS
  <2>1. h[<<o, n>>] = HeaderStep(end, headers, maxEntries, <<o, n>>, h)
    BY DEF Scans
  <2>2. CASE o >= EndOffset(end)
    <3>1. n = end.count /\ o = EndOffset(end)
      BY <2>1, <2>2 DEF HeaderStep
    <3>2. g[o] = 0
      BY <3>1 DEF Counts
    <3> QED
      BY <3>1, <3>2
  <2>3. CASE ~(o >= EndOffset(end))
    <3>1. /\ o \in DOMAIN headers /\ ~(n + 1 > maxEntries)
          /\ ~(HeaderSize(headers[o]) > EndOffset(end) - o)
          /\ h[<<o + HeaderSize(headers[o]), n + 1>>] = "ok"
      BY <2>1, <2>3 DEF HeaderStep
    <3> DEFINE next == o + HeaderSize(headers[o])
    <3>2. next \in Nat /\ next <= EndOffset(end) /\ n + 1 <= maxEntries
      BY <2>3, <3>1, HeaderTakesRoom
    <3>3. Claim(next, n + 1)
      BY <1>1, <3>2
    <3>4. g[next] = end.count - (n + 1)
      BY <3>1, <3>2, <3>3
    <3>5. g[o] = 1 + g[next]
      BY <3>1 DEF Counts
    <3> HIDE DEF next
    <3> QED
      BY <3>4, <3>5
  <2> QED
    BY <2>2, <2>3
<1> HIDE DEF Claim
<1>2. \A o \in Nat, n \in 0..maxEntries :
        (\A p \in Nat : n + 1 <= maxEntries => <<p, n + 1>> \in T) => <<o, n>> \in T
  BY <1>1
<1> HIDE DEF T
<1>3. \A o \in Nat, n \in 0..maxEntries : <<o, n>> \in T
  BY <1>2, FromTheEnd
<1>4. \A o \in Nat, n \in 0..maxEntries : Claim(o, n)
  BY <1>3 DEF T
<1> QED
  BY <1>4 DEF Claim

-----------------------------------------------------------------------------
\* The scan accepts exactly the files with an end record and a directory that are
\* in order, for any file and any limit; it says nothing but its four verdicts,
\* and speaks of too many entries only when there are, or are said to be.
THEOREM PreflightIsRight ==
  ASSUME NEW end \in EndRecord, NEW headers, HeadersKnown(headers), NEW maxEntries \in Nat
  PROVE  /\ PreflightZIP(end, headers, maxEntries) \in {"ok", "corrupt", "unsupported", "entries"}
         /\ PreflightZIP(end, headers, maxEntries) = "ok" <=> WellFormedZIP(end, headers, maxEntries)
         /\ PreflightZIP(end, headers, maxEntries) = "entries" =>
              end.count > maxEntries \/ Cardinality(DOMAIN headers) > maxEntries
<1>1. PICK h : /\ Walk(end, headers, maxEntries) = h[<<end.directoryOffset, 0>>]
               /\ \A o \in Nat, n \in 0..maxEntries :
                    h[<<o, n>>] = HeaderStep(end, headers, maxEntries, <<o, n>>, h)
  BY WalkSteps
<1> DEFINE o == end.directoryOffset
           w == h[<<o, 0>>]
<1>2. /\ EndOffset(end) \in Int /\ end.count \in Nat /\ o \in Nat /\ 0 \in 0..maxEntries
      /\ end.size \in Nat /\ end.tail \in Int /\ end.comment \in Nat /\ end.directorySize \in Nat
      /\ end.saturated \in BOOLEAN /\ end.locator \in BOOLEAN /\ end.disks \in {"one", "many"}
  BY DEF EndRecord, NoEnd, EndOffset
<1>3. /\ w \in {"ok", "corrupt", "unsupported", "entries"}
      /\ w = "entries" => Cardinality({x \in DOMAIN headers : x >= o}) > maxEntries - 0
  BY <1>1, <1>2, WalkSays
<1>4. {x \in DOMAIN headers : x >= o} = DOMAIN headers \/ Cardinality({x \in DOMAIN headers : x >= o}) <= Cardinality(DOMAIN headers)
  <2>1. {x \in DOMAIN headers : x >= o} \in SUBSET DOMAIN headers
    OBVIOUS
  <2> QED
    BY <2>1, FS_Subset DEF HeadersKnown
<1>5. w = "entries" => Cardinality(DOMAIN headers) > maxEntries
  <2>1. /\ Cardinality(DOMAIN headers) \in Nat
        /\ Cardinality({x \in DOMAIN headers : x >= o}) \in Nat
    <3>1. {x \in DOMAIN headers : x >= o} \in SUBSET DOMAIN headers
      OBVIOUS
    <3> QED
      BY <3>1, FS_Subset, FS_CardinalityType DEF HeadersKnown
  <2> QED
    BY <1>3, <1>4, <2>1
<1>6. o <= EndOffset(end) =>
        (w = "ok" <=> end.count <= maxEntries
                      /\ \E S : TilesFrom(end, headers, o, S) /\ Cardinality(S) = end.count - 0)
  <2>1. o <= EndOffset(end) /\ w = "ok" =>
          end.count <= maxEntries /\ \E S : TilesFrom(end, headers, o, S) /\ Cardinality(S) = end.count - 0
    BY <1>1, <1>2, OkIsTiled, SMTT(30)
  <2>2. end.count <= maxEntries /\ (\E S : TilesFrom(end, headers, o, S) /\ Cardinality(S) = end.count - 0)
          => w = "ok"
    BY <1>1, <1>2, TiledIsOk
  <2> QED
    BY <2>1, <2>2
<1>7. \A S : TilesFrom(end, headers, o, S) <=>
               S \in SUBSET {x \in DOMAIN headers : x < EndOffset(end)} /\ Tiles(end, headers, S)
  BY DEF TilesFrom, Tiles
<1> DEFINE InOrder == \E S \in SUBSET {x \in DOMAIN headers : x < EndOffset(end)} :
                        Cardinality(S) = end.count /\ end.count <= maxEntries /\ Tiles(end, headers, S)
<1>8. o <= EndOffset(end) => (w = "ok" <=> InOrder)
  BY <1>2, <1>6, <1>7
<1>9. WellFormedZIP(end, headers, maxEntries) <=>
        /\ end.tail # NoEnd /\ end.size >= zipEOCDSize /\ end.tail = zipEOCDSize + end.comment
        /\ ~end.saturated /\ ~end.locator /\ end.disks = "one"
        /\ o + end.directorySize = EndOffset(end)
        /\ InOrder
  BY DEF WellFormedZIP
<1>10. InOrder => end.count <= maxEntries
  OBVIOUS
<1>11. Walk(end, headers, maxEntries) = w
  BY <1>1
<1> HIDE DEF InOrder, w, o
<1>12. o + end.directorySize = EndOffset(end) <=>
         ~(o > EndOffset(end) \/ end.directorySize # EndOffset(end) - o)
  BY <1>2
<1>13. o > EndOffset(end) \/ o <= EndOffset(end)
  BY <1>2
<1>14. PreflightZIP(end, headers, maxEntries) =
         IF end.size < zipEOCDSize \/ end.tail = NoEnd THEN "corrupt"
         ELSE IF zipEOCDSize + end.comment # end.tail THEN "corrupt"
         ELSE IF end.saturated \/ end.locator \/ end.disks = "many" THEN "unsupported"
         ELSE IF end.count > maxEntries THEN "entries"
         ELSE IF o > EndOffset(end) \/ end.directorySize # EndOffset(end) - o THEN "corrupt"
         ELSE w
  BY <1>11 DEF PreflightZIP, o
<1>15. (end.size < zipEOCDSize <=> ~(end.size >= zipEOCDSize)) /\ (end.count > maxEntries <=> ~(end.count <= maxEntries))
  BY <1>2 DEF zipEOCDSize
<1>16. CASE end.size < zipEOCDSize \/ end.tail = NoEnd \/ zipEOCDSize + end.comment # end.tail
  BY <1>9, <1>14, <1>15, <1>16
<1>17. CASE /\ ~(end.size < zipEOCDSize \/ end.tail = NoEnd \/ zipEOCDSize + end.comment # end.tail)
            /\ end.saturated \/ end.locator \/ end.disks = "many"
  BY <1>9, <1>14, <1>17
<1>18. CASE /\ ~(end.size < zipEOCDSize \/ end.tail = NoEnd \/ zipEOCDSize + end.comment # end.tail)
            /\ ~(end.saturated \/ end.locator \/ end.disks = "many")
            /\ end.count > maxEntries
  BY <1>9, <1>10, <1>14, <1>15, <1>18
<1>19. CASE /\ ~(end.size < zipEOCDSize \/ end.tail = NoEnd \/ zipEOCDSize + end.comment # end.tail)
            /\ ~(end.saturated \/ end.locator \/ end.disks = "many")
            /\ ~(end.count > maxEntries)
            /\ o > EndOffset(end) \/ end.directorySize # EndOffset(end) - o
  BY <1>9, <1>12, <1>14, <1>19
<1>20. CASE /\ ~(end.size < zipEOCDSize \/ end.tail = NoEnd \/ zipEOCDSize + end.comment # end.tail)
            /\ ~(end.saturated \/ end.locator \/ end.disks = "many")
            /\ ~(end.count > maxEntries)
            /\ ~(o > EndOffset(end) \/ end.directorySize # EndOffset(end) - o)
  <2>1. PreflightZIP(end, headers, maxEntries) = w
    BY <1>14, <1>20
  <2>2. end.disks = "one"
    BY <1>2, <1>20
  <2> QED
    BY <1>3, <1>5, <1>8, <1>9, <1>12, <1>13, <1>15, <1>20, <2>1, <2>2
<1> QED
  BY <1>16, <1>17, <1>18, <1>19, <1>20

\* The library allocates as many headers as the scan has counted, and so no more
\* than the limit, if the end record is no header itself.
THEOREM LibraryIsBounded ==
  ASSUME NEW end \in EndRecord, NEW headers, HeadersKnown(headers), NEW maxEntries \in Nat,
         EndOffset(end) \notin DOMAIN headers, PreflightZIP(end, headers, maxEntries) = "ok"
  PROVE  LibraryHeaders(end, headers) = end.count /\ end.count <= maxEntries
<1>1. PICK h : /\ Walk(end, headers, maxEntries) = h[<<end.directoryOffset, 0>>]
               /\ \A o \in Nat, n \in 0..maxEntries :
                    h[<<o, n>>] = HeaderStep(end, headers, maxEntries, <<o, n>>, h)
  BY WalkSteps
<1>2. PICK g : /\ LibraryHeaders(end, headers) = g[end.directoryOffset]
               /\ \A o \in Nat : g[o] = IF o \notin DOMAIN headers THEN 0
                                        ELSE 1 + g[o + HeaderSize(headers[o])]
  BY LibraryAppends
<1>3. EndOffset(end) \in Int /\ end.count \in Nat /\ end.directoryOffset \in Nat /\ 0 \in 0..maxEntries
  BY DEF EndRecord, NoEnd, EndOffset
<1>4. /\ ~(end.count > maxEntries) /\ ~(end.directoryOffset > EndOffset(end))
      /\ Walk(end, headers, maxEntries) = "ok"
  BY DEF PreflightZIP
<1>5. end.directoryOffset <= EndOffset(end) /\ h[<<end.directoryOffset, 0>>] = "ok"
  BY <1>1, <1>3, <1>4
<1>6. Scans(h, end, headers, maxEntries) /\ Counts(g, headers)
  BY <1>1, <1>2 DEF Scans, Counts
<1>7. g[end.directoryOffset] = end.count - 0
  BY <1>3, <1>5, <1>6, OkIsCounted
<1> QED
  BY <1>2, <1>3, <1>4, <1>7
=============================================================================
