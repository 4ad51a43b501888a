----------------------------- MODULE DataLemmas -----------------------------
(***************************************************************************)
(* Facts about numbers, sums, recursive functions and sorting that the     *)
(* proofs about archives rest on.  Induction is by least counterexample:   *)
(* a set of naturals that is not empty has a least element.                *)
(***************************************************************************)
EXTENDS Integers, Sequences, FiniteSetsExt, SequencesExt,
        FiniteSetTheorems, WellFoundedInduction, TLAPS

\* A set of naturals that is not empty has a least element.
LEMMA NatMin ==
  ASSUME NEW T \in SUBSET Nat, T # {}
  PROVE  \E x \in T : \A y \in T : x <= y
<1>1. PICK x \in T : \A y \in T : <<y, x>> \notin OpToRel(<, Nat)
  BY NatLessThanWellFounded, WFMin
<1>2. \A y \in T : ~(y < x)
  BY <1>1 DEF OpToRel
<1> QED
  BY <1>2

\* Induction over the naturals, for the members of a set.
LEMMA NatInduct ==
  ASSUME NEW T, 0 \in T, \A n \in Nat : n \in T => n + 1 \in T
  PROVE  Nat \subseteq T
<1> SUFFICES ASSUME Nat \ T # {} PROVE FALSE
  OBVIOUS
<1>1. PICK x \in Nat \ T : \A y \in Nat \ T : x <= y
  BY NatMin
<1>2. x # 0 /\ x - 1 \in Nat
  BY <1>1
<1>3. x - 1 \in T
  BY <1>1, <1>2
<1> QED
  BY <1>1, <1>2, <1>3

\* The same with all smaller naturals in the hypothesis.
LEMMA NatInductAll ==
  ASSUME NEW T, \A n \in Nat : (\A m \in Nat : m < n => m \in T) => n \in T
  PROVE  Nat \subseteq T
<1> SUFFICES ASSUME Nat \ T # {} PROVE FALSE
  OBVIOUS
<1>1. PICK x \in Nat \ T : \A y \in Nat \ T : x <= y
  BY NatMin
<1>2. \A m \in Nat : m < x => m \in T
  BY <1>1
<1> QED
  BY <1>1, <1>2

\* Min of a set of naturals.
LEMMA MinNat ==
  ASSUME NEW T \in SUBSET Nat, T # {}
  PROVE  Min(T) \in T /\ \A y \in T : Min(T) <= y
<1>1. \E x \in T : \A y \in T : x <= y
  BY NatMin
<1> QED
  BY <1>1 DEF Min

\* Induction over the subsets of a finite set, one element at a time.
LEMMA SubsetMin ==
  ASSUME NEW S, IsFiniteSet(S), NEW B \in SUBSET (SUBSET S), B # {}
  PROVE  \E T \in B : \A x \in T : T \ {x} \notin B
<1>1. IsWellFoundedOn(StrictSubsetOrdering(S), SUBSET S)
  BY FS_StrictSubsetOrderingWellFounded, FS_FiniteSubsetsOfFinite
<1>2. PICK T \in B : \A U \in B : <<U, T>> \notin StrictSubsetOrdering(S)
  BY <1>1, WFMin
<1>3. ASSUME NEW x \in T PROVE T \ {x} \notin B
  <2>1. T \ {x} \subseteq T /\ T \ {x} # T /\ <<T \ {x}, T>> \in (SUBSET S) \X (SUBSET S)
    OBVIOUS
  <2>2. <<T \ {x}, T>> \in StrictSubsetOrdering(S)
    BY <2>1 DEF StrictSubsetOrdering
  <2> QED
    BY <1>2, <2>2
<1> QED
  BY <1>3

-----------------------------------------------------------------------------
(* Sums over finite sets.                                                  *)

Sum(f, S) == MapThenSumSet(LAMBDA x : f[x], S)

\* What a sum counts.
Grains(f, S) == {u \in S \X Nat : u[2] \in 0..(f[u[1]] - 1)}

\* One element counts as much as its value.
LEMMA GrainsOfOne ==
  ASSUME NEW f, NEW x, f[x] \in Nat
  PROVE  IsFiniteSet(Grains(f, {x})) /\ Cardinality(Grains(f, {x})) = f[x]
<1>1. Grains(f, {x}) = {x} \X (0..(f[x] - 1))
  BY DEF Grains
<1>2. IsFiniteSet({x}) /\ Cardinality({x}) = 1
  BY FS_Singleton
<1>3. f[x] - 1 \in Int /\ 0 \in Int
  OBVIOUS
<1>4. /\ IsFiniteSet(0..(f[x] - 1))
      /\ Cardinality(0..(f[x] - 1)) = IF 0 > f[x] - 1 THEN 0 ELSE (f[x] - 1) - 0 + 1
  BY <1>3, FS_Interval
<1>5. Cardinality(0..(f[x] - 1)) = f[x]
  BY <1>4
<1>6. /\ IsFiniteSet({x} \X (0..(f[x] - 1)))
      /\ Cardinality({x} \X (0..(f[x] - 1))) = Cardinality({x}) * Cardinality(0..(f[x] - 1))
  BY <1>2, <1>4, FS_Product
<1>7. f[x] \in Int /\ 1 * f[x] = f[x]
  OBVIOUS
<1> QED
  BY <1>1, <1>2, <1>5, <1>6, <1>7

\* Values over a finite set count finitely.
LEMMA GrainsFinite ==
  ASSUME NEW f, NEW S, IsFiniteSet(S), \A x \in S : f[x] \in Nat
  PROVE  IsFiniteSet(Grains(f, S))
<1> DEFINE bad == {T \in SUBSET S : ~IsFiniteSet(Grains(f, T))}
<1>2. SUFFICES ASSUME bad # {} PROVE FALSE
  OBVIOUS
<1>1. bad \in SUBSET (SUBSET S)
  OBVIOUS
<1> HIDE DEF bad
<1>3. PICK T \in bad : \A x \in T : T \ {x} \notin bad
  BY <1>1, <1>2, SubsetMin
<1> USE DEF bad
<1>4. T # {}
  <2>1. Grains(f, {}) = {}
    BY DEF Grains
  <2> QED
    BY <1>3, <2>1, FS_EmptySet
<1>5. PICK x \in T : TRUE
  BY <1>4
<1>6. IsFiniteSet(Grains(f, T \ {x}))
  BY <1>3, <1>5
<1>7. Grains(f, T) = Grains(f, T \ {x}) \cup Grains(f, {x})
  BY <1>5 DEF Grains
<1>8. IsFiniteSet(Grains(f, {x}))
  BY <1>5, GrainsOfOne
<1> HIDE DEF bad
<1>9. IsFiniteSet(Grains(f, T \ {x}) \cup Grains(f, {x}))
  BY <1>6, <1>8, FS_Union
<1> QED
  BY <1>3, <1>7, <1>9 DEF bad

\* One element more.
LEMMA GrainsAdd ==
  ASSUME NEW f, NEW S, IsFiniteSet(S), NEW x \in S, \A y \in S : f[y] \in Nat
  PROVE  Cardinality(Grains(f, S)) = f[x] + Cardinality(Grains(f, S \ {x}))
<1>1. Grains(f, S) = Grains(f, S \ {x}) \cup Grains(f, {x})
  BY DEF Grains
<1>2. Grains(f, S \ {x}) \cap Grains(f, {x}) = {}
  BY DEF Grains
<1>3. IsFiniteSet(S \ {x})
  BY FS_Subset
<1>4. IsFiniteSet(Grains(f, S \ {x})) /\ Cardinality(Grains(f, S \ {x})) \in Nat
  BY <1>3, GrainsFinite, FS_CardinalityType
<1>5. IsFiniteSet(Grains(f, {x})) /\ Cardinality(Grains(f, {x})) = f[x]
  BY GrainsOfOne
<1>6. Cardinality(Grains(f, S)) =
        Cardinality(Grains(f, S \ {x})) + Cardinality(Grains(f, {x}))
          - Cardinality(Grains(f, S \ {x}) \cap Grains(f, {x}))
  BY <1>1, <1>4, <1>5, FS_Union
<1>7. Cardinality(Grains(f, S \ {x}) \cap Grains(f, {x})) = 0
  BY <1>2, FS_EmptySet
<1>8. f[x] \in Nat
  OBVIOUS
<1> QED
  BY <1>4, <1>5, <1>6, <1>7, <1>8

\* The sum is that count: the count satisfies the recursion by which the sum is
\* defined, and there is no second solution.
LEMMA SumIsCount ==
  ASSUME NEW f, NEW S, IsFiniteSet(S), \A x \in S : f[x] \in Nat
  PROVE  Sum(f, S) = Cardinality(Grains(f, S))
<1> DEFINE one(s) == CHOOSE x \in s : TRUE
           Solves(g) == g = [s \in SUBSET S |-> IF s = {} THEN 0 ELSE f[one(s)] + g[s \ {one(s)}]]
           count == [s \in SUBSET S |-> Cardinality(Grains(f, s))]
<1>1. Solves(count)
  <2> SUFFICES ASSUME NEW s \in SUBSET S
               PROVE  count[s] = IF s = {} THEN 0 ELSE f[one(s)] + count[s \ {one(s)}]
    OBVIOUS
  <2>1. CASE s = {}
    <3>1. Grains(f, {}) = {}
      BY DEF Grains
    <3> QED
      BY <2>1, <3>1, FS_EmptySet
  <2>2. CASE s # {}
    <3>1. one(s) \in s
      BY <2>2
    <3>2. IsFiniteSet(s) /\ \A y \in s : f[y] \in Nat
      BY FS_Subset
    <3> HIDE DEF one
    <3>3. Cardinality(Grains(f, s)) = f[one(s)] + Cardinality(Grains(f, s \ {one(s)}))
      BY <3>1, <3>2, GrainsAdd
    <3>4. s \ {one(s)} \in SUBSET S
      OBVIOUS
    <3> QED
      BY <2>2, <3>3, <3>4
  <2> QED
    BY <2>1, <2>2
<1>2. Sum(f, S) = (CHOOSE g : Solves(g))[S]
  BY Zenon DEF Sum, MapThenSumSet, MapThenFoldSet
<1> DEFINE g == CHOOSE h : Solves(h)
<1>3. Solves(g)
  BY <1>1
<1> HIDE DEF one, g
<1>4. /\ \A s \in SUBSET S : g[s] = IF s = {} THEN 0 ELSE f[one(s)] + g[s \ {one(s)}]
      /\ \A s \in SUBSET S : count[s] = IF s = {} THEN 0 ELSE f[one(s)] + count[s \ {one(s)}]
  BY <1>1, <1>3
<1> DEFINE bad == {s \in SUBSET S : g[s] # count[s]}
<1>5. bad = {}
  <2> SUFFICES ASSUME bad # {} PROVE FALSE
    OBVIOUS
  <2>1. bad \in SUBSET (SUBSET S)
    OBVIOUS
  <2> HIDE DEF bad
  <2>2. PICK s \in bad : \A x \in s : s \ {x} \notin bad
    BY <2>1, SubsetMin
  <2>3. s # {} => one(s) \in s
    BY DEF one
  <2>4. s # {} => s \ {one(s)} \notin bad
    BY <2>2, <2>3
  <2> HIDE DEF count
  <2> USE DEF bad
  <2> QED
    BY <1>4, <2>2, <2>4
<1> QED
  BY <1>2, <1>5 DEF g

\* Nothing adds up to nothing.
LEMMA SumEmpty ==
  ASSUME NEW f
  PROVE  Sum(f, {}) = 0
<1>1. Grains(f, {}) = {}
  BY DEF Grains
<1> QED
  BY <1>1, FS_EmptySet, SumIsCount

\* A sum of naturals is one.
LEMMA SumNat ==
  ASSUME NEW f, NEW S, IsFiniteSet(S), \A x \in S : f[x] \in Nat
  PROVE  Sum(f, S) \in Nat
  BY SumIsCount, GrainsFinite, FS_CardinalityType

\* Only the values on the set count.
LEMMA SumAgree ==
  ASSUME NEW f, NEW g, NEW S, IsFiniteSet(S), \A x \in S : f[x] \in Nat /\ g[x] = f[x]
  PROVE  Sum(f, S) = Sum(g, S)
<1>1. Grains(f, S) = Grains(g, S)
  BY DEF Grains
<1> QED
  BY <1>1, SumIsCount

\* One element apart.
LEMMA SumRemove ==
  ASSUME NEW f, NEW S, IsFiniteSet(S), NEW x \in S, \A y \in S : f[y] \in Nat
  PROVE  Sum(f, S) = f[x] + Sum(f, S \ {x})
<1>1. IsFiniteSet(S \ {x})
  BY FS_Subset
<1> QED
  BY <1>1, SumIsCount, GrainsAdd

\* A part has no larger sum.
LEMMA SumPart ==
  ASSUME NEW f, NEW S, IsFiniteSet(S), NEW T \in SUBSET S, \A y \in S : f[y] \in Nat
  PROVE  Sum(f, T) <= Sum(f, S)
<1>1. IsFiniteSet(T)
  BY FS_Subset
<1>2. Grains(f, T) \in SUBSET Grains(f, S)
  BY DEF Grains
<1> QED
  BY <1>1, <1>2, SumIsCount, GrainsFinite, FS_Subset

\* One value is set, in a set where it may be new.
LEMMA SumPut ==
  ASSUME NEW f, NEW g, NEW S, IsFiniteSet(S), NEW x, g[x] \in Nat,
         \A y \in S \ {x} : f[y] \in Nat /\ g[y] = f[y]
  PROVE  Sum(g, S \cup {x}) = g[x] + Sum(f, S \ {x})
<1>1. IsFiniteSet(S \cup {x}) /\ IsFiniteSet(S \ {x})
  BY FS_AddElement, FS_Subset
<1>2. (S \cup {x}) \ {x} = S \ {x}
  OBVIOUS
<1>3. Sum(g, S \cup {x}) = g[x] + Sum(g, (S \cup {x}) \ {x})
  BY <1>1, SumRemove
<1>4. Sum(g, S \ {x}) = Sum(f, S \ {x})
  BY <1>1, SumAgree
<1> QED
  BY <1>2, <1>3, <1>4

\* The sum of a field of records is the sum of its values.
LEMMA SumOfField ==
  ASSUME NEW e, NEW S
  PROVE  MapThenSumSet(LAMBDA x : e[x].size, S) = Sum([x \in S |-> e[x].size], S)
<1> DEFINE f == [x \in S |-> e[x].size]
           one(s) == CHOOSE x \in s : TRUE
           ofField(g) == [s \in SUBSET S |-> IF s = {} THEN 0 ELSE e[one(s)].size + g[s \ {one(s)}]]
           ofValue(g) == [s \in SUBSET S |-> IF s = {} THEN 0 ELSE f[one(s)] + g[s \ {one(s)}]]
           P(g) == g = ofField(g)
           Q(g) == g = ofValue(g)
<1>1. MapThenSumSet(LAMBDA x : e[x].size, S) = (CHOOSE g : P(g))[S]
  BY Zenon DEF MapThenSumSet, MapThenFoldSet
<1>2. Sum(f, S) = (CHOOSE g : Q(g))[S]
  <2> HIDE DEF f
  <2> QED
    BY Zenon DEF Sum, MapThenSumSet, MapThenFoldSet
<1>3. \A s \in SUBSET S : s # {} => f[one(s)] = e[one(s)].size
  OBVIOUS
<1>4. \A g : P(g) <=> Q(g)
  <2> HIDE DEF f, one
  <2> TAKE g
  <2>1. ofField(g) = ofValue(g)
    BY <1>3
  <2> QED
    BY <2>1
<1>5. (CHOOSE g : P(g)) = (CHOOSE g : Q(g))
  <2> HIDE DEF P, Q
  <2> QED
    BY <1>4
<1> QED
  BY <1>1, <1>2, <1>5

-----------------------------------------------------------------------------
(* Recursive functions.                                                    *)

\* h is what a loop over the states D computes: in a state where it stops, the
\* value there, and else what the next state does.
Loops(h, D, stop, val, next) ==
  h = [x \in D |-> IF x \in stop THEN val[x] ELSE h[next[x]]]

\* h has a base value at zero, and a step from each number to the next.
Computes(h, n, base, step) ==
  h = [k \in 0..n |-> IF k = 0 THEN base ELSE step[<<k, h[k - 1]>>]]

\* What a loop computes is defined for every state it can start from: the value
\* at a state where it stops that is reached from there.
LEMMA LoopDefined ==
  ASSUME NEW D, NEW stop, NEW val, NEW next, \A x \in D \ stop : next[x] \in D
  PROVE  \E h : Loops(h, D, stop, val, next)
<1> DEFINE Closed(C) == \A z \in C \ stop : next[z] \in C
           Reached(x) == {y \in D \cap stop : \A C \in SUBSET D : x \in C /\ Closed(C) => y \in C}
           pick(S) == CHOOSE y : y \in S
           h == [x \in D |-> val[pick(Reached(x))]]
<1>1. ASSUME NEW x \in D, x \in stop PROVE Reached(x) = {x}
  <2>1. Closed({x})
    BY <1>1
  <2>2. Reached(x) \subseteq {x}
    <3>1. {x} \in SUBSET D /\ x \in {x}
      OBVIOUS
    <3> HIDE DEF Closed
    <3> QED
      BY <2>1, <3>1
  <2> HIDE DEF Closed
  <2> QED
    BY <1>1, <2>2
<1>2. ASSUME NEW x \in D, x \notin stop PROVE Reached(x) = Reached(next[x])
  <2>1. next[x] \in D
    BY <1>2
  <2>2. ASSUME NEW y \in Reached(x) PROVE y \in Reached(next[x])
    <3> SUFFICES ASSUME NEW C \in SUBSET D, next[x] \in C, Closed(C) PROVE y \in C
      OBVIOUS
    <3>1. Closed(C \cup {x})
      OBVIOUS
    <3>2. C \cup {x} \in SUBSET D /\ x \in C \cup {x}
      OBVIOUS
    <3>3. y \in C \cup {x}
      <4> HIDE DEF Closed
      <4> QED
        BY <3>1, <3>2
    <3> QED
      BY <1>2, <3>3
  <2>3. ASSUME NEW y \in Reached(next[x]) PROVE y \in Reached(x)
    <3> SUFFICES ASSUME NEW C \in SUBSET D, x \in C, Closed(C) PROVE y \in C
      OBVIOUS
    <3>1. next[x] \in C
      BY <1>2
    <3> HIDE DEF Closed
    <3> QED
      BY <3>1
  <2> HIDE DEF Reached
  <2> QED
    BY <2>2, <2>3
<1>3. ASSUME NEW x \in D PROVE h[x] = IF x \in stop THEN val[x] ELSE h[next[x]]
  <2>1. h[x] = val[pick(Reached(x))]
    OBVIOUS
  <2> HIDE DEF Reached
  <2>2. CASE x \in stop
    <3>1. pick({x}) = x
      OBVIOUS
    <3> HIDE DEF pick
    <3> QED
      BY <1>1, <2>1, <2>2, <3>1
  <2>3. CASE x \notin stop
    <3>1. next[x] \in D /\ Reached(x) = Reached(next[x])
      BY <1>2, <2>3
    <3>2. h[next[x]] = val[pick(Reached(next[x]))]
      BY <3>1
    <3> HIDE DEF pick, h
    <3> QED
      BY <2>1, <2>3, <3>1, <3>2
  <2> QED
    BY <2>2, <2>3
<1>4. h = [x \in D |-> h[x]]
  OBVIOUS
<1> HIDE DEF h
<1>5. h = [x \in D |-> IF x \in stop THEN val[x] ELSE h[next[x]]]
  BY <1>3, <1>4
<1> QED
  BY <1>5 DEF Loops

\* A value for each number up to one, from the value for the one before.
LEMMA RecursionDefined ==
  ASSUME NEW V, NEW base \in V, NEW step,
         \A k \in Int, v \in V : step[<<k, v>>] \in V, NEW n \in Nat
  PROVE  \E h \in [0..n -> V] : Computes(h, n, base, step)
<1> DEFINE Good(h, i) ==
             h = [k \in 0..i |-> IF k = 0 THEN base ELSE step[<<k, h[k - 1]>>]]
           T == {i \in Nat : \E h \in [0..i -> V] : Good(h, i)}
<1>1. 0 \in T
  <2> DEFINE h == [k \in 0..0 |-> base]
  <2>1. h \in [0..0 -> V] /\ Good(h, 0)
    OBVIOUS
  <2> QED
    BY <2>1
<1>2. ASSUME NEW i \in Nat, i \in T PROVE i + 1 \in T
  <2>1. PICK g \in [0..i -> V] : Good(g, i)
    BY <1>2
  <2>2. \A k \in 0..i : g[k] = IF k = 0 THEN base ELSE step[<<k, g[k - 1]>>]
    BY <2>1
  <2> DEFINE last == i + 1
             h == [k \in 0..(i + 1) |-> IF k = last THEN step[<<k, g[k - 1]>>] ELSE g[k]]
  <2>3. i \in 0..i /\ last \in Int /\ last - 1 = i /\ last # 0
    OBVIOUS
  <2>4. g[i] \in V /\ step[<<last, g[last - 1]>>] \in V
    BY <2>3
  <2>5. h \in [0..(i + 1) -> V]
    BY <2>4
  <2>6. ASSUME NEW k \in 0..(i + 1)
        PROVE  h[k] = IF k = 0 THEN base ELSE step[<<k, h[k - 1]>>]
    <3>1. CASE k = last
      <4>1. h[k] = step[<<k, g[k - 1]>>]
        BY <3>1
      <4>2. k - 1 \in 0..(i + 1) /\ k - 1 # last
        BY <3>1
      <4>3. h[k - 1] = g[k - 1]
        BY <4>2
      <4> QED
        BY <2>3, <3>1, <4>1, <4>3
    <3>2. CASE k # last /\ k # 0
      <4>1. k \in 0..i /\ k - 1 \in 0..(i + 1) /\ k - 1 # last
        BY <3>2
      <4>2. h[k] = g[k] /\ h[k - 1] = g[k - 1]
        BY <3>2, <4>1
      <4> QED
        BY <2>2, <3>2, <4>1, <4>2
    <3>3. CASE k = 0
      <4>1. 0 \in 0..i /\ 0 # last
        OBVIOUS
      <4>2. h[0] = g[0]
        BY <4>1
      <4> QED
        BY <2>2, <3>3, <4>1, <4>2
    <3> QED
      BY <3>1, <3>2, <3>3
  <2>7. h = [k \in 0..(i + 1) |-> h[k]]
    OBVIOUS
  <2> HIDE DEF h
  <2>8. Good(h, i + 1)
    BY <2>6, <2>7
  <2> HIDE DEF Good
  <2>9. \E f \in [0..(i + 1) -> V] : Good(f, i + 1)
    BY <2>5, <2>8
  <2> QED
    BY <2>9
<1> HIDE DEF T
<1>3. n \in T
  BY <1>1, <1>2, NatInduct
<1> QED
  BY <1>3 DEF T, Computes

-----------------------------------------------------------------------------
(* Sorting.                                                                *)

\* Strictly ordered, and every two elements are comparable.
StrictOrder(R, S) ==
  /\ \A x \in S : <<x, x>> \notin R
  /\ \A x, y \in S : x = y \/ <<x, y>> \in R \/ <<y, x>> \in R
  /\ \A x, y, z \in S : <<x, y>> \in R /\ <<y, z>> \in R => <<x, z>> \in R

\* A finite set with a strict order can be listed in that order.
LEMMA CanBeSorted ==
  ASSUME NEW R, NEW S, IsFiniteSet(S), StrictOrder(R, S)
  PROVE  \E s \in [1..Cardinality(S) -> S] :
           ToSet(s) = S /\ \A i, j \in DOMAIN s : i < j => <<s[i], s[j]>> \in R
<1> DEFINE n == Cardinality(S)
           Below(x) == {y \in S : <<y, x>> \in R}
           rank == [x \in S |-> Cardinality(Below(x)) + 1]
<1>1. n \in Nat
  BY FS_CardinalityType
<1>2. ASSUME NEW x \in S PROVE IsFiniteSet(Below(x)) /\ Cardinality(Below(x)) \in Nat
  <2>1. Below(x) \in SUBSET S
    OBVIOUS
  <2> QED
    BY <2>1, FS_Subset, FS_CardinalityType
<1>3. ASSUME NEW x \in S, NEW y \in S, <<x, y>> \in R
      PROVE  rank[x] < rank[y]
  <2>1. Below(x) \in SUBSET Below(y) /\ x \in Below(y) /\ x \notin Below(x)
    BY <1>3 DEF StrictOrder
  <2>2. Below(x) # Below(y)
    BY <2>1
  <2> HIDE DEF Below
  <2>3. Cardinality(Below(x)) < Cardinality(Below(y))
    BY <1>2, <2>1, <2>2, FS_Subset, FS_CardinalityType
  <2> QED
    BY <1>2, <2>3
<1>4. ASSUME NEW x \in S PROVE rank[x] \in 1..n
  <2>1. Below(x) \in SUBSET S /\ x \notin Below(x)
    BY DEF StrictOrder
  <2>2. Below(x) # S
    BY <2>1
  <2> HIDE DEF Below
  <2>3. Cardinality(Below(x)) < n
    BY <1>1, <1>2, <2>1, <2>2, FS_Subset, FS_CardinalityType
  <2> QED
    BY <1>1, <1>2, <2>3
<1>5. rank \in [S -> 1..n]
  BY <1>4
<1> HIDE DEF rank
<1>6. ASSUME NEW x \in S, NEW y \in S, rank[x] = rank[y] PROVE x = y
  <2>1. rank[x] \in Int /\ rank[y] \in Int
    BY <1>4
  <2>2. ~(rank[x] < rank[y]) /\ ~(rank[y] < rank[x])
    BY <1>6, <2>1
  <2> QED
    BY <1>3, <2>2 DEF StrictOrder
<1>7. IsFiniteSet(1..n) /\ Cardinality(1..n) = n
  <2>1. 1 \in Int /\ n \in Int
    BY <1>1
  <2>2. IsFiniteSet(1..n) /\ Cardinality(1..n) = IF 1 > n THEN 0 ELSE n - 1 + 1
    BY <2>1, FS_Interval
  <2> QED
    BY <1>1, <2>2
<1>8. rank \in Injection(S, 1..n)
  BY <1>5, <1>6 DEF Injection, IsInjective
<1>9. rank \in Surjection(S, 1..n)
  BY <1>7, <1>8, FS_Injection
<1> DEFINE s == [i \in 1..n |-> CHOOSE x \in S : rank[x] = i]
<1>10. \A i \in 1..n : \E x \in S : rank[x] = i
  BY <1>9 DEF Surjection
<1>11. \A i \in 1..n : s[i] \in S /\ rank[s[i]] = i
  BY <1>10
<1>12. \A x \in S : s[rank[x]] = x
  BY <1>4, <1>6, <1>11
<1>13. s \in [1..n -> S]
  BY <1>11
<1> HIDE DEF s
<1>14. ToSet(s) = S
  BY <1>4, <1>11, <1>12, <1>13 DEF ToSet
<1>15. ASSUME NEW i \in 1..n, NEW j \in 1..n, i < j PROVE <<s[i], s[j]>> \in R
  <2>1. s[i] \in S /\ s[j] \in S /\ rank[s[i]] = i /\ rank[s[j]] = j
    BY <1>11
  <2>2. ~(j < i) /\ i # j
    BY <1>1, <1>15
  <2>3. <<s[j], s[i]>> \notin R
    BY <1>3, <2>1, <2>2
  <2>4. s[i] # s[j]
    BY <2>1, <2>2
  <2> QED
    BY <2>1, <2>3, <2>4 DEF StrictOrder
<1> QED
  BY <1>13, <1>14, <1>15

\* A list without repetitions is as long as the set of its elements is large.
LEMMA ListIsAsLong ==
  ASSUME NEW n \in Nat, NEW S, NEW s \in [1..n -> S],
         \A i, j \in 1..n : s[i] = s[j] => i = j
  PROVE  IsFiniteSet(ToSet(s)) /\ Cardinality(ToSet(s)) = n
<1>1. IsFiniteSet(1..n) /\ Cardinality(1..n) = n
  <2>1. 1 \in Int /\ n \in Int
    OBVIOUS
  <2>2. IsFiniteSet(1..n) /\ Cardinality(1..n) = IF 1 > n THEN 0 ELSE n - 1 + 1
    BY <2>1, FS_Interval
  <2> QED
    BY <2>2
<1>2. s \in [1..n -> ToSet(s)] /\ \A x \in ToSet(s) : \E i \in 1..n : s[i] = x
  BY DEF ToSet
<1>3. s \in Surjection(1..n, ToSet(s)) /\ s \in Injection(1..n, ToSet(s))
  BY <1>2 DEF Surjection, Injection, IsInjective
<1> QED
  BY <1>1, <1>3, FS_Surjection
=============================================================================
