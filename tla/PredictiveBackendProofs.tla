----------------------- MODULE PredictiveBackendProofs -----------------------
(***************************************************************************)
(* Proofs about PredictiveBackend, for all examples, weight grids, files   *)
(* and windows: what training makes can be loaded; the ascent keeps its    *)
(* books; a ranking is sound; the policy approves what is made of it.      *)
(***************************************************************************)
EXTENDS PredictiveBackend, SequenceTheorems, FiniteSetTheorems, WellFoundedInduction, TLAPS

-----------------------------------------------------------------------------
(***************************************************************************)
(* Recursion over 1..m.                                                    *)
(***************************************************************************)

\* A set of naturals that is not empty has a least element.
LEMMA LeastNatural ==
    ASSUME NEW T \in SUBSET Nat, T # {}
    PROVE  \E x \in T : \A y \in T : x <= y
<1> DEFINE R == {ss \in Nat \X Nat : ss[1] < ss[2]}
<1>1. OpToRel(<, Nat) = R
  BY Zenon DEF OpToRel
<1>2. IsWellFoundedOn(R, Nat)
  BY <1>1, NatLessThanWellFounded, Zenon
<1>3. \A a, b \in Nat : a < b => <<a, b>> \in R
  OBVIOUS
<1> HIDE DEF R
<1>4. PICK x \in T : \A y \in T : ~(<<y, x>> \in R)
  BY <1>2, WFMin
<1>5. \A y \in T : ~(y < x)
  BY <1>3, <1>4
<1>6. \A y \in T : x <= y
  BY <1>5
<1>7. QED  BY <1>6

\* Induction along 0..m, with a set in place of the predicate.
LEMMA UpTo ==
    ASSUME NEW m \in Nat, NEW T, 0 \in T, \A n \in 1..m : n - 1 \in T => n \in T
    PROVE  0..m \subseteq T
<1> DEFINE B == (0..m) \ T
<1>1. SUFFICES ASSUME B # {} PROVE FALSE
  OBVIOUS
<1>2. B \in SUBSET Nat
  OBVIOUS
<1>3. PICK x \in B : \A y \in B : x <= y
  <2> HIDE DEF B
  <2>1. QED  BY <1>1, <1>2, LeastNatural
<1>4. x \in 1..m /\ x - 1 \in 0..m /\ ~(x <= x - 1)
  BY <1>3
<1>5. x - 1 \in T
  BY <1>3, <1>4
<1>6. QED  BY <1>3, <1>4, <1>5

Solves(f, k, b, F) == f[0] = b /\ \A n \in 1..k : f[n] = F[n][f[n - 1]]

\* A recursion whose steps stay within a set has a solution.
LEMMA RecursionExists ==
    ASSUME NEW m \in Nat, NEW X, NEW b \in X, NEW F \in [1..m -> [X -> X]]
    PROVE  \E f \in [0..m -> X] : Solves(f, m, b, F)
<1> USE DEF Solves
<1> DEFINE T == {k \in 0..m : \E f \in [0..m -> X] : Solves(f, k, b, F)}
<1>1. 0 \in T
  <2> DEFINE f == [n \in 0..m |-> b]
  <2>1. f \in [0..m -> X] /\ Solves(f, 0, b, F) /\ 0 \in 0..m
    OBVIOUS
  <2>2. QED  BY <2>1
<1>2. ASSUME NEW k \in 1..m, k - 1 \in T PROVE k \in T
  <2>1. PICK f \in [0..m -> X] : Solves(f, k - 1, b, F)
    BY <1>2
  <2> DEFINE x == F[k][f[k - 1]]
             g == [f EXCEPT ![k] = x]
  <2>2. k - 1 \in 0..m /\ k \in 0..m
    OBVIOUS
  <2>3. x \in X
    BY <2>2
  <2> HIDE DEF x
  <2>4. g \in [0..m -> X]
    BY <2>2, <2>3
  <2>5. \A n \in 0..m : g[n] = IF n = k THEN x ELSE f[n]
    OBVIOUS
  <2>6. ASSUME NEW n \in 1..k PROVE g[n] = F[n][g[n - 1]]
    <3>1. n \in 0..m /\ n - 1 \in 0..m /\ n - 1 # k
      OBVIOUS
    <3>2. g[n - 1] = f[n - 1] /\ g[n] = IF n = k THEN x ELSE f[n]
      BY <2>5, <3>1
    <3>3. CASE n = k
      BY <3>2, <3>3 DEF x
    <3>4. CASE n # k
      <4>1. n \in 1..(k - 1)
        BY <3>4
      <4>2. f[n] = F[n][f[n - 1]]
        BY <2>1, <4>1
      <4>3. QED  BY <3>2, <3>4, <4>2
    <3>5. QED  BY <3>3, <3>4
  <2>7. g[0] = b
    <3>1. 0 \in 0..m /\ 0 # k
      OBVIOUS
    <3>2. QED  BY <2>1, <2>5, <3>1
  <2>8. Solves(g, k, b, F)
    BY <2>6, <2>7
  <2>9. QED  BY <2>2, <2>4, <2>8
<1>3. m \in T
  <2>1. m \in 0..m
    OBVIOUS
  <2> HIDE DEF T
  <2>2. 0..m \subseteq T
    BY <1>1, <1>2, UpTo
  <2>3. QED  BY <2>1, <2>2
<1>4. QED  BY <1>3

-----------------------------------------------------------------------------
(***************************************************************************)
(* Sums and filtered sequences.                                            *)
(***************************************************************************)

LEMMA FunctionIsSeq ==
    ASSUME NEW n \in Nat, NEW V, NEW s \in [1..n -> V]
    PROVE  s \in Seq(V) /\ Len(s) = n
OBVIOUS

\* The partial sums of a sequence of integers.
LEMMA SumSteps ==
    ASSUME NEW m \in Nat, NEW terms \in [1..m -> Int]
    PROVE  \E f : /\ f[0] = 0 /\ \A n \in 1..m : f[n] = f[n - 1] + terms[n]
                  /\ f[m] = SumOf(terms)
<1> DEFINE step(f) == [n \in 0..m |-> IF n = 0 THEN 0 ELSE f[n - 1] + terms[n]]
           F == [n \in 1..m |-> [x \in Int |-> x + terms[n]]]
           sum == CHOOSE f : f = step(f)
<1>1. Len(terms) = m /\ terms \in Seq(Int)
  OBVIOUS
<1>2. SumOf(terms) = sum[m]
  BY <1>1 DEF SumOf
<1>3. F \in [1..m -> [Int -> Int]]
  OBVIOUS
<1>4. PICK f \in [0..m -> Int] : Solves(f, m, 0, F)
  <2> HIDE DEF F
  <2>1. 0 \in Int
    OBVIOUS
  <2>2. QED  BY <1>3, <2>1, RecursionExists
<1>5. f = step(f)
  <2>1. \A n \in 1..m : f[n] = f[n - 1] + terms[n]
    <3>1. \A n \in 1..m : n - 1 \in 0..m
      OBVIOUS
    <3>2. \A n \in 1..m : f[n - 1] \in Int
      BY <3>1
    <3>3. QED  BY <1>4, <3>2 DEF Solves
  <2>2. \A n \in 0..m : f[n] = IF n = 0 THEN 0 ELSE f[n - 1] + terms[n]
    BY <1>4, <2>1 DEF Solves
  <2>3. QED  BY <2>2
<1>6. sum = step(sum)
  <2> HIDE DEF step
  <2>1. QED  BY <1>5, Zenon
<1> HIDE DEF sum
<1>7. sum[0] = 0 /\ \A n \in 1..m : sum[n] = sum[n - 1] + terms[n]
  <2>1. \A n \in 0..m : sum[n] = IF n = 0 THEN 0 ELSE sum[n - 1] + terms[n]
    BY <1>6
  <2>2. QED  BY <2>1
<1>8. QED  BY <1>2, <1>7

LEMMA SumIsInt ==
    ASSUME NEW m \in Nat, NEW terms \in [1..m -> Int]
    PROVE  SumOf(terms) \in Int
<1>1. PICK f : /\ f[0] = 0 /\ \A n \in 1..m : f[n] = f[n - 1] + terms[n]
               /\ f[m] = SumOf(terms)
  BY SumSteps
<1> DEFINE T == {n \in 0..m : f[n] \in Int}
<1>2. 0 \in T /\ \A n \in 1..m : n - 1 \in T => n \in T
  BY <1>1
<1>3. m \in T
  <2> HIDE DEF T
  <2>1. 0..m \subseteq T
    BY <1>2, UpTo
  <2>2. QED  BY <2>1
<1>4. QED  BY <1>1, <1>3

\* A sum of naturals is at least each of them.
LEMMA SumOfNaturals ==
    ASSUME NEW m \in Nat, NEW terms \in [1..m -> Nat], NEW i \in 1..m
    PROVE  SumOf(terms) \in Nat /\ SumOf(terms) >= terms[i]
<1>1. PICK f : /\ f[0] = 0 /\ \A n \in 1..m : f[n] = f[n - 1] + terms[n]
               /\ f[m] = SumOf(terms)
  <2>1. terms \in [1..m -> Int]
    OBVIOUS
  <2>2. QED  BY <2>1, SumSteps, Zenon
<1> DEFINE T == {n \in 0..m : f[n] \in Nat /\ (n >= i => f[n] >= terms[i])}
<1>2. 0 \in T
  BY <1>1
<1>3. ASSUME NEW n \in 1..m, n - 1 \in T PROVE n \in T
  <2>1. f[n - 1] \in Nat /\ f[n] = f[n - 1] + terms[n] /\ terms[n] \in Nat /\ terms[i] \in Nat
    BY <1>1, <1>3
  <2>2. n - 1 >= i => f[n - 1] >= terms[i]
    BY <1>3
  <2>3. n >= i => n = i \/ n - 1 >= i
    OBVIOUS
  <2>4. QED  BY <2>1, <2>2, <2>3
<1>4. m \in T
  <2> HIDE DEF T
  <2>1. 0..m \subseteq T
    BY <1>2, <1>3, UpTo
  <2>2. QED  BY <2>1
<1>5. QED  BY <1>1, <1>4

\* retain and filter: e takes the places of what is kept to the places it had.
KeptBy(k, s, m, indices, e) ==
    /\ e \in [1..Len(k) -> 1..m]
    /\ \A i, j \in 1..Len(k) : i < j => e[i] < e[j]
    /\ \A i \in 1..Len(k) : e[i] \in indices /\ k[i] = s[e[i]]
    /\ \A n \in 1..m : n \in indices => \E i \in 1..Len(k) : e[i] = n

LEMMA KeptShape ==
    ASSUME NEW V, NEW s \in Seq(V), NEW indices
    PROVE  /\ Kept(s, indices) \in Seq(V)
           /\ \E e : KeptBy(Kept(s, indices), s, Len(s), indices, e)
<1> DEFINE m == Len(s)
           next(n, k) == IF n \in indices THEN Append(k, s[n]) ELSE k
           step(f) == [n \in 0..m |-> IF n = 0 THEN <<>> ELSE next(n, f[n - 1])]
           F == [n \in 1..m |-> [k \in Seq(V) |-> next(n, k)]]
           kept == CHOOSE f : f = step(f)
<1>1. m \in Nat /\ \A n \in 1..m : s[n] \in V
  BY LenProperties, ElementOfSeq
<1> HIDE DEF m
<1>2. Kept(s, indices) = kept[m]
  BY DEF Kept, m
<1>3. \A n \in 1..m : \A k \in Seq(V) : next(n, k) \in Seq(V)
  BY <1>1
<1>4. F \in [1..m -> [Seq(V) -> Seq(V)]]
  <2> HIDE DEF next
  <2>1. QED  BY <1>3
<1>5. PICK f \in [0..m -> Seq(V)] : Solves(f, m, <<>>, F)
  <2> HIDE DEF F
  <2>1. <<>> \in Seq(V)
    BY EmptySeq
  <2>2. QED  BY <1>1, <1>4, <2>1, RecursionExists
<1> HIDE DEF next
<1>6. f = step(f)
  <2>1. \A n \in 1..m : f[n] = next(n, f[n - 1])
    <3>1. \A n \in 1..m : n - 1 \in 0..m
      BY <1>1
    <3>2. \A n \in 1..m : f[n - 1] \in Seq(V)
      BY <3>1
    <3>3. QED  BY <1>5, <3>2 DEF Solves
  <2>2. \A n \in 0..m : f[n] = IF n = 0 THEN <<>> ELSE next(n, f[n - 1])
    BY <1>1, <1>5, <2>1 DEF Solves
  <2>3. QED  BY <2>2
<1>7. kept = step(kept)
  <2> HIDE DEF step
  <2>1. QED  BY <1>6, Zenon
<1> HIDE DEF kept
<1>8. kept[0] = <<>> /\ \A n \in 1..m : kept[n] = next(n, kept[n - 1])
  <2>1. \A n \in 0..m : kept[n] = IF n = 0 THEN <<>> ELSE next(n, kept[n - 1])
    BY <1>7
  <2>2. QED  BY <1>1, <2>1
<1> DEFINE T == {n \in 0..m : kept[n] \in Seq(V) /\ \E e : KeptBy(kept[n], s, n, indices, e)}
<1>9. 0 \in T
  <2>1. KeptBy(<<>>, s, 0, indices, <<>>)
    BY DEF KeptBy
  <2>2. kept[0] \in Seq(V) /\ 0 \in 0..m
    BY <1>1, <1>8, EmptySeq
  <2>3. QED  BY <1>8, <2>1, <2>2
<1>10. ASSUME NEW n \in 1..m, n - 1 \in T PROVE n \in T
  <2> DEFINE k == kept[n - 1]
             l == kept[n]
             c == Len(k)
  <2>1. PICK e : KeptBy(k, s, n - 1, indices, e)
    BY <1>10
  <2>2. k \in Seq(V) /\ c \in Nat
    BY <1>10, LenProperties
  <2>3. l = next(n, k) /\ n \in 0..m /\ n \in Int /\ n >= 1
    BY <1>1, <1>8
  <2> HIDE DEF k, l
  <2>4. CASE n \notin indices
    <3>1. l = k
      BY <2>3, <2>4 DEF next
    <3>2. KeptBy(k, s, n, indices, e)
      <4> HIDE DEF c
      <4>1. e \in [1..c -> 1..(n - 1)]
        BY <2>1 DEF KeptBy, c
      <4>2. \A i \in 1..c : e[i] \in 1..n
        BY <2>3, <4>1
      <4>3. e \in [1..c -> 1..n]
        BY <4>1, <4>2
      <4>4. \A x \in 1..n : x \in indices => x \in 1..(n - 1)
        BY <2>3, <2>4
      <4>5. QED  BY <2>1, <4>3, <4>4 DEF KeptBy, c
    <3>3. QED  BY <2>2, <2>3, <3>1, <3>2 DEF l
  <2>5. CASE n \in indices
    <3> DEFINE d == [i \in 1..(c + 1) |-> IF i = c + 1 THEN n ELSE e[i]]
    <3>1. l = Append(k, s[n])
      BY <2>3, <2>5 DEF next
    <3>2. /\ l \in Seq(V) /\ Len(l) = c + 1 /\ l[c + 1] = s[n]
          /\ \A i \in 1..c : l[i] = k[i]
      BY <1>1, <2>2, <3>1, AppendProperties
    <3> HIDE DEF c
    <3>3. /\ e \in [1..c -> 1..(n - 1)]
          /\ \A i, j \in 1..c : i < j => e[i] < e[j]
          /\ \A i \in 1..c : e[i] \in indices /\ k[i] = s[e[i]]
          /\ \A x \in 1..(n - 1) : x \in indices => \E i \in 1..c : e[i] = x
      BY <2>1 DEF KeptBy, c
    <3>4. /\ d[c + 1] = n /\ \A i \in 1..c : d[i] = e[i] /\ e[i] \in 1..n /\ e[i] < n
          /\ \A i \in 1..(c + 1) : i \in 1..c \/ i = c + 1
          /\ c + 1 \in 1..(c + 1) /\ 1..c \subseteq 1..(c + 1)
          /\ \A x \in 1..n : x \in 1..(n - 1) \/ x = n
      BY <2>2, <2>3, <3>3
    <3>5. d \in [1..(c + 1) -> 1..n]
      <4>1. \A i \in 1..(c + 1) : d[i] \in 1..n
        <5> HIDE DEF d
        <5>1. QED  BY <2>3, <3>4
      <4>2. QED  BY <4>1
    <3> HIDE DEF d
    <3>6. ASSUME NEW i \in 1..(c + 1), NEW j \in 1..(c + 1), i < j PROVE d[i] < d[j]
      <4>1. i \in 1..c
        BY <2>2, <3>6
      <4>2. CASE j \in 1..c
        BY <3>3, <3>4, <3>6, <4>1, <4>2
      <4>3. CASE j = c + 1
        BY <3>4, <4>1, <4>3
      <4>4. QED  BY <3>4, <4>2, <4>3
    <3>7. ASSUME NEW i \in 1..(c + 1) PROVE d[i] \in indices /\ l[i] = s[d[i]]
      BY <2>5, <3>2, <3>3, <3>4
    <3>8. ASSUME NEW x \in 1..n, x \in indices PROVE \E i \in 1..(c + 1) : d[i] = x
      <4>1. CASE x \in 1..(n - 1)
        <5>1. PICK i \in 1..c : e[i] = x
          BY <3>3, <3>8, <4>1
        <5>2. QED  BY <3>4, <5>1
      <4>2. CASE x = n
        BY <3>4, <4>2
      <4>3. QED  BY <3>4, <4>1, <4>2
    <3>9. KeptBy(l, s, n, indices, d)
      BY <3>2, <3>5, <3>6, <3>7, <3>8 DEF KeptBy
    <3>10. QED  BY <2>3, <3>2, <3>9 DEF l
  <2>6. QED  BY <2>4, <2>5
<1>11. m \in T
  <2> HIDE DEF T
  <2>1. 0..m \subseteq T
    BY <1>1, <1>9, <1>10, UpTo
  <2>2. QED  BY <1>1, <2>1
<1>12. QED  BY <1>2, <1>11 DEF m

-----------------------------------------------------------------------------
(***************************************************************************)
(* Score lists.                                                            *)
(***************************************************************************)

\* The order of the strings gives each name a place of its own.
LEMMA RankOfNames ==
    ASSUME NEW x \in Names
    PROVE  Rank(NameOrder, x) \in Int /\ NameOrder[Rank(NameOrder, x)] = x
<1>1. NameOrder \in Seq(Names)
  BY PredictiveAssumption
<1>2. \E i \in DOMAIN NameOrder : NameOrder[i] = x
  BY DEF Names, ToSet
<1>3. Rank(NameOrder, x) \in DOMAIN NameOrder /\ NameOrder[Rank(NameOrder, x)] = x
  BY <1>2, Zenon DEF Rank
<1>4. DOMAIN NameOrder = 1..Len(NameOrder) /\ Len(NameOrder) \in Nat
  BY <1>1, LenProperties
<1>5. QED  BY <1>3, <1>4

\* ScoredBefore is a strict total order on the set.
InOrder(S) ==
    /\ \A x \in S : ~ScoredBefore(x, x)
    /\ \A x, y, z \in S : ScoredBefore(x, y) /\ ScoredBefore(y, z) => ScoredBefore(x, z)
    /\ \A x, y \in S : x # y => ScoredBefore(x, y) \/ ScoredBefore(y, x)

\* Sorting: each place is taken, by one entry, in the order.
LEMMA PlacesTaken ==
    ASSUME NEW S, IsFiniteSet(S), InOrder(S)
    PROVE  /\ \A x \in S : ScorePlace(x, S) \in 1..Cardinality(S)
           /\ \A x, y \in S : ScoredBefore(x, y) => ScorePlace(x, S) < ScorePlace(y, S)
           /\ \A k \in 1..Cardinality(S) : \E x \in S : ScorePlace(x, S) = k
<1> DEFINE n == Cardinality(S)
           before(x) == {y \in S : ScoredBefore(y, x)}
<1>1. n \in Nat
  BY FS_CardinalityType
<1>2. \A x : ScorePlace(x, S) = Cardinality(before(x)) + 1
  BY DEF ScorePlace
<1>3. ASSUME NEW x, NEW T \in SUBSET S, before(x) \subseteq T
      PROVE  /\ IsFiniteSet(T) /\ Cardinality(before(x)) \in Nat /\ Cardinality(T) \in Nat
             /\ Cardinality(before(x)) <= Cardinality(T)
  <2>1. IsFiniteSet(T)
    BY FS_Subset
  <2>2. before(x) \in SUBSET T
    BY <1>3
  <2> HIDE DEF before
  <2>3. IsFiniteSet(before(x)) /\ Cardinality(before(x)) <= Cardinality(T)
    BY <2>1, <2>2, FS_Subset
  <2>4. QED  BY <2>1, <2>3, FS_CardinalityType
<1>4. ASSUME NEW x \in S PROVE ScorePlace(x, S) \in 1..n
  <2> DEFINE T == S \ {x}
  <2>1. before(x) \subseteq T /\ T \in SUBSET S
    BY DEF InOrder
  <2>2. Cardinality(T) = n - 1
    BY FS_RemoveElement
  <2> HIDE DEF T, before, n
  <2>3. Cardinality(before(x)) \in Nat /\ Cardinality(before(x)) <= Cardinality(T)
    BY <1>3, <2>1
  <2>4. QED  BY <1>1, <1>2, <2>2, <2>3
<1>5. ASSUME NEW x \in S, NEW y \in S, ScoredBefore(x, y)
      PROVE  ScorePlace(x, S) < ScorePlace(y, S)
  <2> DEFINE T == before(y) \ {x}
  <2>1. before(x) \subseteq T /\ T \in SUBSET S /\ x \in before(y) /\ before(y) \in SUBSET S
    BY <1>5 DEF InOrder
  <2>2. IsFiniteSet(before(y)) /\ Cardinality(before(y)) \in Nat
    BY <2>1, FS_Subset, FS_CardinalityType
  <2> HIDE DEF before
  <2>3. Cardinality(T) = Cardinality(before(y)) - 1
    BY <2>1, <2>2, FS_RemoveElement
  <2> HIDE DEF T
  <2>4. Cardinality(before(x)) \in Nat /\ Cardinality(before(x)) <= Cardinality(T)
    BY <1>3, <2>1
  <2>5. QED  BY <1>2, <2>2, <2>3, <2>4
<1>6. ASSUME NEW k \in 1..n PROVE \E x \in S : ScorePlace(x, S) = k
  <2> DEFINE I == 1..n
             f == [x \in S |-> ScorePlace(x, S)]
  <2>1. f \in Injection(S, I)
    <3>1. f \in [S -> I]
      BY <1>4
    <3>2. ASSUME NEW x \in S, NEW y \in S, f[x] = f[y] PROVE x = y
      <4>1. ScorePlace(x, S) = ScorePlace(y, S) /\ ScorePlace(x, S) \in Int
        BY <1>4, <3>2
      <4>2. ~ScoredBefore(x, y) /\ ~ScoredBefore(y, x)
        BY <1>5, <4>1
      <4>3. QED  BY <4>2 DEF InOrder
    <3> HIDE DEF f, I
    <3>3. QED  BY <3>1, <3>2 DEF Injection, IsInjective
  <2>2. IsFiniteSet(I) /\ Cardinality(I) = n
    BY <1>1, FS_Interval
  <2>3. f \in Surjection(S, I)
    <3> HIDE DEF f, I
    <3>1. QED  BY <2>1, <2>2, FS_Injection
  <2>4. PICK x \in S : f[x] = k
    <3>1. k \in I
      BY <1>6
    <3> HIDE DEF f, I
    <3>2. QED  BY <2>3, <3>1 DEF Surjection
  <2>5. QED  BY <2>4
<1>7. QED  BY <1>4, <1>5, <1>6

\* A list of scores of apps of A, each app at most once.
ListOf(l, A) == l \in Seq([app : A, score : Int]) /\ IsInjective(AppsOf(l))

LEMMA ListFacts ==
    ASSUME NEW A, NEW l, ListOf(l, A)
    PROVE  /\ Len(l) \in Nat /\ DOMAIN l = 1..Len(l) /\ DOMAIN AppsOf(l) = 1..Len(l)
           /\ \A i \in 1..Len(l) : l[i].app \in A /\ l[i].score \in Int
                                   /\ AppsOf(l)[i] = l[i].app
           /\ \A i, j \in 1..Len(l) : l[i].app = l[j].app => i = j
           /\ ToSet(AppsOf(l)) \in SUBSET A
           /\ ToSet(AppsOf(l)) = {l[i].app : i \in 1..Len(l)}
<1> DEFINE m == Len(l)
<1>1. l \in Seq([app : A, score : Int])
  BY DEF ListOf
<1>2. m \in Nat /\ DOMAIN l = 1..m
  BY <1>1, LenProperties
<1>3. \A i \in 1..m : l[i] \in [app : A, score : Int]
  BY <1>1, ElementOfSeq
<1> HIDE DEF m
<1>4. \A i \in 1..m : l[i].app \in A /\ l[i].score \in Int
  BY <1>3
<1>5. DOMAIN AppsOf(l) = 1..m /\ \A i \in 1..m : AppsOf(l)[i] = l[i].app
  BY <1>2 DEF AppsOf
<1>6. \A i, j \in 1..m : l[i].app = l[j].app => i = j
  BY <1>5 DEF ListOf, IsInjective
<1>7. ToSet(AppsOf(l)) = {l[i].app : i \in 1..m}
  BY <1>5 DEF ToSet
<1>8. ToSet(AppsOf(l)) \in SUBSET A
  BY <1>4, <1>7
<1>9. QED  BY <1>2, <1>4, <1>5, <1>6, <1>7, <1>8 DEF m

\* Each app once, in the order of the scores.
LEMMA RankingShape ==
    ASSUME NEW A \in SUBSET Names, IsFiniteSet(A), NEW score \in [A -> Int]
    PROVE  LET r == Ranking(score) IN
           /\ ListOf(r, A) /\ BestFirst(r)
           /\ ToSet(AppsOf(r)) = A /\ Len(r) = Cardinality(A)
<1> DEFINE of(a) == [app |-> a, score |-> score[a]]
           S == {of(a) : a \in A}
           n == Cardinality(S)
           r == Ranking(score)
           at(x) == ScorePlace(x, S)
<1>1. \A a \in A : of(a).app = a /\ of(a).score = score[a] /\ of(a) \in S
  OBVIOUS
<1>2. \A x \in S : x = of(x.app) /\ x.app \in A /\ x.score \in Int /\ x.score = score[x.app]
  OBVIOUS
<1>3. IsFiniteSet(S) /\ Cardinality(S) = Cardinality(A)
  <2> DEFINE f == [a \in A |-> of(a)]
  <2>1. f \in Surjection(A, S)
    BY DEF Surjection
  <2>2. f \in Injection(A, S)
    <3>1. f \in [A -> S]
      OBVIOUS
    <3>2. \A a, b \in A : f[a] = f[b] => a = b
      <4>1. \A a \in A : f[a] = of(a)
        OBVIOUS
      <4> HIDE DEF f, of
      <4>2. QED  BY <1>1, <4>1
    <3> HIDE DEF f, S
    <3>3. QED  BY <3>1, <3>2 DEF Injection, IsInjective
  <2> HIDE DEF f, S
  <2>3. QED  BY <2>1, <2>2, FS_Surjection
<1>4. InOrder(S)
  <2>1. \A x \in S : Rank(NameOrder, x.app) \in Int /\ NameOrder[Rank(NameOrder, x.app)] = x.app
    <3>1. \A x \in S : x.app \in Names
      BY <1>2
    <3> HIDE DEF S
    <3>2. QED  BY <3>1, RankOfNames
  <2>2. \A x, y \in S : x.app = y.app => x = y
    <3> HIDE DEF of, S
    <3>1. QED  BY <1>2
  <2>3. \A x, y \in S : Rank(NameOrder, x.app) = Rank(NameOrder, y.app) => x = y
    <3> HIDE DEF S
    <3>1. QED  BY <2>1, <2>2
  <2>4. \A x \in S : x.score \in Int
    BY <1>2
  <2> DEFINE key(x) == Rank(NameOrder, x.app)
  <2>5. \A x, y : ScoredBefore(x, y) <=> x.score > y.score \/ (x.score = y.score /\ key(x) < key(y))
    BY DEF ScoredBefore
  <2>6. \A x \in S : key(x) \in Int
    BY <2>1
  <2>7. \A x, y \in S : key(x) = key(y) => x = y
    BY <2>3
  <2> HIDE DEF S, key
  <2>8. \A x \in S : ~ScoredBefore(x, x)
    BY <2>4, <2>5, <2>6
  <2>9. \A x, y, z \in S : ScoredBefore(x, y) /\ ScoredBefore(y, z) => ScoredBefore(x, z)
    BY <2>4, <2>5, <2>6
  <2>10. \A x, y \in S : x # y => ScoredBefore(x, y) \/ ScoredBefore(y, x)
    BY <2>4, <2>5, <2>6, <2>7
  <2>11. QED  BY <2>8, <2>9, <2>10 DEF InOrder
<1>5. r = [k \in 1..n |-> CHOOSE x \in S : at(x) = k]
  <2>1. S = {[app |-> app, score |-> score[app]] : app \in DOMAIN score}
    OBVIOUS
  <2> HIDE DEF S
  <2>2. QED  BY <2>1 DEF Ranking
<1> HIDE DEF S, of, r
<1>6. n \in Nat
  BY <1>3, FS_CardinalityType
<1>7. /\ \A x \in S : at(x) \in 1..n
      /\ \A x, y \in S : ScoredBefore(x, y) => at(x) < at(y)
      /\ \A k \in 1..n : \E x \in S : at(x) = k
  BY <1>3, <1>4, PlacesTaken
<1> HIDE DEF n, at
<1>8. ASSUME NEW k \in 1..n PROVE r[k] \in S /\ at(r[k]) = k
  <2>1. \E x \in S : at(x) = k
    BY <1>7
  <2>2. (CHOOSE x \in S : at(x) = k) \in S /\ at(CHOOSE x \in S : at(x) = k) = k
    BY <2>1, Zenon
  <2>3. QED  BY <1>5, <2>2
<1>9. DOMAIN r = 1..n
  BY <1>5
<1>10. r \in Seq([app : A, score : Int]) /\ Len(r) = n
  <2>1. \A x \in S : x \in [app : A, score : Int]
    <3>1. \A a \in A : of(a) \in [app : A, score : Int]
      BY DEF of
    <3>2. QED  BY <1>2, <3>1
  <2>2. \A k \in 1..n : r[k] \in [app : A, score : Int]
    BY <1>8, <2>1
  <2>3. r \in [1..n -> [app : A, score : Int]]
    BY <1>5, <1>9, <2>2
  <2>4. QED  BY <1>6, <2>3, FunctionIsSeq
<1>11. DOMAIN AppsOf(r) = 1..n /\ \A k \in 1..n : AppsOf(r)[k] = r[k].app
  BY <1>9 DEF AppsOf
<1>12. IsInjective(AppsOf(r))
  <2>1. ASSUME NEW j \in 1..n, NEW k \in 1..n, r[j].app = r[k].app PROVE j = k
    <3>1. r[j] = r[k]
      BY <1>2, <1>8, <2>1
    <3>2. QED  BY <1>8, <3>1
  <2>2. QED  BY <1>11, <2>1 DEF IsInjective
<1>13. BestFirst(r)
  <2>1. ASSUME NEW j \in 1..n, NEW k \in 1..n, j < k PROVE r[j].score >= r[k].score
    <3>1. r[j] \in S /\ r[k] \in S /\ at(r[j]) = j /\ at(r[k]) = k
      BY <1>8
    <3>2. r[j] # r[k] /\ ~ScoredBefore(r[k], r[j])
      BY <1>6, <1>7, <2>1, <3>1
    <3>3. ScoredBefore(r[j], r[k])
      BY <1>4, <3>1, <3>2 DEF InOrder
    <3>4. r[j].score \in Int /\ r[k].score \in Int
      BY <1>2, <3>1
    <3>5. QED  BY <3>3, <3>4 DEF ScoredBefore
  <2>2. QED  BY <1>9, <2>1 DEF BestFirst
<1>14. ToSet(AppsOf(r)) = A
  <2>1. ToSet(AppsOf(r)) = {r[k].app : k \in 1..n}
    BY <1>11 DEF ToSet
  <2>2. \A k \in 1..n : r[k].app \in A
    BY <1>2, <1>8
  <2>3. ASSUME NEW a \in A PROVE \E k \in 1..n : r[k].app = a
    <3>1. of(a) \in S /\ of(a).app = a
      BY <1>1
    <3>2. at(of(a)) \in 1..n
      BY <1>7, <3>1
    <3> DEFINE k == at(of(a))
               x == r[k]
    <3>3. x \in S /\ at(x) = at(of(a)) /\ k \in 1..n
      BY <1>8, <3>2
    <3>4. ~ScoredBefore(x, of(a)) /\ ~ScoredBefore(of(a), x)
      <4>1. at(x) \in Int
        BY <1>6, <3>2, <3>3
      <4>2. QED  BY <1>7, <3>1, <3>3, <4>1
    <3>5. x = of(a)
      BY <1>4, <3>1, <3>3, <3>4 DEF InOrder
    <3>6. QED  BY <3>1, <3>3, <3>5
  <2>4. QED  BY <2>1, <2>2, <2>3
<1>15. QED  BY <1>3, <1>10, <1>12, <1>13, <1>14 DEF ListOf, n, r

\* rank and candidate_feature_rows read the position and the score of an app
\* that is in the list.
LEMMA PositionIn ==
    ASSUME NEW A, NEW l, ListOf(l, A), NEW app \in ToSet(AppsOf(l))
    PROVE  RankIn(l, app) \in Nat /\ ScoreIn(l, app) \in Int
<1>1. PICK i \in 1..Len(l) : l[i].app = app
  BY ListFacts
<1>2. DOMAIN l = 1..Len(l) /\ Len(l) \in Nat /\ \A j \in 1..Len(l) : l[j].score \in Int
  BY ListFacts
<1> DEFINE p == CHOOSE j \in DOMAIN l : l[j].app = app
<1>3. p \in DOMAIN l
  <2>1. \E j \in DOMAIN l : l[j].app = app
    BY <1>1, <1>2
  <2>2. QED  BY <2>1, Zenon
<1>4. RankIn(l, app) = p - 1
  BY DEF RankIn
<1> HIDE DEF p
<1>5. p \in Nat /\ p >= 1 /\ l[p].score \in Int
  BY <1>2, <1>3
<1>6. RankIn(l, app) + 1 = p
  BY <1>4, <1>5
<1>7. ScoreIn(l, app) = l[p].score
  BY <1>6 DEF ScoreIn
<1>8. QED  BY <1>4, <1>5, <1>7

\* filter_current_app.
LEMMA FilteredList ==
    ASSUME NEW A, NEW l, ListOf(l, A), NEW f
    PROVE  LET k == FilterCurrent(l, f) IN
           /\ ListOf(k, A) /\ (BestFirst(l) => BestFirst(k))
           /\ ToSet(AppsOf(k)) = ToSet(AppsOf(l)) \ f.current
<1> DEFINE V == [app : A, score : Int]
           I == {i \in DOMAIN l : l[i].app \notin f.current}
           k == FilterCurrent(l, f)
           m == Len(l)
           n == Len(k)
<1>1. l \in Seq(V)
  BY DEF ListOf
<1>2. k = Kept(l, I)
  BY DEF FilterCurrent
<1> HIDE DEF V, I, k
<1>3. k \in Seq(V) /\ \E e : KeptBy(k, l, m, I, e)
  BY <1>1, <1>2, KeptShape
<1>4. PICK e : KeptBy(k, l, m, I, e)
  BY <1>3
<1>5. /\ m \in Nat /\ DOMAIN l = 1..m
      /\ \A i, j \in 1..m : l[i].app = l[j].app => i = j
      /\ ToSet(AppsOf(l)) = {l[i].app : i \in 1..m}
      /\ \A i \in 1..m : l[i].score \in Int
  BY ListFacts
<1>6. n \in Nat /\ DOMAIN k = 1..n
  BY <1>3, LenProperties
<1> HIDE DEF m, n
<1>7. /\ \A i \in 1..n : e[i] \in 1..m /\ e[i] \in I /\ k[i] = l[e[i]]
      /\ \A i, j \in 1..n : i < j => e[i] < e[j]
      /\ \A x \in 1..m : x \in I => \E i \in 1..n : e[i] = x
  BY <1>4 DEF KeptBy, n
<1>8. DOMAIN AppsOf(k) = 1..n /\ \A i \in 1..n : AppsOf(k)[i] = k[i].app
  BY <1>6 DEF AppsOf
<1>9. IsInjective(AppsOf(k))
  <2>1. ASSUME NEW i \in 1..n, NEW j \in 1..n, k[i].app = k[j].app PROVE i = j
    <3>1. e[i] = e[j] /\ e[i] \in Int
      BY <1>5, <1>7, <2>1
    <3>2. ~(i < j) /\ ~(j < i)
      BY <1>7, <3>1
    <3>3. QED  BY <1>6, <3>2
  <2>2. QED  BY <1>8, <2>1 DEF IsInjective
<1>10. BestFirst(l) => BestFirst(k)
  <2>1. ASSUME BestFirst(l), NEW i \in 1..n, NEW j \in 1..n, i < j
        PROVE  k[i].score >= k[j].score
    <3>1. e[i] \in DOMAIN l /\ e[j] \in DOMAIN l /\ e[i] < e[j]
      BY <1>5, <1>7, <2>1
    <3>2. l[e[i]].score >= l[e[j]].score
      BY <2>1, <3>1 DEF BestFirst
    <3>3. QED  BY <1>7, <3>2
  <2>2. QED  BY <1>6, <2>1 DEF BestFirst
<1>11. ToSet(AppsOf(k)) = ToSet(AppsOf(l)) \ f.current
  <2>1. ToSet(AppsOf(k)) = {k[i].app : i \in 1..n}
    BY <1>8 DEF ToSet
  <2>2. \A i \in 1..n : k[i].app \in ToSet(AppsOf(l)) /\ k[i].app \notin f.current
    <3>1. \A i \in 1..n : l[e[i]].app \in ToSet(AppsOf(l))
      BY <1>5, <1>7
    <3>2. \A i \in 1..n : l[e[i]].app \notin f.current
      BY <1>7 DEF I
    <3>3. QED  BY <1>7, <3>1, <3>2
  <2>3. ASSUME NEW x \in ToSet(AppsOf(l)) \ f.current PROVE \E i \in 1..n : k[i].app = x
    <3>1. PICK j \in 1..m : l[j].app = x
      BY <1>5
    <3>2. j \in I
      BY <1>5, <3>1 DEF I
    <3>3. PICK i \in 1..n : e[i] = j
      BY <1>7, <3>2
    <3>4. QED  BY <1>7, <3>1, <3>3
  <2>4. QED  BY <2>1, <2>2, <2>3
<1>12. QED  BY <1>3, <1>9, <1>10, <1>11 DEF ListOf, V, k

\* truncate.
LEMMA TruncatedList ==
    ASSUME NEW A, NEW l, ListOf(l, A), NEW n \in Nat \ {0}
    PROVE  LET t == Truncate(l, n) IN
           /\ ListOf(t, A) /\ (BestFirst(l) => BestFirst(t)) /\ (t = <<>> => l = <<>>)
           /\ ToSet(AppsOf(t)) \subseteq ToSet(AppsOf(l))
<1> DEFINE t == Truncate(l, n)
           V == [app : A, score : Int]
           m == Len(l)
<1>1. /\ m \in Nat /\ DOMAIN l = 1..m
      /\ \A i, j \in 1..m : l[i].app = l[j].app => i = j
      /\ ToSet(AppsOf(l)) = {l[i].app : i \in 1..m}
  BY ListFacts
<1>2. l \in Seq(V) /\ \A i \in 1..m : l[i] \in V
  <2>1. l \in Seq(V)
    BY DEF ListOf
  <2>2. QED  BY <2>1, ElementOfSeq
<1> HIDE DEF V
<1>3. CASE ~(m > n)
  <2>1. t = l
    BY <1>3 DEF Truncate
  <2>2. QED  BY <2>1
<1>4. CASE m > n
  <2>1. t = SubSeq(l, 1, n)
    BY <1>4 DEF Truncate
  <2> HIDE DEF t, m
  <2>2. \A i \in 1..n : i \in 1..m /\ l[i] \in V
    BY <1>1, <1>2, <1>4
  <2>3. t \in Seq(V) /\ Len(t) = n /\ \A i \in 1..n : t[i] = l[i]
    <3>1. /\ t \in Seq(V) /\ Len(t) = IF 1 <= n THEN n - 1 + 1 ELSE 0
          /\ \A i \in 1 .. n - 1 + 1 : t[i] = l[1 + i - 1]
      BY <2>1, <2>2, SubSeqProperties
    <3>2. n - 1 + 1 = n /\ 1 <= n /\ \A i \in 1..n : 1 + i - 1 = i
      OBVIOUS
    <3>3. QED  BY <3>1, <3>2
  <2>4. DOMAIN t = 1..n
    BY <2>3, LenProperties
  <2>5. DOMAIN AppsOf(t) = 1..n /\ \A i \in 1..n : AppsOf(t)[i] = l[i].app
    BY <2>3, <2>4 DEF AppsOf
  <2>6. IsInjective(AppsOf(t))
    BY <1>1, <2>2, <2>5 DEF IsInjective
  <2>7. BestFirst(l) => BestFirst(t)
    BY <1>1, <2>2, <2>3, <2>4 DEF BestFirst
  <2>8. t # <<>>
    BY <2>3, EmptySeq
  <2>9. ToSet(AppsOf(t)) \subseteq ToSet(AppsOf(l))
    <3>1. ToSet(AppsOf(t)) = {l[i].app : i \in 1..n}
      BY <2>5 DEF ToSet
    <3>2. QED  BY <1>1, <2>2, <3>1
  <2>10. QED  BY <2>3, <2>6, <2>7, <2>8, <2>9 DEF ListOf, V, t
<1>5. QED  BY <1>3, <1>4

\* A table answers with one of its entries, or the default.
LEMMA FoundAmong ==
    ASSUME NEW table, NEW G, \A key \in DOMAIN table : table[key] \in G, NEW keys
    PROVE  /\ Found(table, keys) \subseteq G
           /\ Found(table, keys) # {} => Some(Found(table, keys)) \in G
           /\ \A default \in G : UnwrapOr(Found(table, keys), default) \in G
<1> DEFINE found == Found(table, keys)
<1>1. found \subseteq G
  BY DEF Found
<1> HIDE DEF found
<1>2. ASSUME found # {} PROVE Some(found) \in G
  <2>1. \E x \in found : TRUE
    BY <1>2
  <2>2. Some(found) \in found
    BY <2>1, Zenon DEF Some
  <2>3. QED  BY <1>1, <2>2
<1>3. \A default \in G : UnwrapOr(found, default) \in G
  BY <1>2 DEF UnwrapOr
<1>4. QED  BY <1>1, <1>2, <1>3 DEF found

-----------------------------------------------------------------------------
(***************************************************************************)
(* Exponentials, and what is computed from them.                           *)
(***************************************************************************)

Powers == {0, 1, 2, 4, 8, 16, 32, 64, 128, 256, 512, 1024}

LEMMA ExpNegShape ==
    /\ ExpNeg(0) = 1024
    /\ \A x \in Nat : ExpNeg(x) \in Powers
    /\ \A x, y \in Nat : x <= y => ExpNeg(x) >= ExpNeg(y)
<1> DEFINE t == <<1024, 512, 256, 128, 64, 32, 16, 8, 4, 2, 1>>
           e(q) == IF q > 10 THEN 0 ELSE t[q + 1]
<1>1. \A x : ExpNeg(x) = e(x \div 69)
  BY DEF ExpNeg
<1>2. /\ t[1] = 1024 /\ t[2] = 512 /\ t[3] = 256 /\ t[4] = 128 /\ t[5] = 64 /\ t[6] = 32
      /\ t[7] = 16 /\ t[8] = 8 /\ t[9] = 4 /\ t[10] = 2 /\ t[11] = 1
  OBVIOUS
<1> HIDE DEF t
<1>3. /\ e(0) = 1024 /\ e(1) = 512 /\ e(2) = 256 /\ e(3) = 128 /\ e(4) = 64 /\ e(5) = 32
      /\ e(6) = 16 /\ e(7) = 8 /\ e(8) = 4 /\ e(9) = 2 /\ e(10) = 1
      /\ \A q \in Nat : q > 10 => e(q) = 0
  BY <1>2
<1>4. \A q \in Nat : q \in 0..10 \/ q > 10
  OBVIOUS
<1>5. \A q \in 0..10 : \/ q = 0 \/ q = 1 \/ q = 2 \/ q = 3 \/ q = 4 \/ q = 5
                       \/ q = 6 \/ q = 7 \/ q = 8 \/ q = 9 \/ q = 10
  OBVIOUS
<1> HIDE DEF e
<1>6. \A q \in Nat : e(q) \in Powers
  BY <1>3, <1>4, <1>5 DEF Powers
<1>7. \A q, r \in Nat : q <= r => e(q) >= e(r)
  <2> SUFFICES ASSUME NEW q \in Nat, NEW r \in Nat, q <= r PROVE e(q) >= e(r)
    OBVIOUS
  <2>1. CASE r > 10
    <3>1. e(r) = 0 /\ \A x \in Powers : x \in Int /\ x >= 0
      BY <1>3, <2>1 DEF Powers
    <3>2. QED  BY <1>6, <3>1
  <2>2. CASE r \in 0..10
    <3>1. q \in 0..10
      BY <2>2
    <3>2. QED  BY <1>3, <1>5, <2>2, <3>1
  <2>3. QED  BY <1>4, <2>1, <2>2
<1>8. \A x \in Nat : x \div 69 \in Nat
  OBVIOUS
<1>9. \A x, y \in Nat : x <= y => x \div 69 <= y \div 69
  OBVIOUS
<1>10. 0 \div 69 = 0
  OBVIOUS
<1>11. QED  BY <1>1, <1>3, <1>6, <1>7, <1>8, <1>9, <1>10

LEMMA PowersAreNaturals == \A e \in Powers : e \in Nat
BY DEF Powers

\* sigmoid keeps the order of the logits.
LEMMA SigmoidMonotone ==
    /\ \A x \in Int : Sigmoid(x) \in Int
    /\ \A x, y \in Int : x >= y => Sigmoid(x) >= Sigmoid(y)
<1> DEFINE up(e) == 102400 \div (1024 + e)
           low(e) == (100 * e) \div (1024 + e)
<1>1. /\ up(0) = 100 /\ up(1) = 99 /\ up(2) = 99 /\ up(4) = 99 /\ up(8) = 99 /\ up(16) = 98
      /\ up(32) = 96 /\ up(64) = 94 /\ up(128) = 88 /\ up(256) = 80 /\ up(512) = 66
      /\ up(1024) = 50
  OBVIOUS
<1>2. /\ low(0) = 0 /\ low(1) = 0 /\ low(2) = 0 /\ low(4) = 0 /\ low(8) = 0 /\ low(16) = 1
      /\ low(32) = 3 /\ low(64) = 5 /\ low(128) = 11 /\ low(256) = 20 /\ low(512) = 33
      /\ low(1024) = 50
  OBVIOUS
<1>3. \A x \in Int : Sigmoid(x) = IF x >= 0 THEN up(ExpNeg(x)) ELSE low(ExpNeg(-x))
  BY DEF Sigmoid
<1> HIDE DEF up, low
<1>4. \A e \in Powers : up(e) \in 50..100 /\ low(e) \in 0..50
  BY <1>1, <1>2 DEF Powers
<1>5. \A d, e \in Powers : d <= e => up(d) >= up(e) /\ low(d) <= low(e)
  BY <1>1, <1>2 DEF Powers
<1>6. \A x \in Int : x >= 0 \/ (-x \in Nat /\ ~(x >= 0))
  OBVIOUS
<1>7. \A x \in Int : Sigmoid(x) \in Int
  BY <1>3, <1>4, <1>6, ExpNegShape
<1>8. ASSUME NEW x \in Int, NEW y \in Int, x >= y PROVE Sigmoid(x) >= Sigmoid(y)
  <2>1. CASE y >= 0
    <3>1. x \in Nat /\ y \in Nat /\ y <= x
      BY <1>8, <2>1
    <3>2. /\ ExpNeg(x) \in Powers /\ ExpNeg(y) \in Powers /\ ExpNeg(y) >= ExpNeg(x)
          /\ Sigmoid(x) = up(ExpNeg(x)) /\ Sigmoid(y) = up(ExpNeg(y))
      BY <1>3, <3>1, ExpNegShape
    <3>3. ExpNeg(x) <= ExpNeg(y)
      BY <3>2, PowersAreNaturals
    <3>4. QED  BY <1>5, <3>2, <3>3
  <2>2. CASE ~(x >= 0)
    <3>1. -x \in Nat /\ -y \in Nat /\ -x <= -y /\ ~(y >= 0)
      BY <1>8, <2>2
    <3>2. /\ ExpNeg(-x) \in Powers /\ ExpNeg(-y) \in Powers /\ ExpNeg(-x) >= ExpNeg(-y)
          /\ Sigmoid(x) = low(ExpNeg(-x)) /\ Sigmoid(y) = low(ExpNeg(-y))
      BY <1>3, <2>2, <3>1, ExpNegShape
    <3>3. ExpNeg(-y) <= ExpNeg(-x)
      BY <3>2, PowersAreNaturals
    <3>4. low(ExpNeg(-y)) <= low(ExpNeg(-x)) /\ low(ExpNeg(-y)) \in Int /\ low(ExpNeg(-x)) \in Int
      BY <1>4, <1>5, <3>2, <3>3
    <3>5. QED  BY <3>2, <3>4
  <2>3. CASE x >= 0 /\ ~(y >= 0)
    <3>1. x \in Nat /\ -y \in Nat
      BY <2>3
    <3>2. /\ ExpNeg(x) \in Powers /\ ExpNeg(-y) \in Powers
          /\ Sigmoid(x) = up(ExpNeg(x)) /\ Sigmoid(y) = low(ExpNeg(-y))
      BY <1>3, <2>3, <3>1, ExpNegShape
    <3>3. up(ExpNeg(x)) \in 50..100 /\ low(ExpNeg(-y)) \in 0..50
      BY <1>4, <3>2
    <3>4. QED  BY <3>2, <3>3
  <2>4. QED  BY <2>1, <2>2, <2>3
<1>9. QED  BY <1>7, <1>8

LEMMA GreatestOf ==
    ASSUME NEW n \in Nat \ {0}, NEW s \in [1..n -> Int]
    PROVE  Max(ToSet(s)) \in ToSet(s) /\ \A c \in 1..n : Max(ToSet(s)) >= s[c]
<1> DEFINE T == {k \in 0..n : k >= 1 => \E i \in 1..k : \A j \in 1..k : s[i] >= s[j]}
<1>1. 0 \in T
  OBVIOUS
<1>2. ASSUME NEW k \in 1..n, k - 1 \in T PROVE k \in T
  <2>1. CASE k = 1
    <3>1. 1 \in 1..1 /\ \A j \in 1..1 : j = 1
      OBVIOUS
    <3>2. s[1] >= s[1]
      OBVIOUS
    <3>3. \E i \in 1..1 : \A j \in 1..1 : s[i] >= s[j]
      BY <3>1, <3>2
    <3>4. QED  BY <2>1, <3>3
  <2>2. CASE k > 1
    <3>1. PICK i \in 1..(k - 1) : \A j \in 1..(k - 1) : s[i] >= s[j]
      BY <1>2, <2>2
    <3>2. i \in 1..k /\ k \in 1..k /\ i \in 1..n /\ \A j \in 1..k : j \in 1..n /\ (j \in 1..(k - 1) \/ j = k)
      OBVIOUS
    <3>3. s[i] \in Int /\ s[k] \in Int /\ \A j \in 1..k : s[j] \in Int
      BY <3>2
    <3>4. CASE s[i] >= s[k]
      BY <3>1, <3>2, <3>4
    <3>5. CASE s[k] >= s[i]
      <4>1. \A j \in 1..k : s[k] >= s[j]
        BY <3>1, <3>2, <3>3, <3>5
      <4>2. QED  BY <3>2, <4>1
    <3>6. QED  BY <3>3, <3>4, <3>5
  <2>3. QED  BY <2>1, <2>2
<1>3. n \in T
  <2> HIDE DEF T
  <2>1. 0..n \subseteq T
    BY <1>1, <1>2, UpTo
  <2>2. QED  BY <2>1
<1>4. PICK i \in 1..n : \A j \in 1..n : s[i] >= s[j]
  BY <1>3
<1>5. ToSet(s) = {s[j] : j \in 1..n}
  BY DEF ToSet
<1>6. \E x \in ToSet(s) : \A y \in ToSet(s) : x >= y
  BY <1>4, <1>5
<1>7. Max(ToSet(s)) \in ToSet(s) /\ \A y \in ToSet(s) : Max(ToSet(s)) >= y
  BY <1>6, Zenon DEF Max
<1>8. QED  BY <1>5, <1>7

\* Entries of a sequence without repetitions by their place.
LEMMA PlaceOf ==
    ASSUME NEW V, NEW s \in Seq(V), IsInjective(s), NEW x \in ToSet(s)
    PROVE  /\ (CHOOSE c \in DOMAIN s : s[c] = x) \in 1..Len(s)
           /\ s[CHOOSE c \in DOMAIN s : s[c] = x] = x
<1>1. \E c \in DOMAIN s : s[c] = x
  BY DEF ToSet
<1>2. DOMAIN s = 1..Len(s)
  BY LenProperties
<1>3. (CHOOSE c \in DOMAIN s : s[c] = x) \in DOMAIN s /\ s[CHOOSE c \in DOMAIN s : s[c] = x] = x
  BY <1>1, Zenon
<1>4. QED  BY <1>2, <1>3

LEMMA SeqImage ==
    ASSUME NEW V, NEW s \in Seq(V)
    PROVE  IsFiniteSet(ToSet(s)) /\ ToSet(s) \subseteq V
<1> DEFINE D == 1..Len(s)
<1>1. Len(s) \in Nat /\ DOMAIN s = D /\ \A i \in D : s[i] \in V
  BY LenProperties, ElementOfSeq
<1>2. IsFiniteSet(D)
  BY <1>1, FS_Interval
<1>3. ToSet(s) = {s[i] : i \in D}
  BY <1>1 DEF ToSet
<1> HIDE DEF D
<1> DEFINE g == [i \in D |-> s[i]]
           S == ToSet(s)
<1>4. g \in Surjection(D, S)
  BY <1>3 DEF Surjection
<1>5. IsFiniteSet(S)
  <2> HIDE DEF g, S
  <2>1. QED  BY <1>2, <1>4, FS_Surjection
<1>6. S \subseteq V
  BY <1>1, <1>3
<1>7. QED  BY <1>5, <1>6

\* rank_from_logits: the whole vocabulary.
LEMMA LogitsList ==
    ASSUME NEW vocab \in Seq(Names), vocab # <<>>, IsInjective(vocab),
           NEW logits \in [DOMAIN vocab -> Int]
    PROVE  /\ ListOf(RankFromLogits(vocab, logits), ToSet(vocab))
           /\ ToSet(AppsOf(RankFromLogits(vocab, logits))) = ToSet(vocab)
<1> DEFINE n == Len(vocab)
           V == ToSet(vocab)
           max == Max(ToSet(logits))
           mass == [c \in DOMAIN vocab |-> ExpNeg(max - logits[c])]
           sum == SumOf(mass)
           class(app) == CHOOSE c \in DOMAIN vocab : vocab[c] = app
           score == [app \in V |-> logits[class(app)]]
           ranked == Ranking(score)
           r == RankFromLogits(vocab, logits)
           s(i) == (100 * mass[class(ranked[i].app)]) \div sum
<1>1. n \in Nat \ {0} /\ DOMAIN vocab = 1..n
  BY LenProperties, EmptySeq
<1>2. r = [i \in DOMAIN ranked |-> [app |-> ranked[i].app, score |-> s(i)]]
  BY DEF RankFromLogits
<1>3. V \in SUBSET Names /\ IsFiniteSet(V)
  BY SeqImage
<1>4. \A app \in V : class(app) \in 1..n
  <2>1. QED  BY PlaceOf
<1> HIDE DEF n, V, class, r
<1>5. logits \in [1..n -> Int] /\ \A c \in 1..n : logits[c] \in Int
  BY <1>1
<1>6. max \in ToSet(logits) /\ \A c \in 1..n : max >= logits[c]
  <2> HIDE DEF max
  <2>1. QED  BY <1>1, <1>5, GreatestOf DEF max
<1>7. PICK m \in 1..n : max = logits[m]
  <2> HIDE DEF max
  <2>1. DOMAIN logits = 1..n
    BY <1>5
  <2>2. QED  BY <1>6, <2>1 DEF ToSet
<1>8. \A c \in 1..n : max - logits[c] \in Nat
  <2> HIDE DEF max
  <2>1. max \in Int
    BY <1>5, <1>7
  <2>2. QED  BY <1>5, <1>6, <2>1
<1>9. mass \in [1..n -> Nat] /\ mass[m] = 1024
  <2> HIDE DEF max
  <2>1. \A c \in 1..n : ExpNeg(max - logits[c]) \in Nat
    BY <1>8, ExpNegShape, PowersAreNaturals
  <2>2. max - logits[m] = 0
    BY <1>5, <1>7
  <2>3. mass[m] = 1024
    BY <1>1, <2>2, ExpNegShape
  <2>4. QED  BY <1>1, <2>1, <2>3
<1> HIDE DEF mass
<1>10. sum \in Nat /\ sum >= 1024
  <2>1. n \in Nat /\ m \in 1..n /\ mass \in [1..n -> Nat]
    BY <1>1, <1>9
  <2>2. sum \in Nat /\ sum >= mass[m]
    BY <2>1, SumOfNaturals
  <2>3. QED  BY <1>9, <2>2
<1> HIDE DEF sum
<1>11. score \in [V -> Int]
  BY <1>4, <1>5
<1> HIDE DEF score
<1>12. ListOf(ranked, V) /\ ToSet(AppsOf(ranked)) = V
  BY <1>3, <1>11, RankingShape
<1> HIDE DEF ranked
<1> DEFINE k == Len(ranked)
<1>13. /\ k \in Nat /\ DOMAIN ranked = 1..k /\ \A i \in 1..k : ranked[i].app \in V
       /\ \A i, j \in 1..k : ranked[i].app = ranked[j].app => i = j
       /\ ToSet(AppsOf(ranked)) = {ranked[i].app : i \in 1..k}
  BY <1>12, ListFacts
<1> HIDE DEF k
<1>14. \A i \in 1..k : s(i) \in Int
  <2>1. \A i \in 1..k : mass[class(ranked[i].app)] \in Nat
    BY <1>4, <1>9, <1>13
  <2>2. QED  BY <1>10, <2>1
<1> HIDE DEF s
<1>15. r \in [1..k -> [app : V, score : Int]]
  BY <1>2, <1>13, <1>14
<1>16. r \in Seq([app : V, score : Int]) /\ DOMAIN r = 1..k
  BY <1>13, <1>15, FunctionIsSeq
<1>17. DOMAIN AppsOf(r) = 1..k /\ \A i \in 1..k : AppsOf(r)[i] = ranked[i].app
  BY <1>2, <1>13, <1>16 DEF AppsOf
<1>18. IsInjective(AppsOf(r)) /\ ToSet(AppsOf(r)) = V
  <2>1. IsInjective(AppsOf(r))
    BY <1>13, <1>17 DEF IsInjective
  <2>2. ToSet(AppsOf(r)) = {ranked[i].app : i \in 1..k}
    BY <1>17 DEF ToSet
  <2>3. QED  BY <1>12, <1>13, <2>1, <2>2
<1>19. QED  BY <1>16, <1>18 DEF ListOf, r, V

-----------------------------------------------------------------------------
(***************************************************************************)
(* The component rankers, on an artifact that has been loaded.             *)
(***************************************************************************)

Lists(A) == {l \in Seq([app : A, score : Int]) : IsInjective(AppsOf(l))}
FullLists(A) == {l \in Lists(A) : ToSet(AppsOf(l)) = A}

LEMMA ListsOf == ASSUME NEW A, NEW l PROVE ListOf(l, A) <=> l \in Lists(A)
BY DEF ListOf, Lists

LEMMA WiderList ==
    ASSUME NEW A, NEW B \in SUBSET A, NEW l, ListOf(l, B)
    PROVE  ListOf(l, A)
<1>1. Len(l) \in Nat /\ l \in [1..Len(l) -> [app : B, score : Int]] /\ IsInjective(AppsOf(l))
  BY LenProperties DEF ListOf
<1>2. [app : B, score : Int] \subseteq [app : A, score : Int]
  OBVIOUS
<1>3. l \in [1..Len(l) -> [app : A, score : Int]]
  BY <1>1, <1>2
<1>4. l \in Seq([app : A, score : Int])
  BY <1>1, <1>3, FunctionIsSeq
<1>5. QED  BY <1>1, <1>4 DEF ListOf

\* A sequence without repetitions has as many elements as places.
LEMMA SizeOfInjective ==
    ASSUME NEW V, NEW s \in Seq(V), IsInjective(s)
    PROVE  Cardinality(ToSet(s)) = Len(s)
<1> DEFINE n == Len(s)
           A == ToSet(s)
           I == 1..n
           v == [i \in I |-> s[i]]
<1>1. n \in Nat /\ DOMAIN s = I
  BY LenProperties
<1>2. v \in [I -> A] /\ \A i \in I : v[i] = s[i]
  BY <1>1 DEF ToSet
<1>3. \A i, j \in I : v[i] = v[j] => i = j
  BY <1>1, <1>2 DEF IsInjective
<1>4. \A x \in A : \E i \in I : v[i] = x
  BY <1>1, <1>2 DEF ToSet
<1>5. IsFiniteSet(I) /\ Cardinality(I) = n
  BY <1>1, FS_Interval
<1> HIDE DEF v, A, I, n
<1>6. v \in Surjection(I, A) /\ v \in Injection(I, A)
  BY <1>2, <1>3, <1>4 DEF Injection, Surjection, IsInjective
<1>7. Cardinality(A) = Cardinality(I)
  BY <1>5, <1>6, FS_Surjection
<1>8. QED  BY <1>5, <1>7 DEF A, n

\* validate_score_list; a full list has every app of the vocabulary.
LEMMA ValidList ==
    ASSUME NEW vocab \in Seq(Names), IsInjective(vocab), NEW l \in ScoreLists, NEW full,
           ValidScoreList(l, vocab, full)
    PROVE  l \in Lists(ToSet(vocab)) /\ (full => l \in FullLists(ToSet(vocab)))
<1> DEFINE A == ToSet(vocab)
           n == Len(vocab)
           m == Len(l)
           apps == AppsOf(l)
<1>1. n \in Nat /\ DOMAIN vocab = 1..n /\ \A i \in 1..n : vocab[i] \in A
  BY LenProperties DEF ToSet
<1>2. m \in Nat /\ DOMAIN l = 1..m /\ \A i \in 1..m : l[i] \in [app : Names, score : Int]
  BY LenProperties, ElementOfSeq DEF ScoreLists
<1>3. IsInjective(apps) /\ ToSet(apps) \subseteq A
  BY DEF ValidScoreList
<1>4. DOMAIN apps = 1..m /\ \A i \in 1..m : apps[i] = l[i].app
  BY <1>2 DEF AppsOf
<1>5. \A i \in 1..m : apps[i] \in A
  <2> HIDE DEF apps, A
  <2>1. QED  BY <1>3, <1>4 DEF ToSet
<1>6. l \in Seq([app : A, score : Int])
  <2>1. \A i \in 1..m : l[i] \in [app : A, score : Int]
    <3> HIDE DEF A, apps, m
    <3>1. QED  BY <1>2, <1>4, <1>5
  <2>2. l \in [1..m -> [app : A, score : Int]]
    BY <1>2, <2>1 DEF ScoreLists
  <2>3. QED  BY <1>2, <2>2, FunctionIsSeq
<1>7. l \in Lists(A)
  BY <1>3, <1>6 DEF Lists
<1>8. ASSUME full PROVE ToSet(apps) = A
  <2>1. m = n
    BY <1>8 DEF ValidScoreList
  <2> DEFINE I == 1..n
  <2>2. IsFiniteSet(A) /\ Cardinality(A) = n
    BY SeqImage, SizeOfInjective
  <2>3. IsFiniteSet(I) /\ Cardinality(I) = n
    BY <1>1, FS_Interval
  <2>4. apps \in [I -> A]
    <3>1. apps = [i \in 1..m |-> l[i].app]
      BY <1>2 DEF AppsOf
    <3> HIDE DEF apps, A, m, n
    <3>2. QED  BY <1>4, <1>5, <2>1, <3>1
  <2>5. apps \in Injection(I, A)
    <3> HIDE DEF apps, A
    <3>1. DOMAIN apps = I
      BY <2>4
    <3> HIDE DEF I
    <3>2. QED  BY <1>3, <2>4, <3>1 DEF Injection, IsInjective
  <2>6. apps \in Surjection(I, A)
    <3> HIDE DEF I, A, apps
    <3>1. QED  BY <2>2, <2>3, <2>5, FS_Injection
  <2>7. QED
    <3> HIDE DEF A, apps, I
    <3>1. DOMAIN apps = I
      BY <2>4
    <3>2. QED  BY <1>3, <2>6, <3>1 DEF Surjection, ToSet
<1>9. QED  BY <1>7, <1>8 DEF FullLists

\* What the rankers rely on.
Usable(a) ==
    LET A == ToSet(a.vocab)
        rows == [DOMAIN a.vocab -> Int]
        lists(table) == \A key \in DOMAIN table : table[key] \in Lists(A)
    IN  /\ a.vocab \in Seq(Names) /\ a.vocab # <<>> /\ IsInjective(a.vocab)
        /\ a.priors \in rows /\ a.unknown \in rows /\ a.base \in rows
        /\ \A key \in DOMAIN a.likelihoods : a.likelihoods[key] \in rows
        /\ a.popularity \in FullLists(A)
        /\ \A key \in DOMAIN a.trees : a.trees[key] \in FullLists(A)
        /\ lists(a.global) /\ lists(a.user) /\ lists(a.order2)
        /\ lists(a.context) /\ lists(a.frequency)
        /\ \A key \in DOMAIN a.recency : a.recency[key] \in A
        /\ \A j \in DOMAIN a.combiner.components : a.combiner.weights[j] \in Int
        /\ a.reranker # NoReranker => a.reranker.weights \in [DOMAIN RerankerFeatures -> Int]

LEMMA FeatureNumbers == DOMAIN RerankerFeatures = 1..27 /\ Len(RerankerFeatures) = 27
<1>1. Len(Components) = 9
  BY DEF Components
<1>2. DOMAIN RerankerFeatures = 1..27
  BY <1>1 DEF RerankerFeatures
<1>3. RerankerFeatures \in [1..27 -> {RerankerFeatures[i] : i \in 1..27}]
  BY <1>2 DEF RerankerFeatures
<1>4. QED  BY <1>2, <1>3, FunctionIsSeq

\* validate_artifact establishes it.
LEMMA LoadedIsUsable ==
    ASSUME NEW a, Loads(a)
    PROVE  Usable(a)
<1> DEFINE A == ToSet(a.vocab)
           n == Len(a.vocab)
           rows == [DOMAIN a.vocab -> Int]
<1>1. IsArtifact(a) /\ ValidArtifact(a)
  BY DEF Loads
<1>2. a.vocab \in Seq(Names) /\ a.vocab # <<>> /\ IsInjective(a.vocab)
  BY <1>1 DEF IsArtifact, ValidArtifact
<1>3. n \in Nat /\ DOMAIN a.vocab = 1..n
  BY <1>2, LenProperties
<1>4. \A s \in Seq(Int) : Len(s) = n => s \in rows
  BY <1>3, LenProperties
<1>5. a.priors \in rows /\ a.unknown \in rows /\ a.base \in rows
  <2>1. a.priors \in Seq(Int) /\ a.unknown \in Seq(Int) /\ a.base \in Seq(Int)
    BY <1>1 DEF IsArtifact
  <2>2. Len(a.priors) = n /\ Len(a.unknown) = n /\ Len(a.base) = n
    BY <1>1 DEF ValidArtifact
  <2> HIDE DEF rows, n
  <2>3. QED  BY <1>4, <2>1, <2>2
<1>6. \A key \in DOMAIN a.likelihoods : a.likelihoods[key] \in rows
  <2>1. \A key \in DOMAIN a.likelihoods : a.likelihoods[key] \in Seq(Int)
                                          /\ Len(a.likelihoods[key]) = n
    BY <1>1 DEF IsArtifact, ValidArtifact
  <2> HIDE DEF rows, n
  <2>2. QED  BY <1>4, <2>1
<1> HIDE DEF rows, n
<1>7. \A l \in ScoreLists : ValidScoreList(l, a.vocab, TRUE) => l \in FullLists(A)
  BY <1>2, ValidList
<1>8. \A l \in ScoreLists : ValidScoreList(l, a.vocab, FALSE) => l \in Lists(A)
  BY <1>2, ValidList
<1> HIDE DEF A
<1>9. a.popularity \in FullLists(A)
  <2>1. a.popularity \in ScoreLists /\ ValidScoreList(a.popularity, a.vocab, TRUE)
    BY <1>1 DEF IsArtifact, ValidArtifact
  <2>2. QED  BY <1>7, <2>1
<1>10. \A key \in DOMAIN a.trees : a.trees[key] \in FullLists(A)
  <2>1. \A key \in DOMAIN a.trees : a.trees[key] \in ScoreLists
                                    /\ ValidScoreList(a.trees[key], a.vocab, TRUE)
    BY <1>1 DEF IsArtifact, ValidArtifact
  <2>2. QED  BY <1>7, <2>1
<1>11. /\ \A key \in DOMAIN a.global : a.global[key] \in Lists(A)
       /\ \A key \in DOMAIN a.user : a.user[key] \in Lists(A)
       /\ \A key \in DOMAIN a.order2 : a.order2[key] \in Lists(A)
       /\ \A key \in DOMAIN a.context : a.context[key] \in Lists(A)
       /\ \A key \in DOMAIN a.frequency : a.frequency[key] \in Lists(A)
  <2> DEFINE good(l) == l \in ScoreLists /\ ValidScoreList(l, a.vocab, FALSE)
  <2>1. /\ \A key \in DOMAIN a.global : good(a.global[key])
        /\ \A key \in DOMAIN a.user : good(a.user[key])
        /\ \A key \in DOMAIN a.order2 : good(a.order2[key])
        /\ \A key \in DOMAIN a.context : good(a.context[key])
        /\ \A key \in DOMAIN a.frequency : good(a.frequency[key])
    BY <1>1 DEF IsArtifact, ValidArtifact
  <2>2. \A l : good(l) => l \in Lists(A)
    BY <1>8
  <2> HIDE DEF good
  <2>3. QED  BY <2>1, <2>2
<1>12. \A key \in DOMAIN a.recency : a.recency[key] \in A
  BY <1>1 DEF ValidArtifact, A
<1>13. \A j \in DOMAIN a.combiner.components : a.combiner.weights[j] \in Int
  <2>1. ValidCombiner(a.combiner) /\ a.combiner.weights \in Seq(Int)
    BY <1>1 DEF IsArtifact, ValidArtifact
  <2>2. a.combiner.components \in Seq(ToSet(a.combiner.components))
    BY <1>1 DEF IsArtifact
  <2>3. CASE a.combiner = NoCombiner
    <3>1. a.combiner.components = <<>>
      BY <2>3 DEF NoCombiner
    <3>2. QED  BY <3>1
  <2>4. CASE Len(a.combiner.components) = Len(a.combiner.weights)
    <3>1. DOMAIN a.combiner.components = 1..Len(a.combiner.weights)
      BY <2>2, <2>4, LenProperties
    <3>2. QED  BY <2>1, <3>1, ElementOfSeq
  <2>5. QED  BY <2>1, <2>3, <2>4 DEF ValidCombiner
<1>14. ASSUME a.reranker # NoReranker
       PROVE  a.reranker.weights \in [DOMAIN RerankerFeatures -> Int]
  <2>1. ValidReranker(a.reranker) /\ a.reranker.weights \in Seq(Int)
    BY <1>1 DEF IsArtifact, ValidArtifact
  <2>2. Len(a.reranker.weights) = 27
    BY <1>14, <2>1, FeatureNumbers DEF ValidReranker
  <2>3. QED  BY <2>1, <2>2, FeatureNumbers, LenProperties
<1>15. QED
  BY <1>2, <1>5, <1>6, <1>9, <1>10, <1>11, <1>12, <1>13, <1>14 DEF Usable, A, rows

LEMMA NamesOfVocab ==
    ASSUME NEW a, Usable(a)
    PROVE  ToSet(a.vocab) \in SUBSET Names /\ IsFiniteSet(ToSet(a.vocab))
<1>1. a.vocab \in Seq(Names)
  BY DEF Usable
<1>2. QED  BY <1>1, SeqImage

LEMMA EmptyList == ASSUME NEW A PROVE <<>> \in Lists(A)
<1>1. <<>> \in Seq([app : A, score : Int])
  BY EmptySeq
<1>2. AppsOf(<<>>) = <<>>
  BY DEF AppsOf
<1>3. IsInjective(<<>>)
  BY DEF IsInjective
<1>4. QED  BY <1>1, <1>2, <1>3 DEF Lists

LEMMA OneEntry == ASSUME NEW A, NEW app \in A PROVE <<[app |-> app, score |-> 100]>> \in Lists(A)
<1> DEFINE l == <<[app |-> app, score |-> 100]>>
<1>1. l \in Seq([app : A, score : Int]) /\ DOMAIN l = {1}
  OBVIOUS
<1>2. DOMAIN AppsOf(l) = {1}
  BY <1>1 DEF AppsOf
<1>3. QED  BY <1>1, <1>2 DEF Lists, IsInjective

\* Scores of some of the apps of A.
Scores(score, A) == \E B \in SUBSET A : score \in [B -> Int]

\* What is added up over lists stays with their apps.
LEMMA SummedOver ==
    ASSUME NEW A, NEW m \in Nat, NEW shares, DOMAIN shares = 1..m,
           \A i \in 1..m : /\ DOMAIN shares[i] \subseteq A
                           /\ \A app \in DOMAIN shares[i] : shares[i][app] \in Int
    PROVE  Scores(Summed(shares), A)
<1> DEFINE B == UNION {DOMAIN shares[i] : i \in DOMAIN shares}
           term(app, i) == IF app \in DOMAIN shares[i] THEN shares[i][app] ELSE 0
<1>1. B \in SUBSET A
  OBVIOUS
<1>2. Summed(shares) = [app \in B |-> SumOf([i \in 1..m |-> term(app, i)])]
  BY DEF Summed
<1>3. \A app \in B : \A i \in 1..m : term(app, i) \in Int
  OBVIOUS
<1> HIDE DEF B, term
<1>4. ASSUME NEW app \in B PROVE SumOf([i \in 1..m |-> term(app, i)]) \in Int
  <2> DEFINE terms == [i \in 1..m |-> term(app, i)]
  <2>1. terms \in [1..m -> Int]
    BY <1>3
  <2> HIDE DEF terms
  <2>2. SumOf(terms) \in Int
    BY <2>1, SumIsInt
  <2>3. QED  BY <2>2 DEF terms
<1>5. Summed(shares) \in [B -> Int]
  BY <1>2, <1>4
<1>6. QED  BY <1>1, <1>5 DEF Scores

LEMMA RankedWithin ==
    ASSUME NEW A \in SUBSET Names, IsFiniteSet(A), NEW score,
           Scores(score, A)
    PROVE  ListOf(Ranking(score), A) /\ BestFirst(Ranking(score))
<1>1. PICK B \in SUBSET A : score \in [B -> Int]
  BY DEF Scores
<1>2. B \in SUBSET Names /\ IsFiniteSet(B)
  BY FS_Subset
<1>3. ListOf(Ranking(score), B) /\ BestFirst(Ranking(score))
  BY <1>1, <1>2, RankingShape
<1>4. QED  BY <1>3, WiderList

LEMMA OptionNumbers == ASSUME NEW f PROVE DOMAIN KeyOptions(f) = 1..9
BY DEF KeyOptions

LEMMA NaiveBayesList ==
    ASSUME NEW a, Usable(a), NEW f
    PROVE  RankNaiveBayes(a, f) \in Lists(ToSet(a.vocab))
<1> DEFINE D == DOMAIN a.vocab
           options == KeyOptions(f)
           evidence(keys, c) ==
               IF keys = {} THEN 0
               ELSE UnwrapOr(Found(a.likelihoods, keys), a.unknown)[c]
           sum(c) == SumOf([n \in DOMAIN options |-> evidence(options[n], c)])
           logits == [c \in D |-> a.priors[c] + sum(c)]
<1>1. /\ a.vocab \in Seq(Names) /\ a.vocab # <<>> /\ IsInjective(a.vocab)
      /\ a.priors \in [D -> Int] /\ a.unknown \in [D -> Int]
      /\ \A key \in DOMAIN a.likelihoods : a.likelihoods[key] \in [D -> Int]
  BY DEF Usable
<1>2. RankNaiveBayes(a, f) = RankFromLogits(a.vocab, logits)
  BY DEF RankNaiveBayes
<1>3. \A keys : \A c \in D : evidence(keys, c) \in Int
  <2>1. \A keys : UnwrapOr(Found(a.likelihoods, keys), a.unknown) \in [D -> Int]
    <3> DEFINE G == [D -> Int]
    <3>1. a.unknown \in G /\ \A key \in DOMAIN a.likelihoods : a.likelihoods[key] \in G
      BY <1>1
    <3> HIDE DEF G
    <3>2. \A keys : UnwrapOr(Found(a.likelihoods, keys), a.unknown) \in G
      BY <3>1, FoundAmong
    <3>3. QED  BY <3>2 DEF G
  <2>2. QED  BY <2>1
<1> HIDE DEF evidence
<1>4. ASSUME NEW c \in D PROVE sum(c) \in Int
  <2> DEFINE terms == [n \in 1..9 |-> evidence(options[n], c)]
  <2>1. terms \in [1..9 -> Int]
    BY <1>3
  <2> HIDE DEF terms
  <2>2. SumOf(terms) \in Int
    BY <2>1, SumIsInt
  <2>3. QED  BY <2>2, OptionNumbers DEF terms
<1> HIDE DEF sum
<1>5. logits \in [D -> Int]
  BY <1>1, <1>4
<1> HIDE DEF logits
<1>6. QED  BY <1>1, <1>2, <1>5, LogitsList, ListsOf

LEMMA FeatureLiftList ==
    ASSUME NEW a, Usable(a), NEW f
    PROVE  RankFeatureLift(a, f) \in Lists(ToSet(a.vocab))
<1> DEFINE D == DOMAIN a.vocab
           A == ToSet(a.vocab)
           options == KeyOptions(f)
           lift(keys, c) == IF Found(a.trees, keys) = {} THEN 0
                            ELSE ScoreIn(Some(Found(a.trees, keys)), a.vocab[c])
           sum(c) == SumOf([n \in DOMAIN options |-> lift(options[n], c)])
           logits == [c \in D |-> a.base[c] + sum(c)]
<1>1. /\ a.vocab \in Seq(Names) /\ a.vocab # <<>> /\ IsInjective(a.vocab)
      /\ a.base \in [D -> Int]
      /\ \A key \in DOMAIN a.trees : a.trees[key] \in FullLists(A)
  BY DEF Usable
<1>2. RankFeatureLift(a, f) = RankFromLogits(a.vocab, logits)
  BY DEF RankFeatureLift
<1>3. ASSUME NEW keys, NEW c \in D PROVE lift(keys, c) \in Int
  <2>1. CASE Found(a.trees, keys) = {}
    BY <2>1
  <2>2. CASE Found(a.trees, keys) # {}
    <3> DEFINE l == Some(Found(a.trees, keys))
    <3>1. l \in FullLists(A)
      <4> HIDE DEF A
      <4>1. QED  BY <1>1, <2>2, FoundAmong
    <3>2. a.vocab[c] \in A
      BY DEF ToSet
    <3>3. ListOf(l, A) /\ a.vocab[c] \in ToSet(AppsOf(l))
      BY <3>1, <3>2, ListsOf DEF FullLists
    <3> HIDE DEF l, A
    <3>4. ScoreIn(l, a.vocab[c]) \in Int
      BY <3>3, PositionIn
    <3>5. QED  BY <2>2, <3>4 DEF l
  <2>3. QED  BY <2>1, <2>2
<1> HIDE DEF lift
<1>4. ASSUME NEW c \in D PROVE sum(c) \in Int
  <2> DEFINE terms == [n \in 1..9 |-> lift(options[n], c)]
  <2>1. terms \in [1..9 -> Int]
    BY <1>3
  <2> HIDE DEF terms
  <2>2. SumOf(terms) \in Int
    BY <2>1, SumIsInt
  <2>3. QED  BY <2>2, OptionNumbers DEF terms
<1> HIDE DEF sum
<1>5. logits \in [D -> Int]
  BY <1>1, <1>4
<1> HIDE DEF logits
<1>6. QED  BY <1>1, <1>2, <1>5, LogitsList, ListsOf

\* A list as a function of its apps.
LEMMA ScoresTyped ==
    ASSUME NEW A, NEW l \in Lists(A)
    PROVE  /\ DOMAIN ScoresOf(l) \subseteq A
           /\ \A app \in DOMAIN ScoresOf(l) : ScoresOf(l)[app] \in Int
<1>1. ListOf(l, A)
  BY ListsOf
<1>2. ToSet(AppsOf(l)) \subseteq A
  BY <1>1, ListFacts
<1>3. \A app \in ToSet(AppsOf(l)) : ScoreIn(l, app) \in Int
  BY <1>1, PositionIn
<1>4. QED  BY <1>2, <1>3 DEF ScoresOf

LEMMA OptionAsSeq ==
    ASSUME NEW G, NEW option, option \subseteq G
    PROVE  AsSeq(option) \in Seq(G)
<1>1. CASE option = {}
  BY <1>1, EmptySeq DEF AsSeq
<1>2. CASE option # {}
  <2>1. \E x \in option : TRUE
    BY <1>2
  <2>2. Some(option) \in option
    BY <2>1, Zenon DEF Some
  <2>3. QED  BY <1>2, <2>2 DEF AsSeq
<1>3. QED  BY <1>1, <1>2

LEMMA MarkovContextList ==
    ASSUME NEW a, Usable(a), NEW f
    PROVE  RankMarkovContext(a, f) \in Lists(ToSet(a.vocab))
<1> DEFINE A == ToSet(a.vocab)
           G == Lists(A)
           of(option) == AsSeq(Found(a.context, f.current \X option))
           lists == of(f.hour) \o of(f.weekday)
           shares == [i \in DOMAIN lists |-> ScoresOf(lists[i])]
           m == Len(lists)
<1>1. \A key \in DOMAIN a.context : a.context[key] \in G
  BY DEF Usable
<1>2. A \in SUBSET Names /\ IsFiniteSet(A)
  BY NamesOfVocab
<1>3. RankMarkovContext(a, f) = Ranking(Summed(shares))
  BY DEF RankMarkovContext
<1> HIDE DEF G, A
<1>4. \A option : of(option) \in Seq(G)
  <2>1. \A keys : Found(a.context, keys) \subseteq G
    BY <1>1, FoundAmong
  <2>2. QED  BY <2>1, OptionAsSeq
<1> HIDE DEF of
<1>5. lists \in Seq(G)
  BY <1>4, ConcatProperties
<1> HIDE DEF lists
<1>6. m \in Nat /\ DOMAIN lists = 1..m /\ \A i \in 1..m : lists[i] \in G
  BY <1>5, LenProperties, ElementOfSeq
<1> HIDE DEF m
<1>7. DOMAIN shares = 1..m /\ \A i \in 1..m : shares[i] = ScoresOf(lists[i])
  BY <1>6
<1> HIDE DEF shares
<1>8. \A i \in 1..m : /\ DOMAIN shares[i] \subseteq A
                      /\ \A app \in DOMAIN shares[i] : shares[i][app] \in Int
  <2>1. \A l \in G : /\ DOMAIN ScoresOf(l) \subseteq A
                     /\ \A app \in DOMAIN ScoresOf(l) : ScoresOf(l)[app] \in Int
    BY ScoresTyped DEF G
  <2>2. QED  BY <1>6, <1>7, <2>1
<1>9. Scores(Summed(shares), A)
  BY <1>6, <1>7, <1>8, SummedOver
<1>10. ListOf(Ranking(Summed(shares)), A)
  BY <1>2, <1>9, RankedWithin
<1>11. QED  BY <1>3, <1>10, ListsOf DEF A

\* component_rankings: nine lists over the vocabulary.
LEMMA ComponentLists ==
    ASSUME NEW a, Usable(a), NEW f
    PROVE  ComponentRankings(a, f) \in [1..9 -> Lists(ToSet(a.vocab))]
<1> DEFINE A == ToSet(a.vocab)
           G == Lists(A)
<1>1. /\ \A key \in DOMAIN a.global : a.global[key] \in G
      /\ \A key \in DOMAIN a.user : a.user[key] \in G
      /\ \A key \in DOMAIN a.order2 : a.order2[key] \in G
      /\ \A key \in DOMAIN a.frequency : a.frequency[key] \in G
  BY DEF Usable
<1>2. a.popularity \in G
  BY DEF Usable, FullLists
<1>3. <<>> \in G
  BY EmptyList
<1>4. RankNaiveBayes(a, f) \in G /\ RankFeatureLift(a, f) \in G /\ RankMarkovContext(a, f) \in G
  BY NaiveBayesList, FeatureLiftList, MarkovContextList
<1>5. RankUserRecency(a, f) \in G
  <2> DEFINE found == Found(a.recency, UserKeys(f))
             option == {[app |-> app, score |-> 100] : app \in found}
  <2>1. found \subseteq A
    <3>1. \A key \in DOMAIN a.recency : a.recency[key] \in A
      BY DEF Usable
    <3>2. QED  BY <3>1, FoundAmong
  <2> HIDE DEF found
  <2>2. RankUserRecency(a, f) = AsSeq(option)
    BY DEF RankUserRecency, found
  <2>3. CASE option = {}
    BY <1>3, <2>2, <2>3 DEF AsSeq
  <2>4. CASE option # {}
    <3> DEFINE x == Some(option)
    <3>1. x \in option
      <4>1. \E y \in option : TRUE
        BY <2>4
      <4>2. QED  BY <4>1, Zenon DEF Some
    <3> HIDE DEF x
    <3>2. PICK app \in A : x = [app |-> app, score |-> 100]
      BY <2>1, <3>1
    <3>3. AsSeq(option) = <<x>>
      BY <2>4 DEF AsSeq, x
    <3>4. QED  BY <2>2, <3>2, <3>3, OneEntry
  <2>5. QED  BY <2>3, <2>4
<1> HIDE DEF G
<1>6. /\ \A keys : \A d \in G : UnwrapOr(Found(a.user, keys), d) \in G
      /\ \A keys : \A d \in G : UnwrapOr(Found(a.global, keys), d) \in G
      /\ \A keys : \A d \in G : UnwrapOr(Found(a.order2, keys), d) \in G
      /\ \A keys : \A d \in G : UnwrapOr(Found(a.frequency, keys), d) \in G
  BY <1>1, FoundAmong
<1>7. RankMarkovOrder2(a, f) \in G
  BY <1>3, <1>6 DEF RankMarkovOrder2
<1>8. RankMarkov(a, f) \in G
  BY <1>2, <1>6 DEF RankMarkov
<1>9. RankRecency(a, f) \in G
  BY <1>3, <1>6 DEF RankRecency
<1>10. RankUserFrequency(a, f) \in G
  BY <1>3, <1>6 DEF RankUserFrequency
<1>11. QED  BY <1>2, <1>4, <1>5, <1>7, <1>8, <1>9, <1>10 DEF ComponentRankings, G

-----------------------------------------------------------------------------
(***************************************************************************)
(* Fusion.                                                                 *)
(***************************************************************************)

LEMMA FusedTyped ==
    ASSUME NEW A, NEW rankings \in [1..9 -> Lists(A)], NEW weights \in [1..9 -> Int]
    PROVE  Scores(Fused(rankings, weights), A)
<1> DEFINE share(i, app) == weights[i] * (2 * (100 \div (1 + RankIn(rankings[i], app)))
                                          + ScoreIn(rankings[i], app))
           apps(i) == IF weights[i] = 0 THEN {} ELSE ToSet(AppsOf(rankings[i]))
           shares == [i \in 1..9 |-> [app \in apps(i) |-> share(i, app)]]
<1>1. Fused(rankings, weights) = Summed(shares)
  <2>1. DOMAIN rankings = 1..9
    OBVIOUS
  <2>2. QED  BY <2>1 DEF Fused
<1>2. \A i \in 1..9 : ListOf(rankings[i], A) /\ weights[i] \in Int
  BY ListsOf
<1>3. \A i \in 1..9 : apps(i) \subseteq A /\ apps(i) \subseteq ToSet(AppsOf(rankings[i]))
  BY <1>2, ListFacts
<1>4. ASSUME NEW i \in 1..9, NEW app \in apps(i) PROVE share(i, app) \in Int
  <2>1. RankIn(rankings[i], app) \in Nat /\ ScoreIn(rankings[i], app) \in Int
    BY <1>2, <1>3, PositionIn
  <2> DEFINE r == RankIn(rankings[i], app)
             s == ScoreIn(rankings[i], app)
             d == 100 \div (1 + r)
  <2> HIDE DEF r, s
  <2>2. d \in Int
    BY <2>1 DEF r, s
  <2> HIDE DEF d
  <2>3. 2 * d + s \in Int
    BY <2>1, <2>2 DEF s
  <2>4. weights[i] * (2 * d + s) \in Int
    BY <1>2, <2>3
  <2>5. QED  BY <2>4 DEF d, r, s
<1> HIDE DEF share, apps
<1>5. DOMAIN shares = 1..9 /\ \A i \in 1..9 : shares[i] = [app \in apps(i) |-> share(i, app)]
  OBVIOUS
<1> HIDE DEF shares
<1>6. \A i \in 1..9 : /\ DOMAIN shares[i] \subseteq A
                      /\ \A app \in DOMAIN shares[i] : shares[i][app] \in Int
  BY <1>3, <1>4, <1>5
<1>7. Scores(Summed(shares), A)
  <2>1. 9 \in Nat
    OBVIOUS
  <2>2. QED  BY <1>5, <1>6, <2>1, SummedOver
<1>8. QED  BY <1>1, <1>7

\* Scores mapped by a function that keeps their order.
LEMMA Rescored ==
    ASSUME NEW A, NEW l, ListOf(l, A), BestFirst(l), NEW g \in [Int -> Int],
           \A x, y \in Int : x >= y => g[x] >= g[y], NEW r,
           r = [i \in DOMAIN l |-> [l[i] EXCEPT !.score = g[l[i].score]]]
    PROVE  ListOf(r, A) /\ BestFirst(r)
<1> DEFINE m == Len(l)
<1>1. /\ m \in Nat /\ DOMAIN l = 1..m
      /\ \A i \in 1..m : l[i].app \in A /\ l[i].score \in Int
      /\ \A i, j \in 1..m : l[i].app = l[j].app => i = j
  BY ListFacts
<1>2. \A i \in 1..m : l[i] \in [app : A, score : Int]
  BY ElementOfSeq DEF ListOf
<1> HIDE DEF m
<1>3. \A i \in 1..m : [l[i] EXCEPT !.score = g[l[i].score]] \in [app : A, score : Int]
  BY <1>1, <1>2
<1>4. r \in [1..m -> [app : A, score : Int]]
  BY <1>1, <1>3
<1>5. \A i \in 1..m : r[i].app = l[i].app /\ r[i].score = g[l[i].score]
  BY <1>1, <1>2
<1>6. r \in Seq([app : A, score : Int]) /\ DOMAIN r = 1..m
  BY <1>1, <1>4, FunctionIsSeq
<1>7. DOMAIN AppsOf(r) = 1..m /\ \A i \in 1..m : AppsOf(r)[i] = l[i].app
  BY <1>5, <1>6 DEF AppsOf
<1>8. IsInjective(AppsOf(r))
  BY <1>1, <1>7 DEF IsInjective
<1>9. BestFirst(r)
  <2>1. \A i, j \in 1..m : i < j => l[i].score >= l[j].score
    BY <1>1 DEF BestFirst
  <2>2. ASSUME NEW i \in 1..m, NEW j \in 1..m, i < j PROVE r[i].score >= r[j].score
    <3>1. l[i].score \in Int /\ l[j].score \in Int /\ l[i].score >= l[j].score
      BY <1>1, <2>1, <2>2
    <3>2. g[l[i].score] >= g[l[j].score]
      BY <3>1
    <3>3. QED  BY <1>5, <3>2
  <2>3. QED  BY <1>6, <2>2 DEF BestFirst
<1>10. QED  BY <1>6, <1>8, <1>9 DEF ListOf

LEMMA HundredthsList ==
    ASSUME NEW A, NEW l, ListOf(l, A), BestFirst(l), NEW unit \in {100, 200}
    PROVE  ListOf(Hundredths(l, unit), A) /\ BestFirst(Hundredths(l, unit))
<1> DEFINE g == [x \in Int |-> x \div unit]
           r == Hundredths(l, unit)
<1>1. g \in [Int -> Int]
  OBVIOUS
<1>2. \A x, y \in Int : x >= y => x \div 100 >= y \div 100 /\ x \div 200 >= y \div 200
  OBVIOUS
<1>3. \A x, y \in Int : x >= y => g[x] >= g[y]
  BY <1>2
<1>4. r = [i \in DOMAIN l |-> [l[i] EXCEPT !.score = g[l[i].score]]]
  <2>1. \A i \in DOMAIN l : l[i].score \div unit = g[l[i].score]
    <3>1. \A i \in DOMAIN l : l[i].score \in Int
      BY ListFacts
    <3>2. QED  BY <3>1
  <2>2. r = [i \in DOMAIN l |-> [l[i] EXCEPT !.score = l[i].score \div unit]]
    BY DEF Hundredths
  <2> HIDE DEF g, r
  <2>3. QED  BY <2>1, <2>2
<1> HIDE DEF g, r
<1>5. ListOf(r, A) /\ BestFirst(r)
  BY <1>1, <1>3, <1>4, Rescored
<1>6. QED  BY <1>5 DEF r

\* rank_ensemble_rrf.
LEMMA RrfList ==
    ASSUME NEW a, Usable(a), NEW f
    PROVE  ListOf(RankRrf(a, f), ToSet(a.vocab)) /\ BestFirst(RankRrf(a, f))
<1> DEFINE A == ToSet(a.vocab)
           named(i) == {j \in DOMAIN a.combiner.components :
                            a.combiner.components[j] = Components[i]}
           given(i) == {a.combiner.weights[j] : j \in named(i)}
           weights == [i \in DOMAIN Components |-> UnwrapOr(given(i), 0)]
           rankings == ComponentRankings(a, f)
           fused == Fused(rankings, weights)
<1>1. A \in SUBSET Names /\ IsFiniteSet(A)
  BY NamesOfVocab
<1>2. RankRrf(a, f) = Hundredths(Ranking(fused), 200)
  BY DEF RankRrf
<1>3. \A i : given(i) \subseteq Int
  BY DEF Usable
<1> HIDE DEF given
<1>4. ASSUME NEW i PROVE UnwrapOr(given(i), 0) \in Int
  <2>1. CASE given(i) = {}
    BY <2>1 DEF UnwrapOr
  <2>2. CASE given(i) # {}
    <3>1. \E x \in given(i) : TRUE
      BY <2>2
    <3>2. Some(given(i)) \in given(i)
      BY <3>1, Zenon DEF Some
    <3>3. QED  BY <1>3, <2>2, <3>2 DEF UnwrapOr
  <2>3. QED  BY <2>1, <2>2
<1>5. DOMAIN Components = 1..9
  BY DEF Components
<1>6. weights \in [1..9 -> Int]
  BY <1>4, <1>5
<1>7. rankings \in [1..9 -> Lists(A)]
  BY ComponentLists
<1> HIDE DEF A, weights, rankings
<1>8. Scores(fused, A)
  BY <1>6, <1>7, FusedTyped
<1> HIDE DEF fused
<1>9. ListOf(Ranking(fused), A) /\ BestFirst(Ranking(fused))
  BY <1>1, <1>8, RankedWithin
<1>10. QED  BY <1>2, <1>9, HundredthsList DEF A

\* rank_ensemble without a combiner.
LEMMA LegacyList ==
    ASSUME NEW a, Usable(a), NEW f
    PROVE  ListOf(RankLegacy(a, f), ToSet(a.vocab)) /\ BestFirst(RankLegacy(a, f))
<1> DEFINE A == ToSet(a.vocab)
           lists == <<RankNaiveBayes(a, f), RankMarkov(a, f), RankFeatureLift(a, f)>>
           weights == <<30, 40, 30>>
           share(i, app) == weights[i] * ScoreIn(lists[i], app)
           shares == [i \in 1..3 |-> [app \in ToSet(AppsOf(lists[i])) |-> share(i, app)]]
<1>1. A \in SUBSET Names /\ IsFiniteSet(A)
  BY NamesOfVocab
<1>2. RankLegacy(a, f) = Hundredths(Ranking(Summed(shares)), 100)
  BY DEF RankLegacy
<1>3. lists \in [1..3 -> Lists(A)]
  <2>1. ComponentRankings(a, f) \in [1..9 -> Lists(A)]
    BY ComponentLists
  <2>2. ComponentRankings(a, f)[3] = RankMarkov(a, f)
    BY DEF ComponentRankings
  <2>3. RankMarkov(a, f) \in Lists(A)
    BY <2>1, <2>2
  <2>4. RankNaiveBayes(a, f) \in Lists(A) /\ RankFeatureLift(a, f) \in Lists(A)
    BY NaiveBayesList, FeatureLiftList
  <2> HIDE DEF A
  <2>5. QED  BY <2>3, <2>4
<1>4. \A i \in 1..3 : weights[i] \in Int
  OBVIOUS
<1> HIDE DEF lists, A, weights
<1>5. \A i \in 1..3 : ListOf(lists[i], A)
  BY <1>3, ListsOf
<1>6. \A i \in 1..3 : ToSet(AppsOf(lists[i])) \subseteq A
  BY <1>5, ListFacts
<1>7. \A i \in 1..3 : \A app \in ToSet(AppsOf(lists[i])) : ScoreIn(lists[i], app) \in Int
  BY <1>5, PositionIn
<1>8. \A i \in 1..3 : \A app \in ToSet(AppsOf(lists[i])) : share(i, app) \in Int
  BY <1>4, <1>7
<1> HIDE DEF share
<1>9. /\ DOMAIN shares = 1..3
      /\ \A i \in 1..3 : shares[i] = [app \in ToSet(AppsOf(lists[i])) |-> share(i, app)]
  OBVIOUS
<1> HIDE DEF shares
<1>10. \A i \in 1..3 : /\ DOMAIN shares[i] \subseteq A
                       /\ \A app \in DOMAIN shares[i] : shares[i][app] \in Int
  BY <1>6, <1>8, <1>9
<1>11. Scores(Summed(shares), A)
  <2>1. 3 \in Nat
    OBVIOUS
  <2>2. QED  BY <1>9, <1>10, <2>1, SummedOver
<1>12. ListOf(Ranking(Summed(shares)), A) /\ BestFirst(Ranking(Summed(shares)))
  BY <1>1, <1>11, RankedWithin
<1>13. QED  BY <1>2, <1>12, HundredthsList DEF A

\* candidate_feature_rows: three numbers of each component.
LEMMA RowsTyped ==
    ASSUME NEW A, NEW rankings \in [1..9 -> Lists(A)], NEW current
    PROVE  LET rows == CandidateRows(rankings, current) IN
           /\ DOMAIN rows \subseteq A \ current
           /\ \A app \in DOMAIN rows : rows[app] \in [1..27 -> Int]
<1> DEFINE rows == CandidateRows(rankings, current)
           apps == (UNION {ToSet(AppsOf(l)) : l \in ToSet(rankings)}) \ current
           list(i) == rankings[(i - 1) \div 3 + 1]
           cell(i, app) ==
               IF app \notin ToSet(AppsOf(list(i))) THEN 0
               ELSE CASE (i - 1) % 3 = 0 -> 100 \div (1 + RankIn(list(i), app))
                      [] (i - 1) % 3 = 1 -> ScoreIn(list(i), app)
                      [] OTHER -> IF RankIn(list(i), app) = 0 THEN 100 ELSE 0
<1>1. rows = [app \in apps |-> [i \in 1..27 |-> cell(i, app)]]
  BY FeatureNumbers DEF CandidateRows
<1>2. \A k \in 1..9 : ListOf(rankings[k], A)
  BY ListsOf
<1>3. apps \subseteq A \ current
  <2>1. \A l \in ToSet(rankings) : ToSet(AppsOf(l)) \subseteq A
    <3>1. \A k \in 1..9 : ToSet(AppsOf(rankings[k])) \subseteq A
      BY <1>2, ListFacts
    <3>2. QED  BY <3>1 DEF ToSet
  <2>2. QED  BY <2>1
<1>4. \A i \in 1..27 : (i - 1) \div 3 + 1 \in 1..9
  OBVIOUS
<1>5. \A i \in 1..27 : ListOf(list(i), A)
  BY <1>2, <1>4
<1> HIDE DEF list
<1>6. ASSUME NEW i \in 1..27, NEW app PROVE cell(i, app) \in Int
  <2>1. CASE app \notin ToSet(AppsOf(list(i)))
    BY <2>1
  <2>2. CASE app \in ToSet(AppsOf(list(i)))
    <3>1. RankIn(list(i), app) \in Nat /\ ScoreIn(list(i), app) \in Int
      BY <1>5, <2>2, PositionIn
    <3>2. 100 \div (1 + RankIn(list(i), app)) \in Int
      BY <3>1
    <3>3. QED  BY <2>2, <3>1, <3>2
  <2>3. QED  BY <2>1, <2>2
<1> HIDE DEF cell, apps
<1>7. QED  BY <1>1, <1>3, <1>6

LEMMA DotIsInt ==
    ASSUME NEW weights \in [1..27 -> Int], NEW row \in [1..27 -> Int]
    PROVE  Dot(weights, row) \in Int
<1> DEFINE terms == [i \in 1..27 |-> weights[i] * row[i]]
<1>1. terms \in [1..27 -> Int]
  OBVIOUS
<1>2. Dot(weights, row) = SumOf(terms)
  BY DEF Dot
<1> HIDE DEF terms
<1>3. 27 \in Nat
  OBVIOUS
<1>4. SumOf(terms) \in Int
  BY <1>1, <1>3, SumIsInt
<1>5. QED  BY <1>2, <1>4

\* rank_reranked.
LEMMA RerankedList ==
    ASSUME NEW a, Usable(a), a.reranker # NoReranker, NEW f
    PROVE  ListOf(RankReranked(a, f), ToSet(a.vocab)) /\ BestFirst(RankReranked(a, f))
<1> DEFINE A == ToSet(a.vocab)
           rankings == ComponentRankings(a, f)
           rows == CandidateRows(rankings, f.current)
           weights == a.reranker.weights
           score == [app \in DOMAIN rows |-> Dot(weights, rows[app])]
           ranked == Ranking(score)
           r == RankReranked(a, f)
           g == [x \in Int |-> Sigmoid(x \div 100)]
<1>1. A \in SUBSET Names /\ IsFiniteSet(A)
  BY NamesOfVocab
<1>2. r = [i \in DOMAIN ranked |-> [ranked[i] EXCEPT !.score = Sigmoid(ranked[i].score \div 100)]]
  BY DEF RankReranked
<1>3. rankings \in [1..9 -> Lists(A)]
  BY ComponentLists
<1>4. weights \in [1..27 -> Int]
  BY FeatureNumbers DEF Usable
<1> HIDE DEF A, rankings, weights, r
<1>5. DOMAIN rows \subseteq A \ f.current /\ \A app \in DOMAIN rows : rows[app] \in [1..27 -> Int]
  BY <1>3, RowsTyped
<1> HIDE DEF rows
<1>6. \A app \in DOMAIN rows : Dot(weights, rows[app]) \in Int
  BY <1>4, <1>5, DotIsInt
<1>7. score \in [DOMAIN rows -> Int] /\ DOMAIN rows \in SUBSET A
  BY <1>5, <1>6
<1> HIDE DEF score
<1>8. ListOf(ranked, A) /\ BestFirst(ranked)
  <2>1. Scores(score, A)
    BY <1>7 DEF Scores
  <2>2. QED  BY <1>1, <2>1, RankedWithin
<1> HIDE DEF ranked
<1>9. \A x \in Int : x \div 100 \in Int
  OBVIOUS
<1>10. \A x, y \in Int : x >= y => x \div 100 >= y \div 100
  OBVIOUS
<1>11. g \in [Int -> Int] /\ \A x, y \in Int : x >= y => g[x] >= g[y]
  BY <1>9, <1>10, SigmoidMonotone
<1>12. r = [i \in DOMAIN ranked |-> [ranked[i] EXCEPT !.score = g[ranked[i].score]]]
  <2>1. \A i \in DOMAIN ranked : Sigmoid(ranked[i].score \div 100) = g[ranked[i].score]
    <3>1. \A i \in DOMAIN ranked : ranked[i].score \in Int
      BY <1>8, ListFacts
    <3>2. QED  BY <3>1
  <2> HIDE DEF g
  <2>2. QED  BY <1>2, <2>1
<1> HIDE DEF g
<1>13. ListOf(r, A) /\ BestFirst(r)
  BY <1>8, <1>11, <1>12, Rescored
<1>14. QED  BY <1>13 DEF r, A

LEMMA EnsembleList ==
    ASSUME NEW a, Usable(a), NEW f
    PROVE  ListOf(RankEnsemble(a, f), ToSet(a.vocab)) /\ BestFirst(RankEnsemble(a, f))
BY RerankedList, LegacyList, RrfList DEF RankEnsemble

\* rank_with_features.
LEMMA RankedApps ==
    ASSUME NEW a, Usable(a), NEW f, NEW k \in Nat \ {0}
    PROVE  LET r == RankApps(a, f, k) IN
           /\ ListOf(r, ToSet(a.vocab))
           /\ ToSet(AppsOf(r)) \subseteq ToSet(a.vocab) \ f.current
           /\ BestFirst(a.popularity) => BestFirst(r)
           /\ r = <<>> => ToSet(a.vocab) \subseteq f.current
<1> DEFINE A == ToSet(a.vocab)
           scores == FilterCurrent(RankEnsemble(a, f), f)
           popular == FilterCurrent(a.popularity, f)
           l == IF scores = <<>> THEN popular ELSE scores
<1>1. RankApps(a, f, k) = Truncate(l, k)
  BY DEF RankApps
<1>2. ListOf(RankEnsemble(a, f), A) /\ BestFirst(RankEnsemble(a, f))
  BY EnsembleList
<1>3. ListOf(a.popularity, A) /\ ToSet(AppsOf(a.popularity)) = A
  BY ListsOf DEF Usable, FullLists
<1> HIDE DEF A
<1>4. /\ ListOf(scores, A) /\ BestFirst(scores)
      /\ ToSet(AppsOf(scores)) = ToSet(AppsOf(RankEnsemble(a, f))) \ f.current
  BY <1>2, FilteredList
<1>5. /\ ListOf(popular, A) /\ (BestFirst(a.popularity) => BestFirst(popular))
      /\ ToSet(AppsOf(popular)) = A \ f.current
  BY <1>3, FilteredList
<1>6. ToSet(AppsOf(RankEnsemble(a, f))) \subseteq A
  BY <1>2, ListFacts
<1> HIDE DEF scores, popular
<1>7. /\ ListOf(l, A) /\ (BestFirst(a.popularity) => BestFirst(l))
      /\ ToSet(AppsOf(l)) \subseteq A \ f.current
  BY <1>4, <1>5, <1>6
<1>8. l = <<>> => A \subseteq f.current
  <2>1. ASSUME l = <<>> PROVE A \subseteq f.current
    <3>1. popular = <<>>
      BY <2>1
    <3>2. ToSet(AppsOf(<<>>)) = {}
      BY DEF AppsOf, ToSet
    <3>3. QED  BY <1>5, <3>1, <3>2
  <2>2. QED  BY <2>1
<1> HIDE DEF l
<1>9. /\ ListOf(Truncate(l, k), A) /\ (BestFirst(l) => BestFirst(Truncate(l, k)))
      /\ (Truncate(l, k) = <<>> => l = <<>>)
      /\ ToSet(AppsOf(Truncate(l, k))) \subseteq ToSet(AppsOf(l))
  BY <1>7, TruncatedList
<1>10. QED  BY <1>1, <1>7, <1>8, <1>9 DEF A

-----------------------------------------------------------------------------
(***************************************************************************)
(* What is served.                                                         *)
(***************************************************************************)

\* evaluate_model_input, for the artifact it was asked of.
Answers(s, a) ==
    /\ s.ranking = RankApps(a, FeaturesFromModelInput(s.input), MaxIntents)
    /\ s.intents = PredictedIntents(s.ranking, KnownTargets(s.input.context))

\* Only one artifact that passed validation is ever asked.
ServeInv ==
    /\ phase # "served" => served = {}
    /\ phase \in {"loaded", "served"} =>
           \A a \in artifact : Loads(a) /\ \A b \in artifact : a = b
    /\ \A s \in served : \E a \in artifact : Answers(s, a)

LEMMA ServeInit == Init => ServeInv
BY DEF Init, ServeInv

LEMMA ServeStep == ServeInv /\ [Next]_vars => ServeInv'
<1> SUFFICES ASSUME ServeInv, [Next]_vars PROVE ServeInv'
  OBVIOUS
<1>1. ASSUME phase # "served", UNCHANGED served, phase' \notin {"loaded", "served"}
      PROVE  ServeInv'
  BY <1>1 DEF ServeInv
<1>2. CASE AddExample
  BY <1>1, <1>2 DEF AddExample
<1>3. CASE Train
  <2>1. phase = "collect" /\ UNCHANGED served /\ phase' \in {"trained", "ascend"}
    BY <1>3 DEF Train
  <2>2. QED  BY <1>1, <2>1
<1>4. CASE Ascend
  BY <1>1, <1>4 DEF Ascend
<1>5. CASE NextSweep
  BY <1>1, <1>5 DEF NextSweep
<1>6. CASE FinishAscent
  BY <1>1, <1>6 DEF FinishAscent
<1>7. CASE FitReranker
  BY <1>1, <1>7 DEF FitReranker
<1>8. CASE Load
  <2>1. phase = "trained" /\ UNCHANGED served
    BY <1>8 DEF Load
  <2>2. \/ phase' = "heuristic"
        \/ phase' = "loaded" /\ \E x : Loads(x) /\ artifact' = {x}
    BY <1>8 DEF Load
  <2>3. CASE phase' = "heuristic"
    BY <1>1, <2>1, <2>3
  <2>4. CASE phase' = "loaded" /\ \E x : Loads(x) /\ artifact' = {x}
    BY <2>1, <2>4 DEF ServeInv
  <2>5. QED  BY <2>2, <2>3, <2>4
<1>9. CASE Serve
  <2>1. phase = "loaded" /\ phase' = "served" /\ UNCHANGED artifact
    BY <1>9 DEF Serve
  <2>2. PICK a \in artifact, input \in Inputs :
            LET ranking == RankApps(a, FeaturesFromModelInput(input), MaxIntents)
                known == KnownTargets(input.context)
            IN  served' = {[input |-> input, ranking |-> ranking,
                            intents |-> PredictedIntents(ranking, known)]}
    BY <1>9 DEF Serve
  <2> DEFINE ranking == RankApps(a, FeaturesFromModelInput(input), MaxIntents)
             s == [input |-> input, ranking |-> ranking,
                   intents |-> PredictedIntents(ranking, KnownTargets(input.context))]
  <2>3. served' = {s}
    BY <2>2
  <2>4. Answers(s, a)
    BY DEF Answers
  <2> HIDE DEF s
  <2>5. QED  BY <2>1, <2>3, <2>4 DEF ServeInv
<1>10. CASE UNCHANGED vars
  BY <1>10 DEF vars, ServeInv
<1>11. QED
  BY <1>2, <1>3, <1>4, <1>5, <1>6, <1>7, <1>8, <1>9, <1>10 DEF Next

\* From any artifact that passes validation, damaged files included, a ranking
\* names apps of the vocabulary other than the current one, each once, keeps the
\* order of the scores, and is empty only if there is nothing to name.
THEOREM RankingIsSound == Spec => []RankSound
<1>1. ServeInv => RankSound
  <2> SUFFICES ASSUME ServeInv, NEW s \in served, NEW a \in artifact
               PROVE  LET f == FeaturesFromModelInput(s.input)
                          apps == AppsOf(s.ranking)
                      IN  /\ ToSet(apps) \subseteq ToSet(a.vocab) \ f.current
                          /\ IsInjective(apps)
                          /\ BestFirst(a.popularity) => BestFirst(s.ranking)
                          /\ apps = <<>> => ToSet(a.vocab) \subseteq f.current
    BY DEF RankSound
  <2> DEFINE f == FeaturesFromModelInput(s.input)
             r == s.ranking
  <2>1. phase = "served"
    BY DEF ServeInv
  <2>2. Loads(a) /\ Answers(s, a)
    BY <2>1 DEF ServeInv
  <2>3. Usable(a) /\ MaxIntents \in Nat \ {0}
    BY <2>2, LoadedIsUsable, PredictiveAssumption
  <2>4. r = RankApps(a, f, MaxIntents)
    BY <2>2 DEF Answers
  <2> HIDE DEF f, r
  <2>5. /\ ListOf(r, ToSet(a.vocab))
        /\ ToSet(AppsOf(r)) \subseteq ToSet(a.vocab) \ f.current
        /\ BestFirst(a.popularity) => BestFirst(r)
        /\ r = <<>> => ToSet(a.vocab) \subseteq f.current
    BY <2>3, <2>4, RankedApps
  <2>6. AppsOf(r) = <<>> => r = <<>>
    <3>1. DOMAIN AppsOf(r) = 1..Len(r) /\ Len(r) \in Nat
      BY <2>5, ListFacts
    <3>2. AppsOf(r) = <<>> => Len(r) = 0
      <4>1. DOMAIN <<>> = {}
        OBVIOUS
      <4>2. Len(r) # 0 => 1 \in 1..Len(r)
        BY <3>1
      <4>3. QED  BY <3>1, <4>1, <4>2
    <3>3. QED  BY <2>5, <3>2, EmptySeq DEF ListOf
  <2>7. IsInjective(AppsOf(r))
    BY <2>5 DEF ListOf
  <2>8. QED  BY <2>5, <2>6, <2>7 DEF f, r
<1>2. QED  BY <1>1, ServeInit, ServeStep, PTL DEF Spec

-----------------------------------------------------------------------------
(***************************************************************************)
(* The intents against the policy.                                         *)
(***************************************************************************)

\* The running count of an intent begins with zero.
LEMMA CountFromZero ==
    ASSUME NEW intent, NEW a, intent.actions = <<a>>, NEW route, NEW known
    PROVE  ApprovedCount(intent, route, known)[0] = 0
<1> DEFINE passes(n) == FilterAction(intent.actions[n], route, known) = "Approved"
           step(g) == [n \in 0..Len(intent.actions) |->
                        IF n = 0 THEN 0
                        ELSE IF g[n - 1] < MaxActions /\ passes(n) THEN g[n - 1] + 1
                        ELSE g[n - 1]]
           f == [n \in 0..1 |-> IF n = 0 THEN 0
                                ELSE IF 0 < MaxActions /\ passes(1) THEN 1 ELSE 0]
           count == ApprovedCount(intent, route, known)
<1>1. Len(intent.actions) = 1
  OBVIOUS
<1>2. count = CHOOSE g : g = step(g)
  BY DEF ApprovedCount
<1> HIDE DEF passes
<1>3. f = step(f)
  <2>1. \A n \in 0..1 : n = 0 \/ n = 1
    OBVIOUS
  <2>2. f[0] = 0 /\ f[1] = IF 0 < MaxActions /\ passes(1) THEN 1 ELSE 0
    OBVIOUS
  <2>3. step(f) = [n \in 0..1 |-> IF n = 0 THEN 0
                        ELSE IF f[n - 1] < MaxActions /\ passes(n) THEN f[n - 1] + 1
                        ELSE f[n - 1]]
    BY <1>1
  <2>4. \A n \in 0..1 : f[n] = step(f)[n]
    BY <2>1, <2>2, <2>3
  <2>5. QED  BY <2>3, <2>4
<1> HIDE DEF f, count
<1>4. count = step(count)
  <2> HIDE DEF step
  <2>1. QED  BY <1>2, <1>3, Zenon
<1>5. 0 \in 0..Len(intent.actions)
  BY <1>1
<1>6. step(count)[0] = 0
  BY <1>5
<1>7. QED  BY <1>4, <1>6 DEF count

\* One action, at the floor of the policy at least, with a target it knows.
Single(intent, known) ==
    /\ intent.risk = "Low" /\ intent.confidence >= ConfidenceFloor
    /\ \E a : /\ intent.actions = <<a>> /\ a.urgency # "Deferred" /\ a.type \in ActionTypes
              /\ TargetAllowed(a, known)
              /\ a.type = "PreWarmProcess" => a.target[1] \notin {"none", "empty"}

LEMMA SingleIsApproved ==
    ASSUME MaxActions > 0, Blocked = {},
           NEW c, NEW intents, NEW i \in DOMAIN intents, NEW n \in DOMAIN intents[i].actions,
           Single(intents[i], KnownTargets(c))
    PROVE  Settle(c, "LocalEvaluator", intents, <<i, n>>) = "Approved"
<1> DEFINE intent == Judged(intents[i])
           known == KnownTargets(c)
           route == "LocalEvaluator"
           acts == intents[i].actions
<1>1. /\ intent.actions = acts /\ intent.risk = "Low"
      /\ (intent.confident <=> intents[i].confidence >= ConfidenceFloor)
      /\ intents[i].confidence >= ConfidenceFloor
  BY DEF Judged, Single
<1>2. Settle(c, route, intents, <<i, n>>) =
        IF ~SchemaValid(intent, intent.actions[n]) THEN "InvalidSchema"
        ELSE EvaluateAction(intent, n, route, known)
  BY DEF Settle, Evaluate
<1>3. PICK a : /\ acts = <<a>> /\ a.urgency # "Deferred" /\ a.type \in ActionTypes
               /\ TargetAllowed(a, known)
               /\ a.type = "PreWarmProcess" => a.target[1] \notin {"none", "empty"}
  BY DEF Single
<1>4. n = 1 /\ acts[n] = a /\ n - 1 = 0
  BY <1>3
<1> HIDE DEF intent, known, acts
<1>5. ApprovedCount(intent, route, known)[0] = 0
  BY <1>1, <1>3, CountFromZero
<1>6. ~(ApprovedCount(intent, route, known)[n - 1] >= MaxActions)
  BY <1>4, <1>5, PolicyAssumption
<1>7. SchemaValid(intent, acts[n])
  BY <1>1, <1>3, <1>4 DEF SchemaValid
<1>8. FilterAction(acts[n], route, known) = "Approved"
  <2>1. AllowedActions(route) = ActionTypes
    BY DEF AllowedActions
  <2>2. QED  BY <1>3, <1>4, <2>1 DEF FilterAction
<1>9. /\ ~(RiskRank(intent.risk) > RiskRank(MaxRisk(route)))
      /\ ~(RiskRank(intent.risk) > RiskRank(MaxAutoRisk))
  BY <1>1, PolicyAssumption DEF RiskRank, MaxRisk
<1>10. EvaluateAction(intent, n, route, known) = "Approved"
  BY <1>1, <1>6, <1>8, <1>9 DEF EvaluateAction
<1>11. QED  BY <1>1, <1>2, <1>7, <1>10

\* prediction_to_intent: it pre-warms an app only if the window knows it.
LEMMA PredictedAreSingle ==
    ASSUME NEW A, NEW ranking, ListOf(ranking, A), NEW known
    PROVE  \A i \in DOMAIN PredictedIntents(ranking, known) :
               Single(PredictedIntents(ranking, known)[i], known)
<1> DEFINE intents == PredictedIntents(ranking, known)
<1>1. ASSUME NEW d, NEW a, d.risk = "Low", d.confidence >= ConfidenceFloor,
             d.actions = <<a>>, a.urgency # "Deferred", a.type \in ActionTypes,
             TargetAllowed(a, known),
             a.type = "PreWarmProcess" => a.target[1] \notin {"none", "empty"}
      PROVE  Single(d, known)
  BY <1>1 DEF Single
<1>2. CASE ranking = <<>>
  <2> DEFINE idle == Intent("Idle", "", 50, <<NoOp>>)
  <2>1. intents = <<idle>>
    BY <1>2 DEF PredictedIntents
  <2>2. idle.risk = "Low" /\ idle.confidence = 50 /\ idle.actions = <<NoOp>>
    BY DEF Intent
  <2>3. /\ NoOp.urgency # "Deferred" /\ NoOp.type = "NoOp" /\ NoOp.type \in ActionTypes
        /\ TargetAllowed(NoOp, known)
    BY DEF NoOp, Action, TargetAllowed, ActionTypes
  <2> HIDE DEF idle
  <2>4. idle.confidence >= ConfidenceFloor
    BY <2>2 DEF ConfidenceFloor
  <2>5. Single(idle, known)
    BY <1>1, <2>2, <2>3, <2>4
  <2>6. \A i \in DOMAIN <<idle>> : <<idle>>[i] = idle
    OBVIOUS
  <2>7. QED  BY <2>1, <2>5, <2>6
<1>3. CASE ranking # <<>>
  <2> DEFINE n == Len(ranking)
  <2>1. DOMAIN ranking = 1..n /\ \A i \in 1..n : ranking[i].score \in Int
    BY ListFacts
  <2>2. intents = [i \in 1..n |-> PredictionToIntent(ranking[i], known)]
    BY <1>3, <2>1 DEF PredictedIntents
  <2> HIDE DEF n
  <2>3. ASSUME NEW i \in 1..n PROVE Single(intents[i], known)
    <3> DEFINE app == ranking[i].app
               x == Clamp(ranking[i].score, PolicyConfidenceFloor, 99)
               d == intents[i]
               a == Action("PreWarmProcess", <<"pkg", app>>, "Immediate")
               b == Heartbeat("Immediate")
    <3>1. x >= ConfidenceFloor
      <4>1. ranking[i].score \in Int
        BY <2>1
      <4>2. QED  BY <4>1 DEF Clamp, PolicyConfidenceFloor, ConfidenceFloor
    <3>2. d = IF app \in known THEN Intent("SwitchToApp", app, x, <<a>>)
              ELSE Intent("OpenApp", app, x, <<b>>)
      BY <2>2 DEF PredictionToIntent
    <3> HIDE DEF x, d
    <3>3. /\ a.urgency # "Deferred" /\ a.type \in ActionTypes
          /\ a.target[1] \notin {"none", "empty"} /\ (app \in known => TargetAllowed(a, known))
      BY DEF Action, TargetAllowed, InContext, ActionTypes
    <3>4. /\ b.urgency # "Deferred" /\ b.type \in ActionTypes /\ b.type = "KeepAlive"
          /\ TargetAllowed(b, known)
      BY DEF Heartbeat, Action, TargetAllowed, ActionTypes
    <3> HIDE DEF a, b, app
    <3>5. /\ d.risk = "Low" /\ d.confidence = x
          /\ d.actions = IF app \in known THEN <<a>> ELSE <<b>>
      BY <3>2 DEF Intent
    <3>6. CASE app \in known
      <4>1. Single(d, known)
        BY <1>1, <3>1, <3>3, <3>5, <3>6
      <4>2. QED  BY <4>1 DEF d
    <3>7. CASE app \notin known
      <4>1. Single(d, known)
        BY <1>1, <3>1, <3>4, <3>5, <3>7
      <4>2. QED  BY <4>1 DEF d
    <3>8. QED  BY <3>6, <3>7
  <2>4. DOMAIN intents = 1..n
    BY <2>2
  <2>5. QED  BY <2>3, <2>4
<1>4. QED  BY <1>2, <1>3

\* "Map a scored prediction to a policy-safe intent": under a policy that lets
\* an action through and blocks no type, every action the predictor suggests is
\* approved for the window it was asked about, whatever the artifact.
THEOREM PredictionsAreApproved ==
    ASSUME MaxActions > 0, Blocked = {}
    PROVE  Spec => []PredictionsApproved
<1>1. ServeInv => PredictionsApproved
  <2> SUFFICES ASSUME ServeInv, NEW s \in served, NEW coord \in CoordsOf(s.intents)
               PROVE  Settle(s.input.context, "LocalEvaluator", s.intents, coord) = "Approved"
    BY DEF PredictionsApproved
  <2>1. phase = "served"
    BY DEF ServeInv
  <2>2. PICK a \in artifact : Answers(s, a) /\ Loads(a)
    BY <2>1 DEF ServeInv
  <2>3. Usable(a) /\ MaxIntents \in Nat \ {0}
    BY <2>2, LoadedIsUsable, PredictiveAssumption
  <2> DEFINE f == FeaturesFromModelInput(s.input)
             known == KnownTargets(s.input.context)
             r == s.ranking
             intents == s.intents
  <2>4. r = RankApps(a, f, MaxIntents) /\ intents = PredictedIntents(r, known)
    BY <2>2 DEF Answers
  <2> HIDE DEF f, r
  <2>5. ListOf(r, ToSet(a.vocab))
    BY <2>3, <2>4, RankedApps
  <2>6. \A i \in DOMAIN intents : Single(intents[i], known)
    BY <2>4, <2>5, PredictedAreSingle
  <2>7. PICK i \in DOMAIN intents : \E n \in DOMAIN intents[i].actions : coord = <<i, n>>
    BY DEF CoordsOf
  <2>8. PICK n \in DOMAIN intents[i].actions : coord = <<i, n>>
    BY <2>7
  <2>9. QED  BY <2>6, <2>8, SingleIsApproved
<1>2. QED  BY <1>1, ServeInit, ServeStep, PTL DEF Spec

-----------------------------------------------------------------------------
(***************************************************************************)
(* fit_rrf_combiner.                                                       *)
(***************************************************************************)

Weights == [1..9 -> Nat]
Ascents == [weights : Weights, best : Nat, component : Nat, sweep : Nat, improved : BOOLEAN]

LEMMA HitsAreNatural ==
    ASSUME NEW cache, IsFiniteSet(DOMAIN cache), NEW weights
    PROVE  WeightedHits(cache, weights) \in Nat
<1> DEFINE hit == {i \in DOMAIN cache :
                    LET fused == Fused(cache[i].rankings, weights)
                    IN  DOMAIN fused # {} /\ Head(Ranking(fused)).app = cache[i].label}
<1>1. hit \in SUBSET DOMAIN cache
  OBVIOUS
<1>2. WeightedHits(cache, weights) = Cardinality(hit)
  BY DEF WeightedHits
<1> HIDE DEF hit
<1>3. IsFiniteSet(hit)
  BY <1>1, FS_Subset
<1>4. QED  BY <1>2, <1>3, FS_CardinalityType

\* What the ascent holds of one component: the hits of the weights with this
\* weight in it, no fewer than it began with.
Holds(st, c) ==
    /\ st.best = WeightedHits(cached, [ascent.weights EXCEPT ![c] = st.weight])
    /\ st.best >= ascent.best
Tries(c) == {st \in [best : Nat, weight : Nat, improved : BOOLEAN] : Holds(st, c)}

LEMMA TryHolds ==
    ASSUME IsFiniteSet(DOMAIN cached), ascent \in Ascents, NEW c \in 1..9, NEW w \in Nat,
           NEW st \in Tries(c)
    PROVE  Try(st, c, w) \in Tries(c)
<1> DEFINE hits == WeightedHits(cached, [ascent.weights EXCEPT ![c] = w])
           new == [best |-> hits, weight |-> w, improved |-> TRUE]
<1>1. Try(st, c, w) = IF w # ascent.weights[c] /\ hits > st.best THEN new ELSE st
  BY DEF Try
<1>2. hits \in Nat
  BY HitsAreNatural
<1>3. st.best \in Nat /\ st.best >= ascent.best /\ ascent.best \in Nat
  BY DEF Tries, Holds, Ascents
<1>4. new.best = hits /\ new.weight = w
  OBVIOUS
<1>5. ASSUME hits > st.best PROVE new \in Tries(c)
  <2>1. new \in [best : Nat, weight : Nat, improved : BOOLEAN]
    <3> HIDE DEF hits
    <3>1. QED  BY <1>2
  <2>2. hits >= ascent.best
    <3> HIDE DEF hits
    <3>1. QED  BY <1>2, <1>3, <1>5
  <2> HIDE DEF new
  <2>3. Holds(new, c)
    BY <1>4, <2>2 DEF Holds
  <2>4. QED  BY <2>1, <2>3 DEF Tries
<1> HIDE DEF hits, new
<1>6. QED  BY <1>1, <1>5

\* After the grid, the component has one of the weights that were counted.
LEMMA AscendHolds ==
    ASSUME IsFiniteSet(DOMAIN cached), ascent \in Ascents, NEW c \in 1..9,
           ascent.best = WeightedHits(cached, ascent.weights)
    PROVE  \E st \in Tries(c) :
               AscendComponent(c) = [ascent EXCEPT !.weights[c] = st.weight, !.best = st.best,
                                         !.improved = st.improved, !.component = c + 1]
<1> DEFINE m == Len(WeightGrid)
           X == Tries(c)
           start == [best |-> ascent.best, weight |-> ascent.weights[c],
                     improved |-> ascent.improved]
           step(f) == [n \in 0..m |-> IF n = 0 THEN start ELSE Try(f[n - 1], c, WeightGrid[n])]
           tried == CHOOSE f : f = step(f)
           F == [n \in 1..m |-> [st \in X |-> Try(st, c, WeightGrid[n])]]
<1>1. m \in Nat /\ \A n \in 1..m : WeightGrid[n] \in Nat
  BY PredictiveAssumption, LenProperties, ElementOfSeq
<1>2. AscendComponent(c) = [ascent EXCEPT !.weights[c] = tried[m].weight, !.best = tried[m].best,
                                !.improved = tried[m].improved, !.component = c + 1]
  BY DEF AscendComponent
<1>3. start \in X
  <2>1. ascent.weights \in [1..9 -> Nat] /\ ascent.best \in Nat /\ ascent.improved \in BOOLEAN
    BY DEF Ascents, Weights
  <2>2. [ascent.weights EXCEPT ![c] = ascent.weights[c]] = ascent.weights
    BY <2>1
  <2>3. start \in [best : Nat, weight : Nat, improved : BOOLEAN]
    BY <2>1
  <2>4. start.best = ascent.best /\ start.weight = ascent.weights[c]
    OBVIOUS
  <2> HIDE DEF start
  <2>5. Holds(start, c)
    BY <2>1, <2>2, <2>4 DEF Holds
  <2>6. QED  BY <2>3, <2>5 DEF Tries
<1> HIDE DEF m, start
<1>4. \A n \in 1..m : \A st \in X : Try(st, c, WeightGrid[n]) \in X
  BY <1>1, TryHolds
<1> HIDE DEF X
<1>5. F \in [1..m -> [X -> X]]
  BY <1>4
<1>6. PICK f \in [0..m -> X] : Solves(f, m, start, F)
  <2> HIDE DEF F
  <2>1. QED  BY <1>1, <1>3, <1>5, RecursionExists
<1>7. f = step(f)
  <2>1. \A n \in 1..m : f[n] = Try(f[n - 1], c, WeightGrid[n])
    <3>1. \A n \in 1..m : n - 1 \in 0..m
      BY <1>1
    <3>2. \A n \in 1..m : f[n - 1] \in X
      BY <3>1
    <3>3. QED  BY <1>6, <3>2 DEF Solves
  <2>2. \A n \in 0..m : f[n] = IF n = 0 THEN start ELSE Try(f[n - 1], c, WeightGrid[n])
    BY <1>1, <1>6, <2>1 DEF Solves
  <2>3. QED  BY <2>2
<1>8. tried = step(tried)
  <2> HIDE DEF step
  <2>1. QED  BY <1>7, Zenon
<1> HIDE DEF tried
<1>9. \A n \in 0..m : tried[n] = IF n = 0 THEN start ELSE Try(tried[n - 1], c, WeightGrid[n])
  BY <1>8
<1> DEFINE T == {n \in 0..m : tried[n] \in X}
<1>10. 0 \in T
  BY <1>1, <1>3, <1>9
<1>11. \A n \in 1..m : n - 1 \in T => n \in T
  <2>1. \A n \in 1..m : n \in 0..m /\ n # 0
    BY <1>1
  <2>2. \A n \in 1..m : tried[n] = Try(tried[n - 1], c, WeightGrid[n])
    BY <1>9, <2>1
  <2>3. QED  BY <1>4, <2>1, <2>2
<1>12. m \in T
  <2> HIDE DEF T
  <2>1. 0..m \subseteq T
    BY <1>1, <1>10, <1>11, UpTo
  <2>2. QED  BY <1>1, <2>1
<1>13. tried[m] \in X
  BY <1>12
<1>14. QED  BY <1>2, <1>13 DEF X

\* The examples are bounded, the cache is finite, and the books are kept.
AscentInv ==
    /\ examples \in Seq(Examples) /\ Len(examples) <= MaxExamples
    /\ phase \in {"ascend", "rerank"} =>
           /\ IsFiniteSet(DOMAIN cached)
           /\ ascent \in Ascents /\ ascent.component >= 1
           /\ ascent.best = WeightedHits(cached, ascent.weights)
           /\ ascent.best >= WeightedHits(cached, InitialWeights)

LEMMA InitialTyped == InitialWeights \in Weights
BY DEF InitialWeights, Weights

LEMMA CacheIsFinite ==
    ASSUME NEW V, NEW validation \in Seq(V), NEW a
    PROVE  IsFiniteSet(DOMAIN CacheExamples(a, validation))
<1> DEFINE rankings(e) == ComponentRankings(a, FeaturesOf(e))
           rows(e) == CandidateRows(rankings(e), {e.current})
           I == {i \in DOMAIN validation : LET e == validation[i] IN
                    e.label # e.current /\ e.label \in DOMAIN rows(e)}
           usable == Kept(validation, I)
<1>1. DOMAIN CacheExamples(a, validation) = DOMAIN usable
  BY DEF CacheExamples
<1> HIDE DEF I
<1>2. usable \in Seq(V)
  BY KeptShape
<1>3. DOMAIN usable = 1..Len(usable) /\ Len(usable) \in Nat
  BY <1>2, LenProperties
<1>4. IsFiniteSet(1..Len(usable))
  BY <1>3, FS_Interval
<1>5. QED  BY <1>1, <1>3, <1>4

LEMMA AscentInit == Init => AscentInv
<1> SUFFICES ASSUME Init PROVE AscentInv
  OBVIOUS
<1>1. examples = <<>> /\ phase = "collect"
  BY DEF Init
<1>2. <<>> \in Seq(Examples) /\ Len(<<>>) = 0 /\ 0 <= MaxExamples
  BY EmptySeq, PredictiveAssumption
<1>3. QED  BY <1>1, <1>2 DEF AscentInv

LEMMA AscentStep == AscentInv /\ [Next]_vars => AscentInv'
<1> SUFFICES ASSUME AscentInv, [Next]_vars PROVE AscentInv'
  OBVIOUS
<1>0. examples \in Seq(Examples) /\ Len(examples) <= MaxExamples
  BY DEF AscentInv
<1>1. ASSUME UNCHANGED examples, phase' \notin {"ascend", "rerank"} PROVE AscentInv'
  BY <1>0, <1>1 DEF AscentInv
<1>2. CASE AddExample
  <2>1. PICK e \in Examples : examples' = Append(examples, e)
    BY <1>2 DEF AddExample
  <2>2. Len(examples) < MaxExamples /\ phase' = "collect"
    BY <1>2 DEF AddExample
  <2>3. examples' \in Seq(Examples) /\ Len(examples') = Len(examples) + 1
    BY <1>0, <2>1, AppendProperties
  <2>4. Len(examples) \in Nat /\ MaxExamples \in Nat
    BY <1>0, LenProperties, PredictiveAssumption
  <2>5. Len(examples') <= MaxExamples
    BY <2>2, <2>3, <2>4
  <2>6. QED  BY <2>2, <2>3, <2>5 DEF AscentInv
<1>3. CASE Train
  <2> DEFINE held == {i \in DOMAIN examples : IsValidation(i)}
             fit == Kept(examples, DOMAIN examples \ held)
             validation == Kept(examples, held)
             cache == IF fit = <<>> \/ ~ValidArtifact(TrainBaseArtifact(fit)) THEN <<>>
                      ELSE CacheExamples(TrainBaseArtifact(fit), validation)
  <2>1. /\ UNCHANGED examples /\ cached' = cache
        /\ phase' = IF cache = <<>> THEN "trained" ELSE "ascend"
        /\ ascent' = IF cache = <<>> THEN NoAscent
                     ELSE [NoAscent EXCEPT !.weights = InitialWeights,
                                           !.best = WeightedHits(cache, InitialWeights)]
    BY <1>3 DEF Train
  <2>2. validation \in Seq(Examples)
    <3> HIDE DEF held
    <3>1. QED  BY <1>0, KeptShape
  <2>3. IsFiniteSet(DOMAIN CacheExamples(TrainBaseArtifact(fit), validation))
    <3> HIDE DEF fit, validation
    <3>1. QED  BY <2>2, CacheIsFinite
  <2>4. cache # <<>> => cache = CacheExamples(TrainBaseArtifact(fit), validation)
    OBVIOUS
  <2> HIDE DEF cache
  <2>5. CASE cache = <<>>
    BY <1>1, <2>1, <2>5
  <2>6. CASE cache # <<>>
    <3> DEFINE h == WeightedHits(cache, InitialWeights)
    <3>1. IsFiniteSet(DOMAIN cache)
      BY <2>3, <2>4, <2>6
    <3>2. h \in Nat
      BY <3>1, HitsAreNatural
    <3>3. ascent' = [NoAscent EXCEPT !.weights = InitialWeights, !.best = h]
      BY <2>1, <2>6
    <3>4. phase' = "ascend" /\ cached' = cache /\ examples' = examples
      BY <2>1, <2>6
    <3> HIDE DEF h
    <3>5. /\ ascent' \in Ascents /\ ascent'.component = 1
          /\ ascent'.weights = InitialWeights /\ ascent'.best = h
      BY <3>2, <3>3, InitialTyped DEF NoAscent, Ascents
    <3>6. h >= h
      BY <3>2
    <3>7. (ascent.best = WeightedHits(cached, ascent.weights))'
          /\ (ascent.best >= WeightedHits(cached, InitialWeights))'
      BY <3>4, <3>5, <3>6 DEF h
    <3>8. IsFiniteSet(DOMAIN cached')
      BY <3>1, <3>4
    <3>9. ascent'.component >= 1
      BY <3>5
    <3>10. QED  BY <1>0, <3>4, <3>5, <3>7, <3>8, <3>9 DEF AscentInv
  <2>7. QED  BY <2>5, <2>6
<1>4. ASSUME phase = "ascend"
      PROVE  /\ IsFiniteSet(DOMAIN cached)
             /\ ascent \in Ascents /\ ascent.component >= 1
             /\ ascent.best = WeightedHits(cached, ascent.weights)
             /\ ascent.best >= WeightedHits(cached, InitialWeights)
  BY <1>4 DEF AscentInv
<1>5. CASE Ascend
  <2> DEFINE c == ascent.component
  <2>1. /\ phase = "ascend" /\ c <= 9 /\ ascent' = AscendComponent(c)
        /\ UNCHANGED <<phase, examples, cached>>
    BY <1>5 DEF Ascend, Components
  <2>2. c \in 1..9
    <3>1. c \in Nat /\ c >= 1
      BY <1>4, <2>1 DEF Ascents
    <3>2. QED  BY <2>1, <3>1
  <2> HIDE DEF c
  <2>3. PICK st \in Tries(c) :
            ascent' = [ascent EXCEPT !.weights[c] = st.weight, !.best = st.best,
                                     !.improved = st.improved, !.component = c + 1]
    BY <1>4, <2>1, <2>2, AscendHolds
  <2>4. /\ st \in [best : Nat, weight : Nat, improved : BOOLEAN]
        /\ st.best = WeightedHits(cached, [ascent.weights EXCEPT ![c] = st.weight])
        /\ st.best >= ascent.best
    BY DEF Tries, Holds
  <2>5. ascent \in [weights : [1..9 -> Nat], best : Nat, component : Nat, sweep : Nat,
                    improved : BOOLEAN]
    BY <1>4, <2>1 DEF Ascents, Weights
  <2>6. st.best \in Nat /\ st.weight \in Nat /\ st.improved \in BOOLEAN /\ c + 1 \in Nat
        /\ c + 1 >= 1
    BY <2>2, <2>4
  <2>7. /\ ascent'.weights = [ascent.weights EXCEPT ![c] = st.weight]
        /\ ascent'.best = st.best /\ ascent'.component = c + 1
    BY <2>3, <2>5
  <2>8. [ascent.weights EXCEPT ![c] = st.weight] \in [1..9 -> Nat]
    BY <2>2, <2>5, <2>6
  <2>9. ascent' \in Ascents
    BY <2>3, <2>5, <2>6, <2>8 DEF Ascents, Weights
  <2>10. phase' = "ascend" /\ cached' = cached /\ examples' = examples
    BY <2>1
  <2>11. ascent'.best = WeightedHits(cached', ascent'.weights)
    BY <2>4, <2>7, <2>10
  <2>12. ascent'.best >= WeightedHits(cached', InitialWeights)
    <3>1. WeightedHits(cached, InitialWeights) \in Nat /\ ascent.best \in Nat
      BY <1>4, <2>1, <2>5, HitsAreNatural
    <3>2. ascent.best >= WeightedHits(cached, InitialWeights)
      BY <1>4, <2>1
    <3>3. st.best >= WeightedHits(cached, InitialWeights)
      BY <2>4, <2>6, <3>1, <3>2
    <3>4. QED  BY <2>7, <2>10, <3>3
  <2>13. IsFiniteSet(DOMAIN cached') /\ ascent'.component >= 1
    BY <1>4, <2>1, <2>6, <2>7, <2>10
  <2>14. QED  BY <1>0, <2>9, <2>10, <2>11, <2>12, <2>13 DEF AscentInv
<1>6. CASE NextSweep
  <2>1. /\ phase = "ascend" /\ UNCHANGED <<phase, examples, cached>>
        /\ ascent' = [ascent EXCEPT !.component = 1, !.sweep = @ + 1, !.improved = FALSE]
    BY <1>6 DEF NextSweep
  <2>2. ascent \in [weights : Weights, best : Nat, component : Nat, sweep : Nat,
                    improved : BOOLEAN]
    BY <1>4, <2>1 DEF Ascents
  <2>3. /\ ascent' \in Ascents /\ ascent'.weights = ascent.weights
        /\ ascent'.best = ascent.best /\ ascent'.component >= 1
    <3> DEFINE next == ascent.sweep + 1
    <3>1. next \in Nat
      BY <2>2
    <3>2. ascent' = [ascent EXCEPT !.component = 1, !.sweep = next, !.improved = FALSE]
      BY <2>1
    <3> HIDE DEF next
    <3>3. /\ ascent'.weights = ascent.weights /\ ascent'.best = ascent.best
          /\ ascent'.component = 1
      BY <2>2, <3>2
    <3>4. ascent' \in Ascents
      BY <2>2, <3>1, <3>2 DEF Ascents
    <3>5. QED  BY <3>3, <3>4
  <2>4. phase' = "ascend" /\ cached' = cached /\ examples' = examples
    BY <2>1
  <2>5. QED  BY <1>0, <1>4, <2>1, <2>3, <2>4 DEF AscentInv
<1>7. CASE FinishAscent
  <2>1. phase = "ascend" /\ phase' = "rerank" /\ UNCHANGED <<examples, cached, ascent>>
    BY <1>7 DEF FinishAscent
  <2>2. QED  BY <1>0, <1>4, <2>1 DEF AscentInv
<1>8. CASE FitReranker
  BY <1>1, <1>8 DEF FitReranker
<1>9. CASE Load
  BY <1>1, <1>9 DEF Load
<1>10. CASE Serve
  BY <1>1, <1>10 DEF Serve
<1>11. CASE UNCHANGED vars
  <2>1. UNCHANGED <<phase, examples, cached, ascent>>
    BY <1>11 DEF vars
  <2>2. QED  BY <2>1 DEF AscentInv
<1>12. QED
  BY <1>2, <1>3, <1>5, <1>6, <1>7, <1>8, <1>9, <1>10, <1>11 DEF Next

\* Whatever the grid, the number of sweeps and the examples: after every
\* component the hit rate fit_rrf_combiner compares candidates with is that of
\* the weights it holds, and the weights it ends with are no worse than those it
\* started with.
THEOREM AscentIsConsistent == Spec => []AscentConsistent
<1>1. AscentInv => AscentConsistent
  BY DEF AscentInv, AscentConsistent
<1>2. QED  BY <1>1, AscentInit, AscentStep, PTL DEF Spec

-----------------------------------------------------------------------------
(***************************************************************************)
(* train_base_artifact.                                                    *)
(***************************************************************************)

\* A number of training examples that are of some use.
Trainable(ex) == ex \in Seq(Examples) /\ ex # <<>> /\ Len(ex) <= MaxExamples

LEMMA TrainableFacts ==
    ASSUME NEW ex, Trainable(ex)
    PROVE  /\ Len(ex) \in Nat \ {0} /\ MaxExamples \in Nat /\ DOMAIN ex = 1..Len(ex)
           /\ \A i \in 1..Len(ex) : ex[i].current \in Names /\ ex[i].label \in Names
<1>1. ex \in Seq(Examples) /\ ex # <<>>
  BY DEF Trainable
<1>2. Len(ex) \in Nat \ {0} /\ DOMAIN ex = 1..Len(ex) /\ \A i \in 1..Len(ex) : ex[i] \in Examples
  BY <1>1, LenProperties, EmptySeq, ElementOfSeq
<1>3. \A e \in Examples : e.current \in Names /\ e.label \in Names
  BY PredictiveAssumption
<1>4. MaxExamples \in Nat
  BY PredictiveAssumption
<1>5. QED  BY <1>2, <1>3, <1>4

LEMMA CountBounded ==
    ASSUME NEW n \in Nat, NEW T \in SUBSET (1..n)
    PROVE  IsFiniteSet(T) /\ Cardinality(T) \in Nat /\ Cardinality(T) <= n
<1> DEFINE I == 1..n
<1>1. IsFiniteSet(I) /\ Cardinality(I) = n
  BY FS_Interval
<1>2. T \in SUBSET I
  OBVIOUS
<1> HIDE DEF I
<1>3. IsFiniteSet(T) /\ Cardinality(T) <= Cardinality(I)
  BY <1>1, <1>2, FS_Subset
<1>4. QED  BY <1>1, <1>3, FS_CardinalityType

LEMMA LogIsInt ==
    ASSUME NEW n \in Nat \ {0}, n <= 3 * MaxExamples
    PROVE  Ln(n) \in Int
<1>1. Logs \in Seq(Int) /\ Len(Logs) >= 3 * MaxExamples /\ MaxExamples \in Nat
  BY PredictiveAssumption
<1>2. Len(Logs) \in Nat
  BY <1>1, LenProperties
<1>3. n \in 1..Len(Logs)
  BY <1>1, <1>2
<1>4. QED  BY <1>1, <1>3, ElementOfSeq DEF Ln

\* The vocabulary: the apps of the examples, each once, at most two each.
LEMMA VocabFacts ==
    ASSUME NEW ex, Trainable(ex)
    PROVE  LET vocab == VocabOf(ex) IN
           /\ vocab \in Seq(Names) /\ vocab # <<>> /\ IsInjective(vocab)
           /\ \A i \in 1..Len(ex) : ex[i].current \in ToSet(vocab) /\ ex[i].label \in ToSet(vocab)
           /\ Len(vocab) <= 2 * Len(ex)
<1> DEFINE n == Len(ex)
           m == Len(NameOrder)
           I == {k \in DOMAIN NameOrder : \E i \in DOMAIN ex :
                    NameOrder[k] \in {ex[i].current, ex[i].label}}
           vocab == VocabOf(ex)
           A == ToSet(vocab)
           len == Len(vocab)
<1>1. /\ n \in Nat \ {0} /\ DOMAIN ex = 1..n
      /\ \A i \in 1..n : ex[i].current \in Names /\ ex[i].label \in Names
  BY TrainableFacts
<1>2. NameOrder \in Seq(Names) /\ IsInjective(NameOrder)
  BY PredictiveAssumption
<1>3. vocab = Kept(NameOrder, I)
  BY DEF VocabOf
<1> HIDE DEF n
<1>4. DOMAIN NameOrder = 1..m /\ m \in Nat
  BY <1>2, LenProperties
<1>5. \A k \in 1..m : k \in I <=>
            \E i \in 1..n : NameOrder[k] = ex[i].current \/ NameOrder[k] = ex[i].label
  BY <1>1, <1>4
<1> HIDE DEF I, vocab
<1>6. vocab \in Seq(Names) /\ \E e : KeptBy(vocab, NameOrder, m, I, e)
  BY <1>2, <1>3, KeptShape
<1>7. PICK e : KeptBy(vocab, NameOrder, m, I, e)
  BY <1>6
<1>8. len \in Nat /\ DOMAIN vocab = 1..len
  BY <1>6, LenProperties
<1> HIDE DEF len, m
<1>9. /\ \A i \in 1..len : e[i] \in 1..m /\ e[i] \in I /\ vocab[i] = NameOrder[e[i]]
      /\ \A i, j \in 1..len : i < j => e[i] < e[j]
      /\ \A x \in 1..m : x \in I => \E i \in 1..len : e[i] = x
  BY <1>7 DEF KeptBy, len
<1>10. IsInjective(vocab)
  <2>1. ASSUME NEW i \in 1..len, NEW j \in 1..len, vocab[i] = vocab[j] PROVE i = j
    <3>1. e[i] \in DOMAIN NameOrder /\ e[j] \in DOMAIN NameOrder
          /\ NameOrder[e[i]] = NameOrder[e[j]]
      BY <1>4, <1>9, <2>1
    <3>2. e[i] = e[j] /\ e[i] \in Int
      BY <1>2, <1>4, <1>9, <3>1 DEF IsInjective
    <3>3. ~(i < j) /\ ~(j < i)
      BY <1>9, <3>2
    <3>4. QED  BY <1>8, <3>3
  <2>2. QED  BY <1>8, <2>1 DEF IsInjective
<1>11. A = {vocab[i] : i \in 1..len}
  BY <1>8 DEF ToSet
<1>12. ASSUME NEW x \in Names, \E i \in 1..n : x = ex[i].current \/ x = ex[i].label
       PROVE  x \in A
  <2>1. PICK k \in 1..m : NameOrder[k] = x
    BY <1>4 DEF Names, ToSet
  <2>2. k \in I
    BY <1>5, <1>12, <2>1
  <2>3. PICK i \in 1..len : e[i] = k
    BY <1>9, <2>2
  <2>4. QED  BY <1>9, <1>11, <2>1, <2>3
<1>13. \A i \in 1..n : ex[i].current \in A /\ ex[i].label \in A
  BY <1>1, <1>12
<1>14. vocab # <<>>
  <2>1. 1 \in 1..n
    BY <1>1
  <2>2. PICK i \in 1..len : vocab[i] = ex[1].current
    BY <1>11, <1>13, <2>1
  <2>3. len # 0
    BY <1>8
  <2>4. QED  BY <2>3 DEF len
<1>15. Len(vocab) <= 2 * n
  <2> DEFINE D == 1..(2 * n)
             g == [i \in D |-> IF i <= n THEN ex[i].current ELSE ex[i - n].label]
  <2>1. \A i \in D : (i <= n => i \in 1..n) /\ (~(i <= n) => i - n \in 1..n)
    BY <1>1
  <2>2. \A i \in 1..n : i \in D /\ i <= n /\ i + n \in D /\ ~(i + n <= n) /\ (i + n) - n = i
    BY <1>1
  <2>3. g \in [D -> A]
    BY <1>13, <2>1
  <2>4. \A i \in 1..n : g[i] = ex[i].current /\ g[i + n] = ex[i].label
    <3>1. \A i \in D : g[i] = IF i <= n THEN ex[i].current ELSE ex[i - n].label
      OBVIOUS
    <3> HIDE DEF g
    <3>2. QED  BY <2>2, <3>1
  <2> HIDE DEF g
  <2>5. \A x \in A : \E i \in D : g[i] = x
    <3> SUFFICES ASSUME NEW x \in A PROVE \E i \in D : g[i] = x
      OBVIOUS
    <3>1. PICK k \in 1..len : vocab[k] = x
      BY <1>11
    <3>2. PICK i \in 1..n : x = ex[i].current \/ x = ex[i].label
      BY <1>5, <1>9, <3>1
    <3>3. QED  BY <2>2, <2>4, <3>2
  <2>6. g \in Surjection(D, A)
    <3> HIDE DEF D, A
    <3>1. QED  BY <2>3, <2>5 DEF Surjection
  <2>7. IsFiniteSet(D) /\ Cardinality(D) = 2 * n
    <3>1. 1 \in Int /\ 2 * n \in Int /\ (2 * n) - 1 + 1 = 2 * n /\ ~(1 > 2 * n)
      BY <1>1
    <3>2. QED  BY <3>1, FS_Interval
  <2> HIDE DEF D
  <2>8. Cardinality(A) <= Cardinality(D)
    <3> HIDE DEF A
    <3>1. QED  BY <2>6, <2>7, FS_Surjection
  <2>9. Cardinality(A) = Len(vocab)
    BY <1>6, <1>10, SizeOfInjective
  <2>10. QED  BY <2>7, <2>8, <2>9
<1>16. QED  BY <1>6, <1>10, <1>13, <1>14, <1>15 DEF n, vocab

\* A list of apps of the vocabulary passes validation.
LEMMA ListIsValid ==
    ASSUME NEW vocab \in Seq(Names), NEW l \in Lists(ToSet(vocab))
    PROVE  /\ l \in ScoreLists /\ ValidScoreList(l, vocab, FALSE)
           /\ Len(l) = Len(vocab) => ValidScoreList(l, vocab, TRUE)
<1> DEFINE A == ToSet(vocab)
<1>1. A \in SUBSET Names
  BY SeqImage
<1>2. ListOf(l, A)
  BY ListsOf
<1> HIDE DEF A
<1>3. ListOf(l, Names)
  BY <1>1, <1>2, WiderList
<1>4. l \in ScoreLists /\ IsInjective(AppsOf(l))
  BY <1>3 DEF ListOf, ScoreLists
<1>5. ToSet(AppsOf(l)) \subseteq A
  BY <1>2, ListFacts
<1>6. QED  BY <1>4, <1>5 DEF ValidScoreList, A

\* transition_scores, of examples whose labels are in A and that are counted
\* under at most two keys each.
LEMMA TransitionLists ==
    ASSUME NEW A \in SUBSET Names, IsFiniteSet(A), NEW n \in Nat, NEW ex,
           DOMAIN ex = 1..n, \A i \in 1..n : ex[i].label \in A,
           NEW keys, DOMAIN keys = 1..n, \A i \in 1..n : DOMAIN keys[i] \subseteq {1, 2}
    PROVE  LET table == TransitionScores(ex, keys) IN
           /\ DOMAIN table = UNION {ToSet(keys[i]) : i \in 1..n}
           /\ \A key \in DOMAIN table : table[key] \in Lists(A)
<1> DEFINE K == UNION {ToSet(keys[i]) : i \in 1..n}
           U(key) == Under(keys, key)
           B(key) == {ex[p[1]].label : p \in U(key)}
           with(key, app) == {p \in U(key) : ex[p[1]].label = app}
           share(key, app) == (100 * Cardinality(with(key, app))) \div Cardinality(U(key))
           shares(key) == [app \in B(key) |-> share(key, app)]
           table == TransitionScores(ex, keys)
<1>1. table = [key \in K |-> Ranking(shares(key))]
  BY DEF TransitionScores
<1>2. ASSUME NEW key \in K
      PROVE  /\ IsFiniteSet(U(key)) /\ U(key) # {}
             /\ \A p \in U(key) : p[1] \in 1..n
  <2> DEFINE D == 1..n
             E == {1, 2}
             P == D \X E
  <2>1. \A p : p \in U(key) <=> \E i \in D : \E k \in DOMAIN keys[i] :
                                    p = <<i, k>> /\ keys[i][k] = key
    <3>1. U(key) = {p \in UNION {{<<i, k>> : k \in DOMAIN keys[i]} : i \in D} :
                        keys[p[1]][p[2]] = key}
      BY DEF Under
    <3>2. QED  BY <3>1
  <2>2. U(key) \in SUBSET P /\ \A p \in U(key) : p[1] \in D
    <3> HIDE DEF U
    <3>1. QED  BY <2>1
  <2>3. U(key) # {}
    <3>1. PICK i \in D : key \in ToSet(keys[i])
      BY <1>2
    <3>2. PICK k \in DOMAIN keys[i] : keys[i][k] = key
      BY <3>1 DEF ToSet
    <3> HIDE DEF U
    <3>3. <<i, k>> \in U(key)
      BY <2>1, <3>2
    <3>4. QED  BY <3>3
  <2>4. IsFiniteSet(D) /\ IsFiniteSet(E)
    <3>1. IsFiniteSet(D)
      BY FS_Interval
    <3>2. E = 1..2
      OBVIOUS
    <3>3. IsFiniteSet(E)
      <4>1. 1 \in Int /\ 2 \in Int
        OBVIOUS
      <4>2. IsFiniteSet(1..2)
        BY <4>1, FS_Interval
      <4>3. QED  BY <3>2, <4>2
    <3>4. QED  BY <3>1, <3>3
  <2>5. IsFiniteSet(P)
    <3> HIDE DEF D, E
    <3>1. QED  BY <2>4, FS_Product
  <2>6. IsFiniteSet(U(key))
    <3> HIDE DEF P, U
    <3>1. QED  BY <2>2, <2>5, FS_Subset
  <2>7. QED  BY <2>2, <2>3, <2>6
<1>3. \A key, app : with(key, app) \in SUBSET U(key)
  OBVIOUS
<1> HIDE DEF U, K, with
<1>4. ASSUME NEW key \in K PROVE Ranking(shares(key)) \in Lists(A)
  <2>1. Cardinality(U(key)) \in Nat \ {0}
    BY <1>2, FS_CardinalityType, FS_EmptySet
  <2>2. \A app : share(key, app) \in Int
    <3> SUFFICES ASSUME NEW app PROVE share(key, app) \in Int
      OBVIOUS
    <3>1. Cardinality(with(key, app)) \in Nat
      BY <1>2, <1>3, FS_Subset, FS_CardinalityType
    <3>2. QED  BY <2>1, <3>1
  <2>3. B(key) \in SUBSET A
    BY <1>2
  <2> HIDE DEF share, B
  <2>4. shares(key) \in [B(key) -> Int]
    BY <2>2
  <2>5. Scores(shares(key), A)
    <3> HIDE DEF shares
    <3>1. QED  BY <2>3, <2>4 DEF Scores
  <2> HIDE DEF shares
  <2>6. ListOf(Ranking(shares(key)), A)
    BY <2>5, RankedWithin
  <2>7. QED  BY <2>6, ListsOf
<1> HIDE DEF shares
<1>5. QED  BY <1>1, <1>4 DEF K

\* user_recency: an example answers for each key.
LEMMA RecencyFacts ==
    ASSUME NEW A, NEW n \in Nat, NEW ex, DOMAIN ex = 1..n,
           \A i \in 1..n : ex[i].current \in A /\ ex[i].label \in A
    PROVE  \A key \in DOMAIN RecencyOf(ex) : key[2] \in A /\ RecencyOf(ex)[key] \in A
<1> DEFINE from(i) == <<ex[i].user, ex[i].current>>
           is(i, key) == from(i) = key /\ \A j \in 1..n : from(j) = key => j <= i
           last(key) == CHOOSE i \in 1..n : is(i, key)
           K == {from(i) : i \in 1..n}
<1>1. RecencyOf(ex) = [key \in K |-> ex[last(key)].label]
  BY DEF RecencyOf
<1>2. \A key \in K : key[2] \in A
  OBVIOUS
<1>3. ASSUME NEW key \in K PROVE last(key) \in 1..n
  <2> DEFINE s == [i \in 1..n |-> IF from(i) = key THEN i ELSE 0]
  <2>1. PICK k \in 1..n : from(k) = key
    BY <1>3
  <2> HIDE DEF from
  <2>2. s \in [1..n -> Int] /\ n \in Nat \ {0} /\ \A i \in 1..n : s[i] = IF from(i) = key THEN i ELSE 0
    OBVIOUS
  <2> HIDE DEF s
  <2>3. Max(ToSet(s)) \in ToSet(s) /\ \A c \in 1..n : Max(ToSet(s)) >= s[c]
    BY <2>2, GreatestOf
  <2>4. PICK i \in 1..n : s[i] = Max(ToSet(s))
    <3>1. DOMAIN s = 1..n
      BY <2>2
    <3>2. QED  BY <2>3, <3>1 DEF ToSet
  <2>5. \A c \in 1..n : s[i] >= s[c]
    BY <2>3, <2>4
  <2>6. s[i] >= k /\ k >= 1
    BY <2>1, <2>2, <2>5
  <2>7. from(i) = key /\ s[i] = i
    BY <2>2, <2>6
  <2>8. \A j \in 1..n : from(j) = key => j <= i
    BY <2>2, <2>5, <2>7
  <2>9. is(i, key)
    BY <2>7, <2>8
  <2> HIDE DEF is
  <2>10. \E j \in 1..n : is(j, key)
    BY <2>9
  <2>11. QED  BY <2>10, Zenon
<1> HIDE DEF last, K
<1>4. \A key \in K : ex[last(key)].label \in A
  BY <1>3
<1>5. QED  BY <1>1, <1>2, <1>4

Fields == {"vocab", "popularity", "priors", "unknown", "likelihoods", "base", "trees",
           "global", "user", "order2", "context", "frequency", "recency", "combiner",
           "reranker"}

\* What train_base_artifact returns is an artifact the daemon loads.
LEMMA TrainedIsValid ==
    ASSUME NEW ex, Trainable(ex)
    PROVE  Loads(TrainBaseArtifact(ex)) /\ DOMAIN TrainBaseArtifact(ex) = Fields
<1> DEFINE vocab == VocabOf(ex)
           total == Len(ex)
           len == Len(vocab)
           A == ToSet(vocab)
           class(app) == CHOOSE c \in DOMAIN vocab : vocab[c] = app
           has(i, key) == key \in FeatureKeys(FeaturesOf(ex[i]))
           count(c) == Cardinality({i \in DOMAIN ex : ex[i].label = vocab[c]})
           with(key, c) == Cardinality({i \in DOMAIN ex : ex[i].label = vocab[c] /\ has(i, key)})
           frequency(key) == Cardinality({i \in DOMAIN ex : has(i, key)})
           keys == UNION {FeatureKeys(FeaturesOf(ex[i])) : i \in DOMAIN ex}
           priors == [c \in DOMAIN vocab |-> Ln(count(c) + 1) - Ln(total + Len(vocab))]
           lift(key) == [app \in ToSet(vocab) |->
                           Ln(with(key, class(app)) + 1) - Ln(frequency(key) + Len(vocab))
                           - priors[class(app)]]
           kept == IF Cardinality(keys) <= MaxFeatures THEN keys
                   ELSE CHOOSE K \in kSubset(MaxFeatures, keys) :
                           \A k \in K, l \in keys \ K : frequency(k) >= frequency(l)
           shares == [app \in ToSet(vocab) |->
                        (100 * (count(class(app)) + 1)) \div (total + Len(vocab))]
           popularity == Ranking(shares)
           unknown == [c \in DOMAIN vocab |-> -Ln(count(c) + 2)]
           likelihoods == [key \in keys |-> [c \in DOMAIN vocab |->
                                Ln(with(key, c) + 1) - Ln(count(c) + 2)]]
           trees == [key \in kept |-> Ranking(lift(key))]
           gk == [i \in DOMAIN ex |-> <<ex[i].current>>]
           uk == [i \in DOMAIN ex |-> <<<<ex[i].user, ex[i].current>>>>]
           ok == [i \in DOMAIN ex |->
                    AsSeq({<<p, ex[i].current>> : p \in PreviousApp(ex[i].history, ex[i].current)})]
           ck == [i \in DOMAIN ex |->
                    <<<<ex[i].current, ex[i].hour>>, <<ex[i].current, ex[i].weekday>>>>]
           fk == [i \in DOMAIN ex |-> <<ex[i].user>>]
           global == TransitionScores(ex, gk)
           user == TransitionScores(ex, uk)
           order2 == TransitionScores(ex, ok)
           context == TransitionScores(ex, ck)
           freq == TransitionScores(ex, fk)
           recency == RecencyOf(ex)
           a == TrainBaseArtifact(ex)
<1>1. a = [vocab |-> vocab, popularity |-> popularity, priors |-> priors, unknown |-> unknown,
           likelihoods |-> likelihoods, base |-> priors, trees |-> trees, global |-> global,
           user |-> user, order2 |-> order2, context |-> context, frequency |-> freq,
           recency |-> recency, combiner |-> NoCombiner, reranker |-> NoReranker]
  BY Zenon DEF TrainBaseArtifact
<1> HIDE DEF vocab, popularity, priors, unknown, likelihoods, trees, global, user, order2,
             context, freq, recency, a, A
<1>2. /\ a.vocab = vocab /\ a.popularity = popularity /\ a.priors = priors
      /\ a.unknown = unknown /\ a.likelihoods = likelihoods /\ a.base = priors
      /\ a.trees = trees /\ a.global = global /\ a.user = user /\ a.order2 = order2
      /\ a.context = context /\ a.frequency = freq /\ a.recency = recency
      /\ a.combiner = NoCombiner /\ a.reranker = NoReranker
  BY <1>1
<1>3. DOMAIN a = Fields
  BY <1>1 DEF Fields
<1>4. /\ vocab \in Seq(Names) /\ vocab # <<>> /\ IsInjective(vocab)
      /\ \A i \in 1..total : ex[i].current \in A /\ ex[i].label \in A
      /\ len <= 2 * total
  BY VocabFacts DEF vocab, A
<1>5. /\ total \in Nat \ {0} /\ MaxExamples \in Nat /\ DOMAIN ex = 1..total
      /\ total <= MaxExamples
  BY TrainableFacts DEF Trainable
<1>6. len \in Nat \ {0} /\ DOMAIN vocab = 1..len
  BY <1>4, LenProperties, EmptySeq
<1>7. A \in SUBSET Names /\ IsFiniteSet(A) /\ Cardinality(A) = len
  BY <1>4, SeqImage, SizeOfInjective DEF A
<1>8. \A app \in A : class(app) \in 1..len
  BY <1>4, PlaceOf DEF A
<1> HIDE DEF total, len, class, has
<1>9. ASSUME NEW T \in SUBSET DOMAIN ex
      PROVE  Cardinality(T) \in Nat /\ Cardinality(T) <= total
  <2>1. T \in SUBSET (1..total) /\ total \in Nat
    BY <1>5
  <2>2. QED  BY <2>1, CountBounded
<1>10. /\ \A c : count(c) \in Nat /\ count(c) <= total
       /\ \A key, c : with(key, c) \in Nat /\ with(key, c) <= total
       /\ \A key : frequency(key) \in Nat /\ frequency(key) <= total
  <2>1. /\ \A c : {i \in DOMAIN ex : ex[i].label = vocab[c]} \in SUBSET DOMAIN ex
        /\ \A key, c : {i \in DOMAIN ex : ex[i].label = vocab[c] /\ has(i, key)}
                          \in SUBSET DOMAIN ex
        /\ \A key : {i \in DOMAIN ex : has(i, key)} \in SUBSET DOMAIN ex
    OBVIOUS
  <2>2. QED  BY <1>9, <2>1
<1> HIDE DEF count, with, frequency
<1>11. \A x \in Nat : x <= total => Ln(x + 1) \in Int /\ Ln(x + 2) \in Int /\ Ln(x + len) \in Int
  <2>1. \A y \in Nat \ {0} : y <= 3 * MaxExamples => Ln(y) \in Int
    BY LogIsInt
  <2>2. \A x \in Nat : x <= total =>
            /\ x + 1 \in Nat \ {0} /\ x + 1 <= 3 * MaxExamples
            /\ x + 2 \in Nat \ {0} /\ x + 2 <= 3 * MaxExamples
            /\ x + len \in Nat \ {0} /\ x + len <= 3 * MaxExamples
    BY <1>4, <1>5, <1>6
  <2>3. QED  BY <2>1, <2>2
<1>12. Ln(total + len) \in Int
  BY <1>5, <1>11
<1>13. /\ \A c : Ln(count(c) + 1) \in Int /\ Ln(count(c) + 2) \in Int
       /\ \A key, c : Ln(with(key, c) + 1) \in Int
       /\ \A key : Ln(frequency(key) + len) \in Int
  BY <1>10, <1>11
<1>14. \A s \in [1..len -> Int] : s \in Seq(Int) /\ Len(s) = len
  BY <1>6, FunctionIsSeq
<1>15. priors \in [1..len -> Int] /\ unknown \in [1..len -> Int]
  <2>1. priors = [c \in 1..len |-> Ln(count(c) + 1) - Ln(total + len)]
    BY <1>6 DEF priors, len
  <2>2. unknown = [c \in 1..len |-> -Ln(count(c) + 2)]
    BY <1>6 DEF unknown
  <2>3. \A c : Ln(count(c) + 1) - Ln(total + len) \in Int /\ -Ln(count(c) + 2) \in Int
    BY <1>12, <1>13
  <2>4. QED  BY <2>1, <2>2, <2>3
<1>16. \A key \in DOMAIN likelihoods : likelihoods[key] \in [1..len -> Int]
  <2> DEFINE row(key) == [c \in 1..len |-> Ln(with(key, c) + 1) - Ln(count(c) + 2)]
  <2>1. likelihoods = [key \in keys |-> row(key)]
    BY <1>6 DEF likelihoods
  <2>2. \A key, c : Ln(with(key, c) + 1) - Ln(count(c) + 2) \in Int
    BY <1>13
  <2>3. \A key : row(key) \in [1..len -> Int]
    BY <2>2
  <2> HIDE DEF row, keys
  <2>4. QED  BY <2>1, <2>3
\* A ranking of the whole vocabulary.
<1>17. ASSUME NEW score \in [A -> Int]
       PROVE  Ranking(score) \in ScoreLists /\ ValidScoreList(Ranking(score), vocab, TRUE)
  <2>1. ListOf(Ranking(score), A) /\ Len(Ranking(score)) = len
    BY <1>7, RankingShape
  <2>2. Ranking(score) \in Lists(ToSet(vocab))
    BY <2>1, ListsOf DEF A
  <2>3. QED  BY <1>4, <2>1, <2>2, ListIsValid DEF len
<1>18. popularity \in ScoreLists /\ ValidScoreList(popularity, vocab, TRUE)
  <2> DEFINE share(app) == (100 * (count(class(app)) + 1)) \div (total + len)
  <2>1. \A app : share(app) \in Int
    <3>1. total + len \in Nat \ {0}
      BY <1>5, <1>6
    <3> DEFINE d == total + len
    <3> HIDE DEF d
    <3>2. \A app : (100 * (count(class(app)) + 1)) \div d \in Int
      <4>1. \A app : 100 * (count(class(app)) + 1) \in Int
        BY <1>10
      <4>2. d \in Int /\ d > 0
        BY <3>1 DEF d
      <4>3. QED  BY <4>1, <4>2
    <3>3. QED  BY <3>2 DEF d
  <2> HIDE DEF share
  <2>2. shares = [app \in A |-> share(app)]
    BY DEF share, A, len
  <2>3. shares \in [A -> Int]
    BY <2>1, <2>2
  <2> HIDE DEF shares
  <2>4. QED  BY <1>17, <2>3 DEF popularity
<1>19. ASSUME NEW key \in DOMAIN trees
       PROVE  trees[key] \in ScoreLists /\ ValidScoreList(trees[key], vocab, TRUE)
  <2> DEFINE x(app) == Ln(with(key, class(app)) + 1) - Ln(frequency(key) + len)
                       - priors[class(app)]
  <2>1. \A app \in A : x(app) \in Int
    <3>1. \A app \in A : priors[class(app)] \in Int
      BY <1>8, <1>15
    <3>2. QED  BY <1>13, <3>1
  <2> HIDE DEF x
  <2>2. lift(key) = [app \in A |-> x(app)]
    BY DEF x, A, len
  <2>3. lift(key) \in [A -> Int]
    BY <2>1, <2>2
  <2>4. trees[key] = Ranking(lift(key))
    <3> HIDE DEF lift, kept
    <3>1. QED  BY <1>19 DEF trees
  <2> HIDE DEF lift
  <2>5. QED  BY <1>17, <2>3, <2>4
\* The tables of transitions.
<1>20. ASSUME NEW by, DOMAIN by = 1..total, \A i \in 1..total : DOMAIN by[i] \subseteq {1, 2}
       PROVE  LET table == TransitionScores(ex, by) IN
              /\ DOMAIN table = UNION {ToSet(by[i]) : i \in 1..total}
              /\ \A key \in DOMAIN table :
                    table[key] \in ScoreLists /\ ValidScoreList(table[key], vocab, FALSE)
  <2> DEFINE table == TransitionScores(ex, by)
  <2>1. /\ DOMAIN table = UNION {ToSet(by[i]) : i \in 1..total}
        /\ \A key \in DOMAIN table : table[key] \in Lists(A)
    <3>1. total \in Nat /\ DOMAIN ex = 1..total /\ \A i \in 1..total : ex[i].label \in A
      BY <1>4, <1>5
    <3>2. QED  BY <1>7, <1>20, <3>1, TransitionLists
  <2>2. \A l \in Lists(A) : l \in ScoreLists /\ ValidScoreList(l, vocab, FALSE)
    BY <1>4, ListIsValid DEF A
  <2> HIDE DEF table
  <2>3. \A key \in DOMAIN table :
            table[key] \in ScoreLists /\ ValidScoreList(table[key], vocab, FALSE)
    BY <2>1, <2>2
  <2>4. QED  BY <2>1, <2>3 DEF table
<1> DEFINE sound(table) == \A key \in DOMAIN table :
                table[key] \in ScoreLists /\ ValidScoreList(table[key], vocab, FALSE)
<1>21. sound(global) /\ DOMAIN global \subseteq A
  <2>1. DOMAIN gk = 1..total /\ \A i \in 1..total : gk[i] = <<ex[i].current>>
    BY <1>5
  <2>2. \A i \in 1..total : DOMAIN gk[i] \subseteq {1, 2} /\ ToSet(gk[i]) = {ex[i].current}
    BY <2>1 DEF ToSet
  <2> HIDE DEF gk
  <2>3. sound(global) /\ DOMAIN global = UNION {ToSet(gk[i]) : i \in 1..total}
    BY <1>20, <2>1, <2>2 DEF global
  <2> HIDE DEF sound
  <2>4. QED  BY <1>4, <2>2, <2>3
<1>22. sound(user) /\ \A key \in DOMAIN user : key[2] \in A
  <2>1. DOMAIN uk = 1..total /\ \A i \in 1..total : uk[i] = <<<<ex[i].user, ex[i].current>>>>
    BY <1>5
  <2>2. \A i \in 1..total : /\ DOMAIN uk[i] \subseteq {1, 2}
                            /\ ToSet(uk[i]) = {<<ex[i].user, ex[i].current>>}
    BY <2>1 DEF ToSet
  <2> HIDE DEF uk
  <2>3. sound(user) /\ DOMAIN user = UNION {ToSet(uk[i]) : i \in 1..total}
    BY <1>20, <2>1, <2>2 DEF user
  <2> HIDE DEF sound
  <2>4. \A key \in DOMAIN user : \E i \in 1..total : key = <<ex[i].user, ex[i].current>>
    BY <2>2, <2>3
  <2>5. QED  BY <1>4, <2>3, <2>4
<1>23. sound(order2) /\ \A key \in DOMAIN order2 : key[2] \in A
  <2> DEFINE G(i) == {<<p, ex[i].current>> : p \in PreviousApp(ex[i].history, ex[i].current)}
  <2>1. DOMAIN ok = 1..total /\ \A i \in 1..total : ok[i] = AsSeq(G(i))
    BY <1>5
  <2>2. \A i : \A key \in G(i) : key[2] = ex[i].current
    OBVIOUS
  <2> HIDE DEF G, ok
  <2>3. ASSUME NEW i \in 1..total
        PROVE  DOMAIN ok[i] \subseteq {1, 2} /\ ToSet(ok[i]) \subseteq G(i)
    <3>1. CASE G(i) = {}
      <4>1. ok[i] = <<>>
        BY <2>1, <3>1 DEF AsSeq
      <4>2. DOMAIN <<>> = {}
        OBVIOUS
      <4>3. QED  BY <4>1, <4>2 DEF ToSet
    <3>2. CASE G(i) # {}
      <4>1. \E x \in G(i) : TRUE
        BY <3>2
      <4>2. Some(G(i)) \in G(i)
        BY <4>1, Zenon DEF Some
      <4>3. ok[i] = <<Some(G(i))>>
        BY <2>1, <3>2 DEF AsSeq
      <4>4. DOMAIN <<Some(G(i))>> = {1} /\ <<Some(G(i))>>[1] = Some(G(i))
        OBVIOUS
      <4>5. QED  BY <4>2, <4>3, <4>4 DEF ToSet
    <3>3. QED  BY <3>1, <3>2
  <2>4. sound(order2) /\ DOMAIN order2 = UNION {ToSet(ok[i]) : i \in 1..total}
    BY <1>20, <2>1, <2>3 DEF order2
  <2> HIDE DEF sound
  <2>5. \A key \in DOMAIN order2 : \E i \in 1..total : key \in G(i)
    BY <2>3, <2>4
  <2>6. QED  BY <1>4, <2>2, <2>4, <2>5
<1>24. sound(context)
  <2>1. DOMAIN ck = 1..total /\ \A i \in 1..total :
            ck[i] = <<<<ex[i].current, ex[i].hour>>, <<ex[i].current, ex[i].weekday>>>>
    BY <1>5
  <2>2. \A i \in 1..total : DOMAIN ck[i] \subseteq {1, 2}
    BY <2>1
  <2> HIDE DEF ck
  <2>3. QED  BY <1>20, <2>1, <2>2 DEF context
<1>25. sound(freq)
  <2>1. DOMAIN fk = 1..total /\ \A i \in 1..total : fk[i] = <<ex[i].user>>
    BY <1>5
  <2>2. \A i \in 1..total : DOMAIN fk[i] \subseteq {1, 2}
    BY <2>1
  <2> HIDE DEF fk
  <2>3. QED  BY <1>20, <2>1, <2>2 DEF freq
<1>26. \A key \in DOMAIN recency : key[2] \in A /\ recency[key] \in A
  <2>1. total \in Nat /\ DOMAIN ex = 1..total
    BY <1>5
  <2>2. QED  BY <1>4, <2>1, RecencyFacts DEF recency
<1>27. /\ NoCombiner.components = <<>> /\ NoCombiner.weights = <<>> /\ NoReranker.weights = <<>>
       /\ <<>> \in Seq(Int) /\ <<>> \in Seq(ToSet(<<>>))
  BY EmptySeq DEF NoCombiner, NoReranker
<1>28. /\ priors \in Seq(Int) /\ Len(priors) = len /\ unknown \in Seq(Int) /\ Len(unknown) = len
       /\ \A key \in DOMAIN likelihoods : likelihoods[key] \in Seq(Int)
                                          /\ Len(likelihoods[key]) = len
  BY <1>14, <1>15, <1>16
<1>29. IsArtifact(a)
  BY <1>2, <1>4, <1>18, <1>19, <1>21, <1>22, <1>23, <1>24, <1>25, <1>27, <1>28 DEF IsArtifact
<1>30. ValidCombiner(a.combiner) /\ ValidReranker(a.reranker)
  BY <1>2 DEF ValidCombiner, ValidReranker
<1>31. {Len(a.priors), Len(a.unknown), Len(a.base)} = {Len(a.vocab)}
  BY <1>2, <1>28 DEF len
<1>32. ValidArtifact(a)
  <2>1. /\ a.vocab # <<>> /\ IsInjective(a.vocab)
        /\ \A key \in DOMAIN a.likelihoods : Len(a.likelihoods[key]) = Len(a.vocab)
        /\ ValidScoreList(a.popularity, a.vocab, TRUE)
        /\ \A key \in DOMAIN a.trees : ValidScoreList(a.trees[key], a.vocab, TRUE)
    BY <1>2, <1>4, <1>18, <1>19, <1>28 DEF len
  <2>2. /\ \A key \in DOMAIN a.global : ValidScoreList(a.global[key], a.vocab, FALSE)
        /\ \A key \in DOMAIN a.user : ValidScoreList(a.user[key], a.vocab, FALSE)
        /\ \A key \in DOMAIN a.order2 : ValidScoreList(a.order2[key], a.vocab, FALSE)
        /\ \A key \in DOMAIN a.context : ValidScoreList(a.context[key], a.vocab, FALSE)
        /\ \A key \in DOMAIN a.frequency : ValidScoreList(a.frequency[key], a.vocab, FALSE)
    BY <1>2, <1>21, <1>22, <1>23, <1>24, <1>25
  <2>3. /\ DOMAIN a.global \subseteq ToSet(a.vocab)
        /\ \A key \in DOMAIN a.user : key[2] \in ToSet(a.vocab)
        /\ \A key \in DOMAIN a.order2 : key[2] \in ToSet(a.vocab)
        /\ \A key \in DOMAIN a.recency : {key[2], a.recency[key]} \subseteq ToSet(a.vocab)
    BY <1>2, <1>21, <1>22, <1>23, <1>26 DEF A
  <2>4. QED  BY <1>30, <1>31, <2>1, <2>2, <2>3 DEF ValidArtifact
<1>33. QED  BY <1>3, <1>29, <1>32 DEF Loads, a

\* Neither the combiner nor the reranker of the fit spoils the artifact.
LEMMA WithCombiner ==
    ASSUME NEW a, Loads(a), DOMAIN a = Fields, NEW weights \in Weights
    PROVE  LET b == [a EXCEPT !.combiner = [components |-> Components, weights |-> weights]]
           IN  Loads(b) /\ DOMAIN b = Fields
<1> DEFINE c == [components |-> Components, weights |-> weights]
           b == [a EXCEPT !.combiner = c]
<1>1. c.components = Components /\ c.weights = weights
  OBVIOUS
<1>2. Components \in Seq(ToSet(Components)) /\ Len(Components) = 9 /\ Components # <<>>
  <2>1. Components \in [1..9 -> ToSet(Components)]
    BY DEF Components, ToSet
  <2>2. QED  BY <2>1 DEF Components
<1>3. IsInjective(Components)
  BY DEF IsInjective, Components
<1>4. weights \in Seq(Int) /\ Len(weights) = 9 /\ \A w \in ToSet(weights) : w >= 0
  <2>1. weights \in [1..9 -> Int] /\ 9 \in Nat /\ DOMAIN weights = 1..9
    BY DEF Weights
  <2>2. weights \in Seq(Int) /\ Len(weights) = 9
    BY <2>1, FunctionIsSeq
  <2>3. \A i \in 1..9 : weights[i] >= 0
    BY DEF Weights
  <2>4. QED  BY <2>1, <2>2, <2>3 DEF ToSet
<1> HIDE DEF c
<1>5. ValidCombiner(c)
  BY <1>1, <1>2, <1>3, <1>4 DEF ValidCombiner
<1>6. DOMAIN b = Fields
  OBVIOUS
<1>7. /\ b.combiner = c /\ b.vocab = a.vocab /\ b.popularity = a.popularity
      /\ b.priors = a.priors /\ b.unknown = a.unknown /\ b.likelihoods = a.likelihoods
      /\ b.base = a.base /\ b.trees = a.trees /\ b.global = a.global /\ b.user = a.user
      /\ b.order2 = a.order2 /\ b.context = a.context /\ b.frequency = a.frequency
      /\ b.recency = a.recency /\ b.reranker = a.reranker
  BY DEF Fields
<1> HIDE DEF b
<1>8. IsArtifact(a) /\ ValidArtifact(a)
  BY DEF Loads
<1>9. IsArtifact(b)
  BY <1>1, <1>2, <1>4, <1>7, <1>8 DEF IsArtifact
<1>10. ValidArtifact(b)
  BY <1>5, <1>7, <1>8 DEF ValidArtifact
<1>11. QED  BY <1>6, <1>9, <1>10 DEF Loads, b, c

LEMMA WithReranker ==
    ASSUME NEW a, Loads(a), DOMAIN a = Fields, NEW w \in Descents
    PROVE  LET b == [a EXCEPT !.reranker = [features |-> RerankerFeatures, weights |-> w]]
           IN  Loads(b) /\ DOMAIN b = Fields
<1> DEFINE c == [features |-> RerankerFeatures, weights |-> w]
           b == [a EXCEPT !.reranker = c]
<1>1. c.features = RerankerFeatures /\ c.weights = w
  OBVIOUS
<1>2. w \in Seq(Int) /\ Len(w) = Len(RerankerFeatures)
  BY PredictiveAssumption
<1> HIDE DEF c
<1>3. ValidReranker(c)
  BY <1>1, <1>2 DEF ValidReranker
<1>4. DOMAIN b = Fields
  OBVIOUS
<1>5. /\ b.reranker = c /\ b.vocab = a.vocab /\ b.popularity = a.popularity
      /\ b.priors = a.priors /\ b.unknown = a.unknown /\ b.likelihoods = a.likelihoods
      /\ b.base = a.base /\ b.trees = a.trees /\ b.global = a.global /\ b.user = a.user
      /\ b.order2 = a.order2 /\ b.context = a.context /\ b.frequency = a.frequency
      /\ b.recency = a.recency /\ b.combiner = a.combiner
  BY DEF Fields
<1> HIDE DEF b
<1>6. IsArtifact(a) /\ ValidArtifact(a)
  BY DEF Loads
<1>7. IsArtifact(b)
  BY <1>1, <1>2, <1>5, <1>6 DEF IsArtifact
<1>8. ValidArtifact(b)
  BY <1>3, <1>5, <1>6 DEF ValidArtifact
<1>9. QED  BY <1>4, <1>7, <1>8 DEF Loads, b, c

\* What is trained loads at every stage of the fit.
TrainInv ==
    /\ AscentInv
    /\ phase \in {"ascend", "rerank", "trained"} =>
           \A a \in artifact : Loads(a) /\ DOMAIN a = Fields

LEMMA TrainStep == TrainInv /\ [Next]_vars => TrainInv'
<1> SUFFICES ASSUME TrainInv, [Next]_vars PROVE TrainInv'
  OBVIOUS
<1>0. AscentInv /\ AscentInv'
  BY AscentStep DEF TrainInv
<1> DEFINE good(S) == \A a \in S : Loads(a) /\ DOMAIN a = Fields
<1>1. ASSUME phase' \in {"ascend", "rerank", "trained"} => good(artifact') PROVE TrainInv'
  BY <1>0, <1>1 DEF TrainInv
<1>2. phase \in {"ascend", "rerank", "trained"} => good(artifact)
  BY DEF TrainInv
<1> HIDE DEF good
<1>3. CASE AddExample
  BY <1>1, <1>3 DEF AddExample
<1>4. CASE Train
  <2>1. artifact' = {TrainBaseArtifact(examples)} /\ examples # <<>>
    BY <1>4 DEF Train
  <2>2. Trainable(examples)
    BY <1>0, <2>1 DEF AscentInv, Trainable
  <2>3. Loads(TrainBaseArtifact(examples)) /\ DOMAIN TrainBaseArtifact(examples) = Fields
    BY <2>2, TrainedIsValid
  <2>4. good(artifact')
    BY <2>1, <2>3 DEF good
  <2>5. QED  BY <1>1, <2>4
<1>5. CASE Ascend
  BY <1>1, <1>2, <1>5 DEF Ascend
<1>6. CASE NextSweep
  BY <1>1, <1>2, <1>6 DEF NextSweep
<1>7. CASE FinishAscent
  <2> DEFINE with(a) == [a EXCEPT !.combiner = [components |-> Components,
                                                weights |-> ascent.weights]]
  <2>1. phase = "ascend" /\ artifact' = {with(a) : a \in artifact}
    BY <1>7 DEF FinishAscent
  <2>2. ascent.weights \in Weights
    BY <1>0, <2>1 DEF AscentInv, Ascents
  <2>3. \A a : Loads(a) /\ DOMAIN a = Fields => Loads(with(a)) /\ DOMAIN with(a) = Fields
    BY <2>2, WithCombiner
  <2> HIDE DEF with
  <2>4. good(artifact')
    BY <1>2, <2>1, <2>3 DEF good
  <2>5. QED  BY <1>1, <2>4
<1>8. CASE FitReranker
  <2> DEFINE with(a, w) == [a EXCEPT !.reranker = [features |-> RerankerFeatures,
                                                   weights |-> w]]
             kept(w) == /\ Half(1) # <<>>
                        /\ LogisticHits(Half(1), w) >= WeightedHits(Half(1), ascent.weights)
  <2>1. phase = "rerank"
    BY <1>8 DEF FitReranker
  <2>2. \/ artifact' = artifact
        \/ \E w \in Descents : artifact' = {IF kept(w) THEN with(a, w) ELSE a : a \in artifact}
    BY <1>8 DEF FitReranker
  <2>3. \A w \in Descents : \A a : Loads(a) /\ DOMAIN a = Fields =>
                                       Loads(with(a, w)) /\ DOMAIN with(a, w) = Fields
    BY WithReranker
  <2> HIDE DEF with, kept
  <2>4. CASE artifact' = artifact
    BY <1>1, <1>2, <2>1, <2>4
  <2>5. CASE \E w \in Descents : artifact' = {IF kept(w) THEN with(a, w) ELSE a : a \in artifact}
    <3>1. good(artifact')
      BY <1>2, <2>1, <2>3, <2>5 DEF good
    <3>2. QED  BY <1>1, <3>1
  <2>6. QED  BY <2>2, <2>4, <2>5
<1>9. CASE Load
  <2>1. phase' \in {"loaded", "heuristic"}
    BY <1>9 DEF Load
  <2>2. QED  BY <1>1, <2>1
<1>10. CASE Serve
  BY <1>1, <1>10 DEF Serve
<1>11. CASE UNCHANGED vars
  BY <1>1, <1>2, <1>11 DEF vars
<1>12. QED
  BY <1>3, <1>4, <1>5, <1>6, <1>7, <1>8, <1>9, <1>10, <1>11 DEF Next

\* Whatever the examples, the split, the weights the ascent ends with and those
\* the logistic fit ends with: the artifact train_next_app_artifact returns is
\* accepted by validate_artifact when the daemon loads it.
THEOREM TrainedIsLoadable == Spec => []TrainedLoads
<1>1. Init => TrainInv
  <2>1. Init => AscentInv /\ artifact = {}
    BY AscentInit DEF Init
  <2>2. QED  BY <2>1 DEF TrainInv
<1>2. TrainInv => TrainedLoads
  BY DEF TrainInv, TrainedLoads
<1>3. QED  BY <1>1, <1>2, TrainStep, PTL DEF Spec
=============================================================================
