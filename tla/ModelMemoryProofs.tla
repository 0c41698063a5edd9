-------------------------- MODULE ModelMemoryProofs --------------------------
(***************************************************************************)
(* Proofs about ModelMemory, for any number of windows, starts, crashes    *)
(* and changes of the configuration: a file that the process has loaded or *)
(* written never runs ahead of its memory or away from it, and what the    *)
(* memory says of its past - the counters, the scores, the fate of every   *)
(* pre-warm, the feedback and the profile - is what the windows it has     *)
(* observed make it.                                                       *)
(***************************************************************************)
EXTENDS ModelMemory, SequenceTheorems, FiniteSetTheorems, FunctionTheorems,
        WellFoundedInduction, TLAPS

-----------------------------------------------------------------------------
(***************************************************************************)
(* Natural numbers, recursion and finite sets.                             *)
(***************************************************************************)

\* A non-empty set of naturals has a least element.
LEMMA LeastNatural ==
    ASSUME NEW T \in SUBSET Nat, T # {}
    PROVE  \E x \in T : \A y \in T : x <= y
<1> DEFINE R == {ss \in Nat \X Nat : ss[1] < ss[2]}
<1>1. OpToRel(<, Nat) = R
  BY Zenon DEF OpToRel
<1>2. IsWellFoundedOn(R, Nat)
  BY <1>1, NatLessThanWellFounded, Zenon
<1>3. \A a, b \in Nat : a < b => <<a, b>> \in R
  OBVIOUS
<1> HIDE DEF R
<1>4. PICK x \in T : \A y \in T : ~(<<y, x>> \in R)
  BY <1>2, WFMin
<1>5. \A y \in T : ~(y < x)
  BY <1>3, <1>4
<1>6. \A y \in T : x <= y
  BY <1>5
<1>7. QED  BY <1>6

\* Induction along 0..m, with a set in place of the predicate.
LEMMA UpTo ==
    ASSUME NEW m \in Nat, NEW T, 0 \in T, \A n \in 1..m : n - 1 \in T => n \in T
    PROVE  0..m \subseteq T
<1> DEFINE B == (0..m) \ T
<1>1. SUFFICES ASSUME B # {} PROVE FALSE
  OBVIOUS
<1>2. B \in SUBSET Nat
  OBVIOUS
<1>3. PICK x \in B : \A y \in B : x <= y
  <2> HIDE DEF B
  <2>1. QED  BY <1>1, <1>2, LeastNatural
<1>4. x \in 1..m /\ x - 1 \in 0..m /\ ~(x <= x - 1)
  BY <1>3
<1>5. x - 1 \in T
  BY <1>3, <1>4
<1>6. QED  BY <1>3, <1>4, <1>5

Solves(f, k, b, F) == f[0] = b /\ \A n \in 1..k : f[n] = F[n][f[n - 1]]

\* A recursion whose steps stay within a set has a solution.
LEMMA RecursionExists ==
    ASSUME NEW m \in Nat, NEW X, NEW b \in X, NEW F \in [1..m -> [X -> X]]
    PROVE  \E f \in [0..m -> X] : Solves(f, m, b, F)
<1> USE DEF Solves
<1> DEFINE T == {k \in 0..m : \E f \in [0..m -> X] : Solves(f, k, b, F)}
<1>1. 0 \in T
  <2> DEFINE f == [n \in 0..m |-> b]
  <2>1. f \in [0..m -> X] /\ Solves(f, 0, b, F) /\ 0 \in 0..m
    OBVIOUS
  <2>2. QED  BY <2>1
<1>2. ASSUME NEW k \in 1..m, k - 1 \in T PROVE k \in T
  <2>1. PICK f \in [0..m -> X] : Solves(f, k - 1, b, F)
    BY <1>2
  <2> DEFINE x == F[k][f[k - 1]]
             g == [f EXCEPT ![k] = x]
  <2>2. k - 1 \in 0..m /\ k \in 0..m
    OBVIOUS
  <2>3. x \in X
    BY <2>2
  <2> HIDE DEF x
  <2>4. g \in [0..m -> X]
    BY <2>2, <2>3
  <2>5. \A n \in 0..m : g[n] = IF n = k THEN x ELSE f[n]
    OBVIOUS
  <2>6. ASSUME NEW n \in 1..k PROVE g[n] = F[n][g[n - 1]]
    <3>1. n \in 0..m /\ n - 1 \in 0..m /\ n - 1 # k
      OBVIOUS
    <3>2. g[n - 1] = f[n - 1] /\ g[n] = IF n = k THEN x ELSE f[n]
      BY <2>5, <3>1
    <3>3. CASE n = k
      BY <3>2, <3>3 DEF x
    <3>4. CASE n # k
      <4>1. n \in 1..(k - 1)
        BY <3>4
      <4>2. f[n] = F[n][f[n - 1]]
        BY <2>1, <4>1
      <4>3. QED  BY <3>2, <3>4, <4>2
    <3>5. QED  BY <3>3, <3>4
  <2>7. g[0] = b
    <3>1. 0 \in 0..m /\ 0 # k
      OBVIOUS
    <3>2. QED  BY <2>1, <2>5, <3>1
  <2>8. Solves(g, k, b, F)
    BY <2>6, <2>7
  <2>9. QED  BY <2>2, <2>4, <2>8
<1>3. m \in T
  <2>1. m \in 0..m
    OBVIOUS
  <2> HIDE DEF T
  <2>2. 0..m \subseteq T
    BY <1>1, <1>2, UpTo
  <2>3. QED  BY <2>1, <2>2
<1>4. QED  BY <1>3

\* A finite set has a finite image.
LEMMA ImageIsFinite ==
    ASSUME NEW S, IsFiniteSet(S), NEW f
    PROVE  IsFiniteSet({f[x] : x \in S})
<1> DEFINE T == {f[x] : x \in S}
           g == [x \in S |-> f[x]]
<1>1. g \in Surjection(S, T)
  BY DEF Surjection
<1> HIDE DEF g, T
<1>2. IsFiniteSet(T)
  BY <1>1, FS_Surjection
<1>3. QED  BY <1>2 DEF T

\* Two sets in a one-to-one relation have as many elements.
LEMMA SameNumber ==
    ASSUME NEW S, NEW T, IsFiniteSet(S), NEW f \in [S -> T],
           \A x, y \in S : f[x] = f[y] => x = y,
           \A t \in T : \E x \in S : f[x] = t
    PROVE  IsFiniteSet(T) /\ Cardinality(T) = Cardinality(S)
<1>1. f \in Bijection(S, T)
  BY DEF Bijection, Injection, Surjection, IsInjective
<1>2. ExistsBijection(S, T)
  BY <1>1 DEF ExistsBijection
<1>3. QED  BY <1>2, FS_Bijection

\* The number of elements of two sets that share none.
LEMMA DisjointUnion ==
    ASSUME NEW S, NEW T, IsFiniteSet(S), IsFiniteSet(T), \A x \in S : x \notin T
    PROVE  /\ IsFiniteSet(S \cup T)
           /\ Cardinality(S \cup T) = Cardinality(S) + Cardinality(T)
<1>1. S \cap T = {}
  OBVIOUS
<1>2. Cardinality(S) \in Nat /\ Cardinality(T) \in Nat
  BY FS_CardinalityType
<1>3. /\ IsFiniteSet(S \cup T)
      /\ Cardinality(S \cup T) = Cardinality(S) + Cardinality(T) - Cardinality(S \cap T)
  BY FS_Union
<1>4. Cardinality(S \cap T) = 0
  BY <1>1, FS_EmptySet
<1>5. QED  BY <1>2, <1>3, <1>4

-----------------------------------------------------------------------------
(***************************************************************************)
(* Histories.                                                              *)
(***************************************************************************)

Decays == 0..999
Positive == Nat \ {0}
Observations == [input : Inputs, decay : Decays, effect : Positive]
Histories == Seq(Observations)

\* A history with one more window.
LEMMA HistoryGrows ==
    ASSUME NEW h \in Histories, NEW x \in Observations
    PROVE  /\ Append(h, x) \in Histories /\ Len(h) \in Nat
           /\ Len(Append(h, x)) = Len(h) + 1
           /\ DOMAIN h = 1..Len(h) /\ DOMAIN Append(h, x) = 1..(Len(h) + 1)
           /\ \A j \in 1..Len(h) : Append(h, x)[j] = h[j] /\ h[j] \in Observations
           /\ Append(h, x)[Len(h) + 1] = x
  BY AppendProperties, LenProperties, ElementOfSeq DEF Histories

\* The windows of a history are as the summary gives them.
LEMMA InputFacts ==
    ASSUME NEW input \in Inputs
    PROVE  /\ input.foreground \subseteq Packages /\ input.notified \subseteq Packages
           /\ input.hints \subseteq Names /\ Packages \subseteq Names
           /\ input.actions \in Seq(AuditedActions)
           /\ Len(input.actions) \in Nat /\ DOMAIN input.actions = 1..Len(input.actions)
           /\ \A n \in DOMAIN input.actions : input.actions[n] \in AuditedActions
<1>1. /\ input.foreground \subseteq Packages /\ input.notified \subseteq Packages
      /\ input.hints \subseteq Names /\ Packages \subseteq Names
      /\ input.actions \in Seq(AuditedActions)
  BY MemoryAssumption
<1>2. QED  BY <1>1, LenProperties, ElementOfSeq

\* What one more window does to a pre-warm: Verdict, from the history.
LEMMA CameGrows ==
    ASSUME NEW h \in Histories, NEW x \in Observations, NEW i \in 1..Len(h), NEW p
    PROVE  Came(Append(h, x), i, p) =
               IF Came(h, i, p) # "open" THEN Came(h, i, p)
               ELSE IF p \in x.input.foreground THEN "hit"
               ELSE IF Len(h) + 1 - i >= x.effect THEN "miss"
               ELSE "open"
<1> DEFINE g == Append(h, x)
           n == Len(h)
           Up(f, j) == j - i >= f[j].effect
           Hit(f, m) == \E j \in (i + 1)..m :
                            p \in f[j].input.foreground /\ \A l \in (i + 1)..(j - 1) : ~Up(f, l)
           Late(f, m) == \E j \in (i + 1)..m : Up(f, j)
<1>1. /\ n \in Nat /\ Len(g) = n + 1 /\ g[n + 1] = x /\ i \in Nat /\ i >= 1
      /\ \A j \in 1..n : g[j] = h[j]
  BY HistoryGrows
<1>2. \A f : Came(f, i, p) = IF Hit(f, Len(f)) THEN "hit"
                            ELSE IF Late(f, Len(f)) THEN "miss" ELSE "open"
  BY DEF Came
<1> HIDE DEF g, n
<1>3. \A j \in (i + 1)..n : g[j] = h[j] /\ (Up(g, j) <=> Up(h, j))
  BY <1>1
<1>4. Late(g, n) <=> Late(h, n)
  BY <1>3
<1>5. Hit(g, n) <=> Hit(h, n)
  <2>1. \A j \in (i + 1)..n : \A l \in (i + 1)..(j - 1) : l \in (i + 1)..n
    BY <1>1
  <2>2. QED  BY <1>3, <2>1
<1>6. Late(g, n + 1) <=> Late(g, n) \/ n + 1 - i >= x.effect
  <2>1. \A j : j \in (i + 1)..(n + 1) <=> j \in (i + 1)..n \/ j = n + 1
    <3>1. i <= n
      BY DEF n
    <3>2. QED  BY <1>1, <3>1
  <2>2. Up(g, n + 1) <=> n + 1 - i >= x.effect
    BY <1>1
  <2> HIDE DEF Up
  <2>3. QED  BY <2>1, <2>2
<1>7. Hit(g, n + 1) <=> Hit(g, n) \/ (p \in x.input.foreground /\ ~Late(g, n))
  <2>1. \A j : j \in (i + 1)..(n + 1) <=> j \in (i + 1)..n \/ j = n + 1
    <3>1. i <= n
      BY DEF n
    <3>2. QED  BY <1>1, <3>1
  <2>2. (n + 1) - 1 = n
    BY <1>1
  <2> HIDE DEF Up
  <2>3. QED  BY <1>1, <2>1, <2>2
<1> HIDE DEF Hit, Late
<1>8. /\ Came(g, i, p) = IF Hit(g, n + 1) THEN "hit" ELSE IF Late(g, n + 1) THEN "miss" ELSE "open"
      /\ Came(h, i, p) = IF Hit(h, n) THEN "hit" ELSE IF Late(h, n) THEN "miss" ELSE "open"
  BY <1>1, <1>2 DEF n
<1>9. QED  BY <1>4, <1>5, <1>6, <1>7, <1>8 DEF g, n

\* A pre-warm of the last window is open.
LEMMA CameNow ==
    ASSUME NEW h \in Histories, NEW p
    PROVE  Came(h, Len(h), p) = "open"
<1>1. Len(h) \in Nat
  BY LenProperties DEF Histories
<1>2. (Len(h) + 1)..Len(h) = {}
  BY <1>1
<1>3. QED  BY <1>2 DEF Came

-----------------------------------------------------------------------------
(***************************************************************************)
(* The pre-warms of a history.                                             *)
(***************************************************************************)

PackageOf(h, w) == ActionOf(h, w).target[2]
OpenOf(h) == {w \in Prewarms(h) : Came(h, w[1], PackageOf(h, w)) = "open"}
With(h, p, v) == {w \in Prewarms(h) : PackageOf(h, w) = p /\ Came(h, w[1], p) = v}
NewPrewarms(h, x) ==
    {<<Len(h) + 1, k>> : k \in {k \in DOMAIN x.input.actions : Registered(x.input.actions[k])}}

\* The verdict of the next window on an open pre-warm.
Judgement(h, x, w) ==
    IF PackageOf(h, w) \in x.input.foreground THEN "hit"
    ELSE IF Len(h) + 1 - w[1] >= x.effect THEN "miss"
    ELSE "open"

\* The registered pre-warms, by window and action.
LEMMA PrewarmFacts ==
    ASSUME NEW h \in Histories
    PROVE  /\ \A w \in Prewarms(h) :
                /\ w = <<w[1], w[2]>> /\ w[1] \in 1..Len(h)
                /\ w[2] \in DOMAIN h[w[1]].input.actions
                /\ Registered(ActionOf(h, w))
           /\ \A i \in 1..Len(h) : \A k \in DOMAIN h[i].input.actions :
                Registered(h[i].input.actions[k]) => <<i, k>> \in Prewarms(h)
<1>1. DOMAIN h = 1..Len(h)
  BY LenProperties DEF Histories
<1>2. ASSUME NEW w \in Prewarms(h)
      PROVE  /\ w = <<w[1], w[2]>> /\ w[1] \in 1..Len(h)
             /\ w[2] \in DOMAIN h[w[1]].input.actions
             /\ Registered(ActionOf(h, w))
  <2>1. PICK i \in DOMAIN h : \E k \in {k \in DOMAIN h[i].input.actions :
                                Registered(ActionOf(h, <<i, k>>))} : w = <<i, k>>
    BY Zenon DEF Prewarms
  <2>2. PICK k \in DOMAIN h[i].input.actions :
            w = <<i, k>> /\ Registered(ActionOf(h, <<i, k>>))
    BY <2>1
  <2>3. w[1] = i /\ w[2] = k
    BY <2>2
  <2>4. QED  BY <1>1, <2>2, <2>3
<1>3. ASSUME NEW i \in 1..Len(h), NEW k \in DOMAIN h[i].input.actions,
             Registered(h[i].input.actions[k])
      PROVE  <<i, k>> \in Prewarms(h)
  <2>1. ActionOf(h, <<i, k>>) = h[i].input.actions[k]
    BY DEF ActionOf
  <2>2. k \in {n \in DOMAIN h[i].input.actions : Registered(ActionOf(h, <<i, n>>))}
    BY <1>3, <2>1
  <2>3. <<i, k>> \in {<<i, n>> : n \in {n \in DOMAIN h[i].input.actions :
                                            Registered(ActionOf(h, <<i, n>>))}}
    BY <2>2
  <2>4. QED  BY <1>1, <2>3, Zenon DEF Prewarms
<1>4. QED  BY <1>2, <1>3

\* One more window adds the pre-warms that register_pending_prewarm accepts.
LEMMA PrewarmsGrow ==
    ASSUME NEW h \in Histories, NEW x \in Observations
    PROVE  /\ Prewarms(Append(h, x)) = Prewarms(h) \cup NewPrewarms(h, x)
           /\ \A w \in Prewarms(h) :
                ActionOf(Append(h, x), w) = ActionOf(h, w) /\ w[1] \in 1..Len(h)
           /\ \A w \in NewPrewarms(h, x) :
                /\ ActionOf(Append(h, x), w) = x.input.actions[w[2]]
                /\ w = <<w[1], w[2]>> /\ w[1] = Len(h) + 1 /\ w[2] \in DOMAIN x.input.actions
                /\ Registered(x.input.actions[w[2]])
<1> DEFINE g == Append(h, x)
           n == Len(h)
<1>1. /\ g \in Histories /\ Len(g) = n + 1 /\ g[n + 1] = x /\ n \in Nat
      /\ \A j \in 1..n : g[j] = h[j]
  BY HistoryGrows
<1> HIDE DEF g
<1>2. ASSUME NEW w \in Prewarms(h)
      PROVE  ActionOf(g, w) = ActionOf(h, w) /\ w[1] \in 1..n /\ w \in Prewarms(g)
  <2>1. /\ w = <<w[1], w[2]>> /\ w[1] \in 1..n /\ w[2] \in DOMAIN h[w[1]].input.actions
        /\ Registered(ActionOf(h, w))
    BY PrewarmFacts
  <2>2. w[1] \in 1..Len(g) /\ g[w[1]] = h[w[1]]
    BY <1>1, <2>1
  <2>3. ActionOf(g, w) = ActionOf(h, w)
    BY <2>2 DEF ActionOf
  <2>4. Registered(g[w[1]].input.actions[w[2]]) /\ w[2] \in DOMAIN g[w[1]].input.actions
    BY <2>1, <2>2, <2>3 DEF ActionOf
  <2>5. <<w[1], w[2]>> \in Prewarms(g)
    BY <1>1, <2>2, <2>4, PrewarmFacts
  <2>6. QED  BY <2>1, <2>3, <2>5
<1>3. ASSUME NEW w \in NewPrewarms(h, x)
      PROVE  /\ ActionOf(g, w) = x.input.actions[w[2]]
             /\ w = <<w[1], w[2]>> /\ w[1] = n + 1 /\ w[2] \in DOMAIN x.input.actions
             /\ Registered(x.input.actions[w[2]])
             /\ w \in Prewarms(g)
  <2>1. PICK k \in DOMAIN x.input.actions : w = <<n + 1, k>> /\ Registered(x.input.actions[k])
    BY DEF NewPrewarms
  <2>2. w[1] = n + 1 /\ w[2] = k
    BY <2>1
  <2>3. ActionOf(g, w) = x.input.actions[k]
    BY <1>1, <2>2 DEF ActionOf
  <2>4. n + 1 \in 1..Len(g)
    BY <1>1
  <2>5. <<n + 1, k>> \in Prewarms(g)
    BY <1>1, <2>1, <2>4, PrewarmFacts
  <2>6. QED  BY <2>1, <2>2, <2>3, <2>5
<1>4. ASSUME NEW w \in Prewarms(g) PROVE w \in Prewarms(h) \cup NewPrewarms(h, x)
  <2>1. /\ w = <<w[1], w[2]>> /\ w[1] \in 1..(n + 1) /\ w[2] \in DOMAIN g[w[1]].input.actions
        /\ Registered(ActionOf(g, w))
    BY <1>1, PrewarmFacts
  <2>2. CASE w[1] \in 1..n
    <3>1. g[w[1]] = h[w[1]]
      BY <1>1, <2>2
    <3>2. Registered(h[w[1]].input.actions[w[2]]) /\ w[2] \in DOMAIN h[w[1]].input.actions
      BY <2>1, <3>1 DEF ActionOf
    <3>3. QED  BY <2>1, <2>2, <3>2, PrewarmFacts
  <2>3. CASE w[1] = n + 1
    <3>1. Registered(x.input.actions[w[2]]) /\ w[2] \in DOMAIN x.input.actions
      BY <1>1, <2>1, <2>3 DEF ActionOf
    <3>2. <<n + 1, w[2]>> \in NewPrewarms(h, x)
      BY <3>1 DEF NewPrewarms
    <3>3. QED  BY <2>1, <2>3, <3>2
  <2>4. QED  BY <1>1, <2>1, <2>2, <2>3
<1>5. Prewarms(g) = Prewarms(h) \cup NewPrewarms(h, x)
  BY <1>2, <1>3, <1>4
<1>6. QED  BY <1>2, <1>3, <1>5 DEF g

\* Every open pre-warm is settled by the next window or stays open; the others
\* stay what they are, and the new ones are open.
LEMMA VerdictsGrow ==
    ASSUME NEW h \in Histories, NEW x \in Observations
    PROVE  /\ \A p : \A v \in {"hit", "miss"} :
                With(Append(h, x), p, v) =
                    With(h, p, v) \cup {w \in OpenOf(h) : /\ PackageOf(h, w) = p
                                                         /\ Judgement(h, x, w) = v}
           /\ OpenOf(Append(h, x)) =
                {w \in OpenOf(h) : Judgement(h, x, w) = "open"} \cup NewPrewarms(h, x)
<1> DEFINE g == Append(h, x)
           n == Len(h)
<1>1. /\ Prewarms(g) = Prewarms(h) \cup NewPrewarms(h, x)
      /\ \A w \in Prewarms(h) : PackageOf(g, w) = PackageOf(h, w) /\ w[1] \in 1..n
      /\ \A w \in NewPrewarms(h, x) : w[1] = n + 1
  <2>1. /\ Prewarms(g) = Prewarms(h) \cup NewPrewarms(h, x)
        /\ \A w \in Prewarms(h) : ActionOf(g, w) = ActionOf(h, w) /\ w[1] \in 1..n
        /\ \A w \in NewPrewarms(h, x) : w[1] = n + 1
    BY PrewarmsGrow
  <2>2. QED  BY <2>1 DEF PackageOf
<1>2. \A w \in Prewarms(h) : Came(g, w[1], PackageOf(h, w)) =
            IF Came(h, w[1], PackageOf(h, w)) # "open" THEN Came(h, w[1], PackageOf(h, w))
            ELSE Judgement(h, x, w)
  BY <1>1, CameGrows DEF Judgement
<1>3. \A w \in NewPrewarms(h, x) : \A p : Came(g, w[1], p) = "open"
  <2>1. g \in Histories /\ Len(g) = n + 1
    BY HistoryGrows
  <2> HIDE DEF g, n
  <2>2. \A p : Came(g, n + 1, p) = "open"
    BY <2>1, CameNow
  <2>3. QED  BY <1>1, <2>2
<1> HIDE DEF g, n
<1>4. ASSUME NEW p, NEW v \in {"hit", "miss"}
      PROVE  With(g, p, v) =
                With(h, p, v) \cup {w \in OpenOf(h) : PackageOf(h, w) = p /\ Judgement(h, x, w) = v}
  BY <1>1, <1>2, <1>3 DEF With, OpenOf
<1>5. OpenOf(g) = {w \in OpenOf(h) : Judgement(h, x, w) = "open"} \cup NewPrewarms(h, x)
  BY <1>1, <1>2, <1>3 DEF OpenOf
<1>6. QED  BY <1>4, <1>5 DEF g

\* A history has finitely many pre-warms.
LEMMA PrewarmsFinite ==
    ASSUME NEW h \in Histories
    PROVE  /\ IsFiniteSet(Prewarms(h)) /\ IsFiniteSet(OpenOf(h))
           /\ \A p, v : IsFiniteSet(With(h, p, v)) /\ Cardinality(With(h, p, v)) \in Nat
<1> DEFINE Of(i) == {<<i, k>> : k \in {k \in DOMAIN h[i].input.actions :
                                        Registered(ActionOf(h, <<i, k>>))}}
           f == [i \in DOMAIN h |-> Of(i)]
           A == {f[i] : i \in DOMAIN h}
<1>1. /\ DOMAIN h = 1..Len(h) /\ Len(h) \in Nat
      /\ \A i \in DOMAIN h : h[i] \in Observations
  BY LenProperties, ElementOfSeq DEF Histories
<1>2. IsFiniteSet(DOMAIN h)
  BY <1>1, FS_Interval
<1>3. IsFiniteSet(A)
  <2> HIDE DEF f
  <2>1. QED  BY <1>2, ImageIsFinite
<1>4. ASSUME NEW i \in DOMAIN h PROVE IsFiniteSet(Of(i))
  <2> DEFINE K == {k \in DOMAIN h[i].input.actions : Registered(ActionOf(h, <<i, k>>))}
             e == [k \in K |-> <<i, k>>]
  <2>1. h[i].input \in Inputs
    BY <1>1 DEF Observations
  <2>2. /\ DOMAIN h[i].input.actions = 1..Len(h[i].input.actions)
        /\ Len(h[i].input.actions) \in Nat
    BY <2>1, InputFacts
  <2>3. IsFiniteSet(DOMAIN h[i].input.actions)
    BY <2>2, FS_Interval
  <2>4. IsFiniteSet(K)
    BY <2>3, FS_Subset
  <2>5. Of(i) = {e[k] : k \in K}
    OBVIOUS
  <2> HIDE DEF e, K
  <2>6. IsFiniteSet({e[k] : k \in K})
    BY <2>4, ImageIsFinite
  <2>7. QED  BY <2>5, <2>6
<1>5. \A T \in A : IsFiniteSet(T)
  BY <1>4
<1>6. Prewarms(h) = UNION A
  BY DEF Prewarms
<1> HIDE DEF A
<1>7. IsFiniteSet(Prewarms(h))
  BY <1>3, <1>5, <1>6, FS_UNION
<1>8. IsFiniteSet(OpenOf(h))
  BY <1>7, FS_Subset DEF OpenOf
<1>9. ASSUME NEW p, NEW v PROVE IsFiniteSet(With(h, p, v)) /\ Cardinality(With(h, p, v)) \in Nat
  <2>1. With(h, p, v) \in SUBSET Prewarms(h)
    BY DEF With
  <2>2. IsFiniteSet(With(h, p, v))
    BY <1>7, <2>1, FS_Subset
  <2>3. QED  BY <2>2, FS_CardinalityType
<1>10. QED  BY <1>7, <1>8, <1>9

-----------------------------------------------------------------------------
(***************************************************************************)
(* The pending pre-warms of a memory.                                      *)
(***************************************************************************)

Pending(h, w) ==
    [id |-> w[1], nth |-> w[2], target |-> ActionOf(h, w).target,
     package |-> PackageOf(h, w), observed |-> Len(h) - w[1]]

\* The pending pre-warms are the open ones of the history, the counts those of
\* the others.
AttributedIn(m) ==
    /\ m.pending = {Pending(m.history, w) : w \in OpenOf(m.history)}
    /\ \A p : /\ Entry(m.counts, <<"hit", p>>) = Cardinality(With(m.history, p, "hit"))
              /\ Entry(m.counts, <<"miss", p>>) = Cardinality(With(m.history, p, "miss"))

\* What the next window will be recorded as.
Observation(m, input) == [input |-> input, decay |-> m.decay, effect |-> m.effectWindows]

\* A window is recorded with the decay and the effect windows it met.
LEMMA ObservationTyped ==
    ASSUME NEW m, m.decay \in Decays, m.effectWindows \in Positive, NEW input \in Inputs
    PROVE  Observation(m, input) \in Observations
BY DEF Observation, Observations

\* resolve_pending_prewarms judges the open pre-warms by the rule of the
\* history.
LEMMA JudgedFacts ==
    ASSUME NEW m, m.history \in Histories, m.effectWindows \in Positive, AttributedIn(m),
           NEW x \in Observations, x.effect = m.effectWindows
    PROVE  LET h == m.history
               fg == x.input.foreground
           IN  /\ \A w \in OpenOf(h) :
                    Verdict(Pending(h, w), fg, m.effectWindows) = Judgement(h, x, w)
               /\ Judged(m, fg) = {Pending(h, w) : w \in {w \in OpenOf(h) :
                                                            Judgement(h, x, w) # "open"}}
               /\ \A w, u \in OpenOf(h) : Pending(h, w) = Pending(h, u) => w = u
<1> DEFINE h == m.history
           fg == x.input.foreground
<1>1. \A w \in OpenOf(h) : w \in Prewarms(h) /\ w = <<w[1], w[2]>> /\ w[1] \in 1..Len(h)
  BY PrewarmFacts DEF OpenOf
<1>2. Len(h) \in Nat /\ x.effect \in Positive
  BY LenProperties DEF Histories, Observations
<1>3. m.pending = {Pending(h, w) : w \in OpenOf(h)}
  BY DEF AttributedIn
<1> HIDE DEF h
<1>4. ASSUME NEW w \in OpenOf(h)
      PROVE  Verdict(Pending(h, w), fg, m.effectWindows) = Judgement(h, x, w)
  <2>1. w[1] \in 1..Len(h)
    BY <1>1
  <2>2. (Len(h) - w[1]) + 1 >= x.effect <=> Len(h) + 1 - w[1] >= x.effect
    BY <1>2, <2>1 DEF Positive
  <2>3. /\ Pending(h, w).package = PackageOf(h, w)
        /\ Pending(h, w).observed = Len(h) - w[1]
    BY DEF Pending
  <2>4. QED  BY <2>2, <2>3 DEF Verdict, Judgement
<1>5. Judged(m, fg) = {Pending(h, w) : w \in {w \in OpenOf(h) : Judgement(h, x, w) # "open"}}
  BY <1>3, <1>4 DEF Judged
<1>6. ASSUME NEW w \in OpenOf(h), NEW u \in OpenOf(h), Pending(h, w) = Pending(h, u)
      PROVE  w = u
  <2>1. w[1] = u[1] /\ w[2] = u[2]
    BY <1>6 DEF Pending
  <2>2. QED  BY <1>1, <2>1
<1>7. QED  BY <1>4, <1>5, <1>6 DEF h

\* resolve_pending_prewarms counts each settled pre-warm once, by its package.
LEMMA JudgedCounts ==
    ASSUME NEW m, m.history \in Histories, m.effectWindows \in Positive, AttributedIn(m),
           NEW x \in Observations, x.effect = m.effectWindows
    PROVE  LET h == m.history
               entries == JudgedEntries(m, x.input.foreground)
           IN  /\ \A k \in DOMAIN entries :
                    /\ k[1] \in {"hit", "miss"}
                    /\ entries[k] \in Nat
               /\ \A p : \A v \in {"hit", "miss"} :
                    Entry(entries, <<v, p>>) =
                        Cardinality({w \in OpenOf(h) : /\ PackageOf(h, w) = p
                                                       /\ Judgement(h, x, w) = v})
<1> DEFINE h == m.history
           fg == x.input.foreground
           entries == JudgedEntries(m, fg)
           key(u) == <<Verdict(u, fg, m.effectWindows), u.package>>
<1>1. /\ \A w \in OpenOf(h) : Verdict(Pending(h, w), fg, m.effectWindows) = Judgement(h, x, w)
      /\ Judged(m, fg) = {Pending(h, w) : w \in {w \in OpenOf(h) : Judgement(h, x, w) # "open"}}
      /\ \A w, u \in OpenOf(h) : Pending(h, w) = Pending(h, u) => w = u
  BY JudgedFacts
<1>2. IsFiniteSet(OpenOf(h))
  BY PrewarmsFinite
<1>3. /\ DOMAIN entries = {key(u) : u \in Judged(m, fg)}
      /\ \A k \in DOMAIN entries : entries[k] = Cardinality({u \in Judged(m, fg) : key(u) = k})
  BY DEF JudgedEntries
<1>4. \A w \in OpenOf(h) : key(Pending(h, w)) = <<Judgement(h, x, w), PackageOf(h, w)>>
  BY <1>1 DEF Pending
<1>5. \A w : Judgement(h, x, w) \in {"hit", "miss", "open"}
  BY DEF Judgement
<1> HIDE DEF h, key, entries, fg
<1>6. ASSUME NEW p, NEW v \in {"hit", "miss"}
      PROVE  LET J == {w \in OpenOf(h) : PackageOf(h, w) = p /\ Judgement(h, x, w) = v}
                 K == {u \in Judged(m, fg) : key(u) = <<v, p>>}
             IN  /\ IsFiniteSet(J) /\ IsFiniteSet(K) /\ Cardinality(K) = Cardinality(J)
                 /\ K # {} <=> J # {}
  <2> DEFINE J == {w \in OpenOf(h) : PackageOf(h, w) = p /\ Judgement(h, x, w) = v}
             K == {u \in Judged(m, fg) : key(u) = <<v, p>>}
             f == [w \in J |-> Pending(h, w)]
  <2>1. v # "open"
    OBVIOUS
  <2>2. K = {Pending(h, w) : w \in J}
    <3>1. \A w \in OpenOf(h) : key(Pending(h, w)) = <<v, p>> <=>
                                PackageOf(h, w) = p /\ Judgement(h, x, w) = v
      BY <1>4
    <3>2. QED  BY <1>1, <2>1, <3>1
  <2>3. IsFiniteSet(J)
    BY <1>2, FS_Subset
  <2>4. /\ f \in [J -> K]
        /\ \A w, u \in J : f[w] = f[u] => w = u
        /\ \A t \in K : \E w \in J : f[w] = t
    BY <1>1, <2>2
  <2>5. K # {} <=> J # {}
    BY <2>2
  <2> HIDE DEF f, J, K
  <2>6. IsFiniteSet(K) /\ Cardinality(K) = Cardinality(J)
    BY <2>3, <2>4, SameNumber
  <2>7. QED  BY <2>3, <2>5, <2>6 DEF J, K
<1>7. ASSUME NEW p, NEW v \in {"hit", "miss"}
      PROVE  Entry(entries, <<v, p>>) =
                Cardinality({w \in OpenOf(h) : PackageOf(h, w) = p /\ Judgement(h, x, w) = v})
  <2> DEFINE J == {w \in OpenOf(h) : PackageOf(h, w) = p /\ Judgement(h, x, w) = v}
             K == {u \in Judged(m, fg) : key(u) = <<v, p>>}
  <2>1. Cardinality(K) = Cardinality(J) /\ (K # {} <=> J # {})
    BY <1>6
  <2>2. <<v, p>> \in DOMAIN entries <=> K # {}
    BY <1>3
  <2>3. <<v, p>> \in DOMAIN entries => entries[<<v, p>>] = Cardinality(K)
    BY <1>3
  <2> HIDE DEF J, K
  <2>4. CASE K # {}
    BY <2>1, <2>2, <2>3, <2>4 DEF Entry, J
  <2>5. CASE K = {}
    <3>1. J = {} /\ Entry(entries, <<v, p>>) = 0
      BY <2>1, <2>2, <2>5 DEF Entry
    <3>2. QED  BY <3>1, FS_EmptySet DEF J
  <2>6. QED  BY <2>4, <2>5
<1>8. ASSUME NEW k \in DOMAIN entries PROVE k[1] \in {"hit", "miss"} /\ entries[k] \in Nat
  <2>1. PICK w \in OpenOf(h) : Judgement(h, x, w) # "open" /\ k = key(Pending(h, w))
    BY <1>1, <1>3
  <2>2. k = <<Judgement(h, x, w), PackageOf(h, w)>> /\ Judgement(h, x, w) \in {"hit", "miss"}
    BY <1>4, <1>5, <2>1
  <2>3. entries[k] = Cardinality({u \in Judged(m, fg) : key(u) = k})
    BY <1>3
  <2>4. IsFiniteSet({u \in Judged(m, fg) : key(u) = k})
    BY <1>6, <2>2
  <2>5. entries[k] \in Nat
    BY <2>3, <2>4, FS_CardinalityType
  <2>6. QED  BY <2>2, <2>5
<1>9. QED  BY <1>7, <1>8 DEF h, entries, fg

\* What is still pending, one window on.
LEMMA StillPending ==
    ASSUME NEW m, m.history \in Histories, m.effectWindows \in Positive, AttributedIn(m),
           NEW x \in Observations, x.effect = m.effectWindows
    PROVE  LET h == m.history
               g == Append(h, x)
           IN  {[w EXCEPT !.observed = @ + 1] : w \in m.pending \ Judged(m, x.input.foreground)}
                    = {Pending(g, w) : w \in {w \in OpenOf(h) : Judgement(h, x, w) = "open"}}
<1> DEFINE h == m.history
           g == Append(h, x)
           fg == x.input.foreground
           O == {w \in OpenOf(h) : Judgement(h, x, w) = "open"}
           later(u) == [u EXCEPT !.observed = @ + 1]
<1>1. /\ Judged(m, fg) = {Pending(h, w) : w \in {w \in OpenOf(h) : Judgement(h, x, w) # "open"}}
      /\ \A w, u \in OpenOf(h) : Pending(h, w) = Pending(h, u) => w = u
  BY JudgedFacts
<1>2. m.pending = {Pending(h, w) : w \in OpenOf(h)}
  BY DEF AttributedIn
<1>3. ASSUME NEW w \in OpenOf(h) PROVE later(Pending(h, w)) = Pending(g, w)
  <2>1. w \in Prewarms(h)
    BY DEF OpenOf
  <2>2. ActionOf(g, w) = ActionOf(h, w) /\ w[1] \in 1..Len(h)
    BY <2>1, PrewarmsGrow
  <2>3. Len(g) = Len(h) + 1 /\ Len(h) \in Nat
    BY HistoryGrows
  <2> HIDE DEF g, h
  <2>4. (Len(h) - w[1]) + 1 = Len(g) - w[1] /\ PackageOf(g, w) = PackageOf(h, w)
    BY <2>2, <2>3 DEF PackageOf
  <2>5. QED  BY <2>2, <2>4 DEF Pending
<1> HIDE DEF h, g, fg, later
<1>4. m.pending \ Judged(m, fg) = {Pending(h, w) : w \in O}
  BY <1>1, <1>2
<1>5. {later(u) : u \in m.pending \ Judged(m, fg)} = {Pending(g, w) : w \in O}
  BY <1>3, <1>4
<1>6. QED  BY <1>5 DEF h, g, fg, later

-----------------------------------------------------------------------------
(***************************************************************************)
(* Entries of maps, and what windows add to them.                          *)
(***************************************************************************)

Numbers(map) == \A k \in DOMAIN map : map[k] \in Nat

\* An entry of a map of numbers is a number, 0 if it is missing.
LEMMA EntryIsNatural == ASSUME NEW map, Numbers(map), NEW k PROVE Entry(map, k) \in Nat
BY DEF Numbers, Entry

\* Adding to a map adds entry by entry.
LEMMA SumOfMaps ==
    ASSUME NEW a, NEW b, Numbers(a), Numbers(b)
    PROVE  /\ Numbers(Plus(a, b)) /\ DOMAIN Plus(a, b) = DOMAIN a \cup DOMAIN b
           /\ \A k : Entry(Plus(a, b), k) = Entry(a, k) + Entry(b, k)
<1>1. DOMAIN Plus(a, b) = DOMAIN a \cup DOMAIN b
  BY DEF Plus
<1>2. \A k \in DOMAIN a \cup DOMAIN b : Plus(a, b)[k] = Entry(a, k) + Entry(b, k)
  BY DEF Plus
<1>3. \A k : Entry(a, k) \in Nat /\ Entry(b, k) \in Nat
  BY EntryIsNatural
<1>4. \A k : k \notin DOMAIN a \cup DOMAIN b => Entry(a, k) = 0 /\ Entry(b, k) = 0
  BY DEF Entry
<1>5. \A k : Entry(Plus(a, b), k) = Entry(a, k) + Entry(b, k)
  BY <1>1, <1>2, <1>4 DEF Entry
<1>6. Numbers(Plus(a, b))
  BY <1>1, <1>2, <1>3 DEF Numbers
<1>7. QED  BY <1>1, <1>5, <1>6

\* No window adds to the tables of judged pre-warms; each names a foreground
\* package once.
LEMMA WindowAdds ==
    ASSUME NEW input \in Inputs
    PROVE  /\ Numbers(WindowEntries(input))
           /\ \A k \in DOMAIN WindowEntries(input) :
                k[1] \notin {"hit", "miss"} /\ WindowEntries(input)[k] > 0
           /\ \A p : Entry(WindowEntries(input), <<"foreground", p>>) =
                        IF p \in input.foreground THEN 1 ELSE 0
           /\ \A p : <<"foreground", p>> \in DOMAIN WindowEntries(input) <=> p \in input.foreground
<1> DEFINE acts == input.actions
           key(a) == <<Outcome(a.terminal), a.type>>
           listed == {"foreground"} \X input.foreground \cup {"notifying"} \X input.notified
                     \cup {"hints"} \X input.hints
           audited == {key(acts[n]) : n \in DOMAIN acts}
           of(k) == {n \in DOMAIN acts : key(acts[n]) = k}
           e == WindowEntries(input)
<1>1. /\ DOMAIN acts = 1..Len(acts) /\ Len(acts) \in Nat
      /\ \A n \in DOMAIN acts : acts[n] \in AuditedActions
  BY InputFacts
<1>2. /\ DOMAIN e = listed \cup audited
      /\ \A k \in listed \cup audited : e[k] = IF k \in listed THEN 1 ELSE Cardinality(of(k))
  BY DEF WindowEntries
<1>3. \A a \in AuditedActions : key(a)[1] \in {"Succeeded", "Failed", "Denied"}
  BY DEF AuditedActions, Outcome, Denied
<1> HIDE DEF e, key
<1>4. /\ \A k \in listed : k[1] \in {"foreground", "notifying", "hints"}
      /\ \A k \in audited : k[1] \in {"Succeeded", "Failed", "Denied"}
      /\ \A p : <<"foreground", p>> \in listed <=> p \in input.foreground
  BY <1>1, <1>3
<1>5. ASSUME NEW k \in audited PROVE Cardinality(of(k)) \in Nat /\ Cardinality(of(k)) > 0
  <2>1. of(k) # {} /\ of(k) \subseteq 1..Len(acts)
    BY <1>1
  <2> HIDE DEF of
  <2>2. IsFiniteSet(1..Len(acts))
    BY <1>1, FS_Interval
  <2>3. IsFiniteSet(of(k))
    BY <2>1, <2>2, FS_Subset
  <2>4. Cardinality(of(k)) \in Nat /\ Cardinality(of(k)) # 0
    BY <2>1, <2>3, FS_CardinalityType, FS_EmptySet
  <2>5. QED  BY <2>4
<1> HIDE DEF listed, audited, of
<1>6. \A k \in DOMAIN e : k[1] \notin {"hit", "miss"} /\ e[k] \in Nat /\ e[k] > 0
  BY <1>2, <1>4, <1>5
<1>7. ASSUME NEW p
      PROVE  /\ <<"foreground", p>> \in DOMAIN e <=> p \in input.foreground
             /\ Entry(e, <<"foreground", p>>) = IF p \in input.foreground THEN 1 ELSE 0
  <2> DEFINE k == <<"foreground", p>>
  <2>1. k[1] = "foreground"
    OBVIOUS
  <2>2. k \notin audited /\ (k \in listed <=> p \in input.foreground)
    BY <1>4, <2>1
  <2> HIDE DEF k
  <2>3. k \in DOMAIN e <=> p \in input.foreground
    BY <1>2, <2>2
  <2>4. p \in input.foreground => e[k] = 1
    BY <1>2, <2>2
  <2>5. QED  BY <2>3, <2>4 DEF Entry, k
<1>8. QED  BY <1>6, <1>7 DEF Numbers, e

\* Finitely many finite sets have a finite union.
LEMMA UnionIsFinite ==
    ASSUME NEW n \in Nat, NEW f, \A i \in 1..n : IsFiniteSet(f[i])
    PROVE  IsFiniteSet(UNION {f[i] : i \in 1..n})
<1> DEFINE A == {f[i] : i \in 1..n}
<1>1. IsFiniteSet(1..n)
  BY FS_Interval
<1>2. IsFiniteSet(A)
  BY <1>1, ImageIsFinite
<1>3. \A T \in A : IsFiniteSet(T)
  OBVIOUS
<1> HIDE DEF A
<1>4. IsFiniteSet(UNION A)
  BY <1>2, <1>3, FS_UNION
<1>5. QED  BY <1>4 DEF A

\* A number as the size of a set of pairs.
LEMMA Numbered ==
    ASSUME NEW i, NEW e \in Nat
    PROVE  /\ IsFiniteSet({<<i, n>> : n \in 1..e})
           /\ Cardinality({<<i, n>> : n \in 1..e}) = e
<1> DEFINE T == {<<i, n>> : n \in 1..e}
           f == [n \in 1..e |-> <<i, n>>]
<1>1. IsFiniteSet(1..e) /\ Cardinality(1..e) = e
  BY FS_Interval
<1>2. /\ f \in [1..e -> T] /\ \A a, b \in 1..e : f[a] = f[b] => a = b
      /\ \A t \in T : \E a \in 1..e : f[a] = t
  OBVIOUS
<1> HIDE DEF f, T
<1>3. IsFiniteSet(T) /\ Cardinality(T) = Cardinality(1..e)
  BY <1>1, <1>2, SameNumber
<1>4. QED  BY <1>1, <1>3 DEF T

AddedIn(h, i, k) == {<<i, n>> : n \in 1..Entry(WindowEntries(h[i].input), k)}

\* The times windows have added to an entry are finitely many.
LEMMA AddedFinite ==
    ASSUME NEW h \in Histories, NEW k
    PROVE  /\ IsFiniteSet(UNION {AddedIn(h, i, k) : i \in DOMAIN h})
           /\ Times(h, k) = Cardinality(UNION {AddedIn(h, i, k) : i \in DOMAIN h})
           /\ Times(h, k) \in Nat
<1> DEFINE f == [i \in DOMAIN h |-> AddedIn(h, i, k)]
           U == UNION {AddedIn(h, i, k) : i \in DOMAIN h}
<1>1. /\ DOMAIN h = 1..Len(h) /\ Len(h) \in Nat
      /\ \A i \in DOMAIN h : h[i] \in Observations
  BY LenProperties, ElementOfSeq DEF Histories
<1>2. ASSUME NEW i \in 1..Len(h) PROVE IsFiniteSet(f[i])
  <2>1. h[i].input \in Inputs
    BY <1>1 DEF Observations
  <2>2. Entry(WindowEntries(h[i].input), k) \in Nat
    BY <2>1, WindowAdds, EntryIsNatural
  <2>3. IsFiniteSet(AddedIn(h, i, k))
    BY <2>2, Numbered DEF AddedIn
  <2>4. QED  BY <1>1, <2>3
<1>3. U = UNION {f[i] : i \in 1..Len(h)}
  BY <1>1
<1>4. IsFiniteSet(UNION {f[i] : i \in 1..Len(h)})
  <2> HIDE DEF f
  <2>1. QED  BY <1>1, <1>2, UnionIsFinite
<1>5. IsFiniteSet(U)
  BY <1>3, <1>4
<1>6. Times(h, k) = Cardinality(U)
  BY DEF Times, AddedIn
<1> HIDE DEF U
<1>7. Cardinality(U) \in Nat
  BY <1>5, FS_CardinalityType
<1>8. QED  BY <1>5, <1>6, <1>7 DEF U

\* One more window adds what it has of an entry.
LEMMA TimesGrow ==
    ASSUME NEW h \in Histories, NEW x \in Observations, NEW k
    PROVE  Times(Append(h, x), k) = Times(h, k) + Entry(WindowEntries(x.input), k)
<1> DEFINE g == Append(h, x)
           n == Len(h)
           e == Entry(WindowEntries(x.input), k)
           U == UNION {AddedIn(h, i, k) : i \in DOMAIN h}
           N == {<<n + 1, j>> : j \in 1..e}
<1>1. /\ g \in Histories /\ n \in Nat /\ DOMAIN h = 1..n /\ DOMAIN g = 1..(n + 1)
      /\ \A j \in 1..n : g[j] = h[j]
      /\ g[n + 1] = x
  BY HistoryGrows
<1>2. e \in Nat
  BY WindowAdds, EntryIsNatural DEF Observations
<1>3. IsFiniteSet(U) /\ Times(h, k) = Cardinality(U)
  BY AddedFinite
<1>4. IsFiniteSet(N) /\ Cardinality(N) = e
  <2> HIDE DEF e
  <2>1. QED  BY <1>2, Numbered
<1> HIDE DEF g, e
<1>5. UNION {AddedIn(g, i, k) : i \in DOMAIN g} = U \cup N
  <2>1. \A i \in 1..n : AddedIn(g, i, k) = AddedIn(h, i, k)
    BY <1>1 DEF AddedIn
  <2>2. AddedIn(g, n + 1, k) = N
    BY <1>1 DEF AddedIn, e
  <2>3. \A i : i \in 1..(n + 1) <=> i \in 1..n \/ i = n + 1
    BY <1>1
  <2> HIDE DEF N
  <2>4. QED  BY <1>1, <2>1, <2>2, <2>3
<1>6. \A t \in U : t \notin N
  <2>1. ASSUME NEW t \in U PROVE t[1] # n + 1
    <3>1. PICK i \in 1..n : t \in AddedIn(h, i, k)
      BY <1>1
    <3>2. t[1] = i
      BY <3>1 DEF AddedIn
    <3>3. QED  BY <1>1, <3>2
  <2>2. \A t \in N : t[1] = n + 1
    OBVIOUS
  <2> HIDE DEF U, N
  <2>3. QED  BY <2>1, <2>2
<1> HIDE DEF U, N
<1>7. Cardinality(U \cup N) = Cardinality(U) + Cardinality(N)
  BY <1>3, <1>4, <1>6, DisjointUnion
<1>8. Times(g, k) = Cardinality(U \cup N)
  BY <1>1, <1>5, AddedFinite
<1>9. QED  BY <1>3, <1>4, <1>7, <1>8 DEF g, e

-----------------------------------------------------------------------------
(***************************************************************************)
(* What windows are worth.                                                 *)
(***************************************************************************)

\* Products of naturals are naturals.
LEMMA ProductIsNatural == \A a, b \in Nat : a * b \in Nat
OBVIOUS

Discount(v, x, k) == (v * x.decay) \div 1000 + ScoreUnit * Entry(WindowEntries(x.input), k)

\* A discounted worth is a number.
LEMMA DiscountIsNatural ==
    ASSUME NEW v \in Nat, NEW x \in Observations, NEW k
    PROVE  Discount(v, x, k) \in Nat
<1>1. x.decay \in Nat /\ x.input \in Inputs
  BY DEF Observations, Decays
<1>2. Entry(WindowEntries(x.input), k) \in Nat
  BY <1>1, WindowAdds, EntryIsNatural
<1>3. v * x.decay \in Nat
  BY <1>1, ProductIsNatural
<1>4. (v * x.decay) \div 1000 \in Nat
  BY <1>3
<1>5. ScoreUnit * Entry(WindowEntries(x.input), k) \in Nat
  BY <1>2 DEF ScoreUnit
<1>6. QED  BY <1>4, <1>5 DEF Discount

\* The worth of an entry after each window.
LEMMA WorthSteps ==
    ASSUME NEW h \in Histories, NEW k
    PROVE  \E f : /\ f[0] = 0 /\ \A n \in 1..Len(h) : f[n] = Discount(f[n - 1], h[n], k)
                  /\ f[Len(h)] = Worth(h, k)
<1> DEFINE m == Len(h)
           step(f) == [n \in 0..m |-> IF n = 0 THEN 0 ELSE Discount(f[n - 1], h[n], k)]
           F == [n \in 1..m |-> [v \in Nat |-> Discount(v, h[n], k)]]
           worth == CHOOSE f : f = step(f)
<1>1. m \in Nat /\ \A n \in 1..m : h[n] \in Observations
  BY LenProperties, ElementOfSeq DEF Histories
<1>2. Worth(h, k) = worth[m]
  BY DEF Worth, Discount
<1>3. F \in [1..m -> [Nat -> Nat]]
  BY <1>1, DiscountIsNatural
<1> HIDE DEF m
<1>4. PICK f \in [0..m -> Nat] : Solves(f, m, 0, F)
  <2> HIDE DEF F
  <2>1. 0 \in Nat
    OBVIOUS
  <2>2. QED  BY <1>1, <1>3, <2>1, RecursionExists
<1>5. f = step(f)
  <2>1. \A n \in 1..m : f[n] = Discount(f[n - 1], h[n], k)
    <3>1. \A n \in 1..m : n - 1 \in 0..m
      BY <1>1
    <3>2. \A n \in 1..m : f[n - 1] \in Nat
      BY <3>1
    <3>3. QED  BY <1>4, <3>2 DEF Solves
  <2>2. \A n \in 0..m : f[n] = IF n = 0 THEN 0 ELSE Discount(f[n - 1], h[n], k)
    BY <1>4, <2>1 DEF Solves
  <2>3. QED  BY <2>2
<1>6. worth = step(worth)
  <2> HIDE DEF step
  <2>1. QED  BY <1>5, Zenon
<1> HIDE DEF worth
<1>7. worth[0] = 0 /\ \A n \in 1..m : worth[n] = Discount(worth[n - 1], h[n], k)
  <2>1. \A n \in 0..m : worth[n] = IF n = 0 THEN 0 ELSE Discount(worth[n - 1], h[n], k)
    BY <1>6
  <2>2. QED  BY <1>1, <2>1
<1>8. QED  BY <1>2, <1>7 DEF m

\* One more window discounts the worth and adds its own.
LEMMA WorthGrows ==
    ASSUME NEW h \in Histories, NEW x \in Observations, NEW k
    PROVE  Worth(Append(h, x), k) = Discount(Worth(h, k), x, k)
<1> DEFINE g == Append(h, x)
           n == Len(h)
<1>1. /\ g \in Histories /\ n \in Nat /\ Len(g) = n + 1 /\ g[n + 1] = x
      /\ \A j \in 1..n : g[j] = h[j]
  BY HistoryGrows
<1> HIDE DEF g
<1>2. PICK a : /\ a[0] = 0 /\ \A j \in 1..n : a[j] = Discount(a[j - 1], h[j], k)
               /\ a[n] = Worth(h, k)
  BY WorthSteps
<1>3. PICK b : /\ b[0] = 0 /\ \A j \in 1..Len(g) : b[j] = Discount(b[j - 1], g[j], k)
               /\ b[Len(g)] = Worth(g, k)
  BY <1>1, WorthSteps
<1> HIDE DEF n
<1> DEFINE T == {j \in 0..n : a[j] = b[j]}
<1>4. 0 \in T
  BY <1>1, <1>2, <1>3
<1>5. ASSUME NEW j \in 1..n, j - 1 \in T PROVE j \in T
  <2>1. j \in 1..Len(g) /\ j \in 0..n /\ g[j] = h[j]
    BY <1>1
  <2>2. QED  BY <1>2, <1>3, <1>5, <2>1
<1>6. n \in T
  <2> HIDE DEF T
  <2>1. 0..n \subseteq T
    BY <1>1, <1>4, <1>5, UpTo
  <2>2. n \in 0..n
    BY <1>1
  <2>3. QED  BY <2>1, <2>2
<1>7. n + 1 \in 1..Len(g) /\ (n + 1) - 1 = n
  BY <1>1
<1>8. Worth(g, k) = Discount(b[n], x, k)
  BY <1>1, <1>3, <1>7
<1>9. QED  BY <1>2, <1>6, <1>8 DEF g

\* What windows are worth is a number.
LEMMA WorthIsNatural ==
    ASSUME NEW h \in Histories, NEW k
    PROVE  Worth(h, k) \in Nat
<1>1. PICK a : /\ a[0] = 0 /\ \A j \in 1..Len(h) : a[j] = Discount(a[j - 1], h[j], k)
               /\ a[Len(h)] = Worth(h, k)
  BY WorthSteps
<1>2. Len(h) \in Nat /\ \A j \in 1..Len(h) : h[j] \in Observations
  BY LenProperties, ElementOfSeq DEF Histories
<1> DEFINE T == {j \in 0..Len(h) : a[j] \in Nat}
<1>3. 0 \in T
  BY <1>1, <1>2
<1>4. ASSUME NEW j \in 1..Len(h), j - 1 \in T PROVE j \in T
  <2>1. Discount(a[j - 1], h[j], k) \in Nat
    BY <1>2, <1>4, DiscountIsNatural
  <2>2. j \in 0..Len(h)
    BY <1>2
  <2>3. QED  BY <1>1, <2>1, <2>2
<1>5. Len(h) \in T
  <2> HIDE DEF T
  <2>1. 0..Len(h) \subseteq T
    BY <1>2, <1>3, <1>4, UpTo
  <2>2. Len(h) \in 0..Len(h)
    BY <1>2
  <2>3. QED  BY <2>1, <2>2
<1>6. QED  BY <1>1, <1>5

\* One decay of a score, as decay_map does it: a result below MinScore is dropped.
Faded(v, decay) ==
    LET faded == (v * decay) \div 1000 IN IF faded >= MinScore THEN faded ELSE 0

\* A decayed score is a number.
LEMMA FadedIsNatural ==
    ASSUME NEW v \in Nat, NEW decay \in Decays
    PROVE  Faded(v, decay) \in Nat
<1>1. v * decay \in Nat
  BY ProductIsNatural DEF Decays
<1>2. (v * decay) \div 1000 \in Nat
  BY <1>1
<1>3. QED  BY <1>2 DEF Faded

\* decay_map: what a score has lost by being dropped stays below the bound, also
\* when it is dropped again.
LEMMA LossBounded ==
    ASSUME NEW e \in Nat, NEW v \in Nat, v <= e, NEW decay \in Decays, NEW top \in Decays,
           decay <= top, (e - v) * (1000 - top) < 1000 * MinScore
    PROVE  LET e2 == (e * decay) \div 1000
               v2 == Faded(v, decay)
           IN  v2 <= e2 /\ (e2 - v2) * (1000 - top) < 1000 * MinScore
<1> DEFINE d == e - v
           t == 1000 - top
           a == v * decay
           b == d * decay
           e2 == (e * decay) \div 1000
           v2 == Faded(v, decay)
           q == a \div 1000
<1>1. d \in Nat /\ t \in Nat /\ decay \in Nat /\ top \in Nat /\ decay <= 1000 /\ t + top = 1000
  BY DEF Decays
<1>m. \A x, y, z \in Nat : x <= y => x * z <= y * z
  OBVIOUS
<1>2. a \in Nat /\ b \in Nat /\ e * decay = a + b
  <2>1. e = v + d
    OBVIOUS
  <2> HIDE DEF d
  <2>2. (v + d) * decay = v * decay + d * decay
    BY <1>1
  <2>3. QED  BY <1>1, <2>1, <2>2, ProductIsNatural
<1>3. b <= d * top /\ b <= 1000 * d
  <2>1. decay * d <= top * d /\ decay * d <= 1000 * d
    BY <1>1, <1>m
  <2>2. decay * d = d * decay /\ top * d = d * top
    BY <1>1
  <2>3. QED  BY <2>1, <2>2
<1>4. d * t <= 99999 /\ d * t \in Nat
  <2>1. d * t \in Nat
    BY <1>1, ProductIsNatural
  <2>2. QED  BY <2>1 DEF MinScore
<1> HIDE DEF d, t, a, b
<1>5. q \in Nat /\ e2 \in Nat /\ q <= e2 /\ e2 <= q + d /\ e2 * 1000 <= a + b /\ a < 1000 * q + 1000
  <2>1. e2 = (a + b) \div 1000
    BY <1>2
  <2>2. QED  BY <1>1, <1>2, <1>3, <2>1
<1>6. v2 = IF q >= 100 THEN q ELSE 0
  BY DEF Faded, a, MinScore
<1> HIDE DEF e2, v2, q
<1>7. CASE q >= 100
  <2>1. v2 = q /\ e2 - v2 \in Nat /\ e2 - v2 <= d
    BY <1>1, <1>5, <1>6, <1>7
  <2>2. (e2 - v2) * t <= d * t
    BY <1>1, <1>m, <2>1
  <2>3. (e2 - v2) * t \in Nat
    BY <1>1, <2>1, ProductIsNatural
  <2>4. (e2 - v2) * t < 100000 /\ v2 <= e2
    BY <1>4, <1>5, <2>1, <2>2, <2>3
  <2>5. QED  BY <2>4 DEF e2, v2, t, MinScore
<1>8. CASE q < 100
  <2>1. v2 = 0 /\ a <= 99999
    BY <1>2, <1>5, <1>6, <1>8
  <2>2. (e2 * 1000) * t <= (a + b) * t
    <3>1. e2 * 1000 \in Nat /\ a + b \in Nat
      BY <1>2, <1>5
    <3>2. QED  BY <1>1, <1>5, <1>m, <3>1
  <2>3. (a + b) * t = a * t + b * t
    BY <1>1, <1>2
  <2>4. a * t <= 99999 * t
    BY <1>1, <1>2, <1>m, <2>1
  <2>5. b * t <= 99999 * top
    <3>1. d * top \in Nat
      BY <1>1, ProductIsNatural
    <3>2. b * t <= (d * top) * t
      BY <1>1, <1>2, <1>3, <1>m, <3>1
    <3>3. (d * top) * t = (d * t) * top
      BY <1>1
    <3>4. (d * t) * top <= 99999 * top
      BY <1>1, <1>4, <1>m
    <3>5. b * t \in Nat /\ (d * top) * t \in Nat
      BY <1>1, <1>2, <3>1, ProductIsNatural
    <3>6. (d * t) * top \in Nat
      BY <3>3, <3>5
    <3>7. QED  BY <1>1, <3>2, <3>3, <3>4, <3>5, <3>6
  <2>6. (e2 * 1000) * t = 1000 * (e2 * t) /\ e2 * t \in Nat
    BY <1>1, <1>5, ProductIsNatural
  <2>7. a * t \in Nat /\ b * t \in Nat
    BY <1>1, <1>2, ProductIsNatural
  <2>8. 1000 * (e2 * t) <= 99999 * t + 99999 * top
    BY <1>1, <2>2, <2>3, <2>4, <2>5, <2>6, <2>7
  <2>9. e2 * t < 100000
    BY <1>1, <2>6, <2>8
  <2>10. e2 - v2 = e2 /\ v2 <= e2
    BY <1>5, <2>1
  <2>11. QED  BY <2>9, <2>10 DEF e2, v2, t, MinScore
<1>9. QED  BY <1>5, <1>7, <1>8

-----------------------------------------------------------------------------
(***************************************************************************)
(* The operations on a memory, by what they do to its fields.              *)
(***************************************************************************)

Fields == {"recentLimit", "topLimit", "decay", "effectWindows", "windows", "counts",
           "momentum", "pending", "recent", "summary", "history"}

\* Two memories with the same fields, but for the maps, the pending pre-warms
\* and the feedback.
SameRest(a, b) ==
    /\ DOMAIN a = Fields
    /\ a.recentLimit = b.recentLimit /\ a.topLimit = b.topLimit /\ a.decay = b.decay
    /\ a.effectWindows = b.effectWindows /\ a.windows = b.windows
    /\ a.summary = b.summary /\ a.history = b.history

Scaled(e) == [k \in DOMAIN e |-> ScoreUnit * e[k]]

\* Scores are counts in units.
LEMMA ScaledEntries ==
    ASSUME NEW e, Numbers(e)
    PROVE  Numbers(Scaled(e)) /\ \A k : Entry(Scaled(e), k) = ScoreUnit * Entry(e, k)
<1>1. DOMAIN Scaled(e) = DOMAIN e /\ \A k \in DOMAIN e : Scaled(e)[k] = ScoreUnit * e[k]
  BY DEF Scaled
<1>2. Numbers(Scaled(e))
  BY <1>1 DEF Numbers, ScoreUnit
<1>3. ASSUME NEW k PROVE Entry(Scaled(e), k) = ScoreUnit * Entry(e, k)
  BY <1>1 DEF Entry, ScoreUnit
<1>4. QED  BY <1>2, <1>3

\* x is the memory a with the entries e added.
Adds(x, a, e) ==
    /\ SameRest(x, a) /\ x.pending = a.pending /\ x.recent = a.recent
    /\ Numbers(x.counts) /\ Numbers(x.momentum)
    /\ DOMAIN x.counts = DOMAIN a.counts \cup DOMAIN e
    /\ DOMAIN x.momentum = DOMAIN a.momentum \cup DOMAIN e
    /\ \A k : Entry(x.counts, k) = Entry(a.counts, k) + Entry(e, k)
    /\ \A k : Entry(x.momentum, k) = Entry(a.momentum, k) + ScoreUnit * Entry(e, k)

\* increment and add_momentum add entry by entry.
LEMMA Incremented ==
    ASSUME NEW a, DOMAIN a = Fields, Numbers(a.counts), Numbers(a.momentum),
           NEW e, Numbers(e)
    PROVE  Adds(Increment(a, e), a, e)
<1> DEFINE x == Increment(a, e)
<1>1. /\ SameRest(x, a) /\ x.pending = a.pending /\ x.recent = a.recent
      /\ x.counts = Plus(a.counts, e) /\ x.momentum = Plus(a.momentum, Scaled(e))
  BY DEF Increment, Fields, SameRest, Scaled
<1> HIDE DEF x
<1>2. Numbers(Scaled(e)) /\ \A k : Entry(Scaled(e), k) = ScoreUnit * Entry(e, k)
  BY ScaledEntries
<1>3. /\ Numbers(x.counts) /\ DOMAIN x.counts = DOMAIN a.counts \cup DOMAIN e
      /\ \A k : Entry(x.counts, k) = Entry(a.counts, k) + Entry(e, k)
  <2>1. LET s == Plus(a.counts, e) IN
        /\ Numbers(s) /\ DOMAIN s = DOMAIN a.counts \cup DOMAIN e
        /\ \A k : Entry(s, k) = Entry(a.counts, k) + Entry(e, k)
    BY SumOfMaps
  <2>2. QED  BY <1>1, <2>1
<1>4. /\ Numbers(x.momentum) /\ DOMAIN x.momentum = DOMAIN a.momentum \cup DOMAIN Scaled(e)
      /\ \A k : Entry(x.momentum, k) = Entry(a.momentum, k) + Entry(Scaled(e), k)
  <2>1. LET s == Plus(a.momentum, Scaled(e)) IN
        /\ Numbers(s) /\ DOMAIN s = DOMAIN a.momentum \cup DOMAIN Scaled(e)
        /\ \A k : Entry(s, k) = Entry(a.momentum, k) + Entry(Scaled(e), k)
    BY <1>2, SumOfMaps
  <2>2. QED  BY <1>1, <2>1
<1>5. DOMAIN Scaled(e) = DOMAIN e
  BY DEF Scaled
<1>6. QED  BY <1>1, <1>2, <1>3, <1>4, <1>5 DEF x, Adds

\* decay_momentum lets every score fade and touches nothing else.
LEMMA MomentumDecayed ==
    ASSUME NEW a, DOMAIN a = Fields, Numbers(a.momentum), a.decay \in Decays
    PROVE  LET x == DecayMomentum(a) IN
           /\ SameRest(x, a) /\ x.pending = a.pending /\ x.recent = a.recent
           /\ x.counts = a.counts /\ Numbers(x.momentum)
           /\ DOMAIN x.momentum \subseteq DOMAIN a.momentum
           /\ \A k : Entry(x.momentum, k) = Faded(Entry(a.momentum, k), a.decay)
<1> DEFINE x == DecayMomentum(a)
           decayed(k) == (a.momentum[k] * a.decay) \div 1000
           K == {k \in DOMAIN a.momentum : decayed(k) >= MinScore}
<1>1. /\ SameRest(x, a) /\ x.pending = a.pending /\ x.recent = a.recent
      /\ x.counts = a.counts /\ x.momentum = [k \in K |-> decayed(k)]
  BY DEF DecayMomentum, Fields, SameRest
<1> HIDE DEF x
<1>2. ASSUME NEW k \in DOMAIN a.momentum
      PROVE  decayed(k) \in Nat
  <2>1. a.momentum[k] \in Nat /\ a.decay \in Nat
    BY DEF Numbers, Decays
  <2>2. a.momentum[k] * a.decay \in Nat
    BY <2>1, ProductIsNatural
  <2>3. QED  BY <2>2
<1>3. Numbers(x.momentum) /\ DOMAIN x.momentum \subseteq DOMAIN a.momentum
  BY <1>1, <1>2 DEF Numbers
<1>4. ASSUME NEW k PROVE Entry(x.momentum, k) = Faded(Entry(a.momentum, k), a.decay)
  <2>1. CASE k \in DOMAIN a.momentum
    <3>1. Entry(a.momentum, k) = a.momentum[k]
      BY <2>1 DEF Entry
    <3>2. Faded(a.momentum[k], a.decay) = IF decayed(k) >= MinScore THEN decayed(k) ELSE 0
      BY DEF Faded
    <3>3. k \in K <=> decayed(k) >= MinScore
      BY <2>1
    <3> HIDE DEF K, decayed
    <3>4. QED  BY <1>1, <3>1, <3>2, <3>3 DEF Entry
  <2>2. CASE k \notin DOMAIN a.momentum
    <3>1. Entry(a.momentum, k) = 0 /\ Entry(x.momentum, k) = 0
      BY <1>1, <2>2 DEF Entry
    <3>2. a.decay \in Nat
      BY DEF Decays
    <3>3. 0 * a.decay = 0
      BY <3>2
    <3>4. Faded(0, a.decay) = 0
      BY <3>3 DEF Faded, MinScore
    <3>5. QED  BY <3>1, <3>4
  <2>3. QED  BY <2>1, <2>2
<1>5. QED  BY <1>1, <1>3, <1>4 DEF x

\* A recent record whose pre-warms have been judged.
Attributed(r, m, fg) ==
    [r EXCEPT !.outcomes = [k \in DOMAIN r.outcomes |-> Attribute(r.outcomes[k], r.id, m, fg)]]

\* Counting a window, by what it does to each field of the memory.
LEMMA CountedParts ==
    ASSUME NEW m, DOMAIN m = Fields, m.decay \in Decays,
           Numbers(m.counts), Numbers(m.momentum),
           NEW input \in Inputs, Numbers(JudgedEntries(m, input.foreground))
    PROVE  LET c == Counted(m, input)
               fg == input.foreground
               judged == JudgedEntries(m, fg)
               added == WindowEntries(input)
           IN  /\ SameRest(c, m)
               /\ c.pending = {[w EXCEPT !.observed = @ + 1] : w \in m.pending \ Judged(m, fg)}
               /\ c.recent = [i \in DOMAIN m.recent |-> Attributed(m.recent[i], m, fg)]
               /\ Numbers(c.counts) /\ Numbers(c.momentum)
               /\ DOMAIN c.counts = DOMAIN m.counts \cup DOMAIN judged \cup DOMAIN added
               /\ DOMAIN c.momentum \subseteq DOMAIN m.momentum \cup DOMAIN judged \cup DOMAIN added
               /\ \A k : Entry(c.counts, k) =
                            Entry(m.counts, k) + Entry(judged, k) + Entry(added, k)
               /\ \A k : Entry(c.momentum, k) =
                            Faded(Entry(m.momentum, k) + ScoreUnit * Entry(judged, k), m.decay)
                            + ScoreUnit * Entry(added, k)
<1> DEFINE fg == input.foreground
           judged == JudgedEntries(m, fg)
           added == WindowEntries(input)
           i == Increment(m, judged)
           p == {[w EXCEPT !.observed = @ + 1] : w \in m.pending \ Judged(m, fg)}
           l == [n \in DOMAIN m.recent |-> Attributed(m.recent[n], m, fg)]
           r == ResolvePendingPrewarms(m, fg)
           d == DecayMomentum(r)
           c == Increment(d, added)
<1>1. /\ SameRest(i, m) /\ Numbers(i.counts) /\ Numbers(i.momentum)
      /\ DOMAIN i.counts = DOMAIN m.counts \cup DOMAIN judged
      /\ DOMAIN i.momentum = DOMAIN m.momentum \cup DOMAIN judged
      /\ \A k : Entry(i.counts, k) = Entry(m.counts, k) + Entry(judged, k)
      /\ \A k : Entry(i.momentum, k) = Entry(m.momentum, k) + ScoreUnit * Entry(judged, k)
  <2> HIDE DEF judged
  <2>1. Numbers(judged)
    BY DEF judged
  <2>2. Adds(i, m, judged)
    BY <2>1, Incremented
  <2>3. QED  BY <2>2 DEF Adds
<1>2. r = [i EXCEPT !.recent = l, !.pending = p]
  BY DEF ResolvePendingPrewarms, Attributed
<1> HIDE DEF i, p, l, judged, r
<1>3. /\ SameRest(r, m) /\ r.pending = p /\ r.recent = l
      /\ r.counts = i.counts /\ r.momentum = i.momentum
  BY <1>1, <1>2 DEF SameRest, Fields
<1>4. /\ SameRest(d, r) /\ d.pending = r.pending /\ d.recent = r.recent
      /\ d.counts = r.counts /\ Numbers(d.momentum)
      /\ DOMAIN d.momentum \subseteq DOMAIN r.momentum
      /\ \A k : Entry(d.momentum, k) = Faded(Entry(r.momentum, k), r.decay)
  <2>1. DOMAIN r = Fields /\ Numbers(r.momentum) /\ r.decay \in Decays
    BY <1>1, <1>3 DEF SameRest
  <2>2. QED  BY <2>1, MomentumDecayed
<1> HIDE DEF d
<1>5. Numbers(added)
  BY WindowAdds
<1>6. /\ SameRest(c, d) /\ c.pending = d.pending /\ c.recent = d.recent
      /\ Numbers(c.counts) /\ Numbers(c.momentum)
      /\ DOMAIN c.counts = DOMAIN d.counts \cup DOMAIN added
      /\ DOMAIN c.momentum = DOMAIN d.momentum \cup DOMAIN added
      /\ \A k : Entry(c.counts, k) = Entry(d.counts, k) + Entry(added, k)
      /\ \A k : Entry(c.momentum, k) = Entry(d.momentum, k) + ScoreUnit * Entry(added, k)
  <2>1. DOMAIN d = Fields /\ Numbers(d.counts)
    BY <1>1, <1>3, <1>4 DEF SameRest
  <2> HIDE DEF added
  <2>2. Adds(c, d, added)
    BY <1>4, <1>5, <2>1, Incremented
  <2>3. QED  BY <2>2 DEF Adds
<1>7. c = Counted(m, input)
  BY DEF Counted, d, r
<1> HIDE DEF c, added
<1>8. SameRest(c, m)
  BY <1>3, <1>4, <1>6 DEF SameRest
<1>9. c.pending = p /\ c.recent = l
  BY <1>3, <1>4, <1>6
<1>10. \A k : Entry(c.counts, k) = Entry(m.counts, k) + Entry(judged, k) + Entry(added, k)
  BY <1>1, <1>3, <1>4, <1>6
<1>11. \A k : Entry(c.momentum, k) =
                Faded(Entry(m.momentum, k) + ScoreUnit * Entry(judged, k), m.decay)
                + ScoreUnit * Entry(added, k)
  <2>1. r.decay = m.decay
    BY <1>3 DEF SameRest
  <2>2. QED  BY <1>1, <1>3, <1>4, <1>6, <2>1
<1>12. /\ DOMAIN c.counts = DOMAIN m.counts \cup DOMAIN judged \cup DOMAIN added
       /\ DOMAIN c.momentum \subseteq DOMAIN m.momentum \cup DOMAIN judged \cup DOMAIN added
  BY <1>1, <1>3, <1>4, <1>6
<1>13. QED
  BY <1>6, <1>7, <1>8, <1>9, <1>10, <1>11, <1>12 DEF p, l, judged, added

-----------------------------------------------------------------------------
(***************************************************************************)
(* The records of the recent windows.                                      *)
(***************************************************************************)

Corrects == {"NeutralNoOp", "LikelyCorrect", "PolicyRejected", "ExecutionFailed",
             "PredictionHit", "PredictionMiss"}
Outcomes == [type : ActionTypes, target : {"pkg", "own"} \X Names,
             terminal : {"Succeeded", "Failed"} \cup Denied, correctness : Corrects]
Records == [id : Nat, foreground : SUBSET Packages, outcomes : Seq(Outcomes)]

Settled(came) ==
    CASE came = "hit" -> "PredictionHit"
      [] came = "miss" -> "PredictionMiss"
      [] OTHER -> "LikelyCorrect"

\* An outcome that says of an action of window j what the history does.
OutcomeOf(h, o, j, action) ==
    /\ o \in Outcomes /\ o.type = action.type /\ o.target = action.target
    /\ Registered(action) => o.correctness = Settled(Came(h, j, action.target[2]))

\* The record of window j.
RecordOf(h, r, j) ==
    /\ r \in Records /\ r.id = j /\ r.foreground = h[j].input.foreground
    /\ Len(r.outcomes) = Len(h[j].input.actions)
    /\ \A k \in 1..Len(r.outcomes) : OutcomeOf(h, r.outcomes[k], j, h[j].input.actions[k])

\* The feedback is the records of a run of the latest windows.
RecordedIn(m) ==
    /\ m.recent \in Seq(Records) /\ Len(m.recent) <= Len(m.history)
    /\ \A n \in 1..Len(m.recent) :
        RecordOf(m.history, m.recent[n], Len(m.history) - Len(m.recent) + n)

\* record_prewarm_attribution leaves every outcome with the verdict of the
\* windows so far.
LEMMA OutcomeJudged ==
    ASSUME NEW m, m.history \in Histories, m.effectWindows \in Positive, AttributedIn(m),
           NEW x \in Observations, x.effect = m.effectWindows,
           NEW j \in 1..Len(m.history), NEW k \in DOMAIN m.history[j].input.actions,
           NEW o, OutcomeOf(m.history, o, j, m.history[j].input.actions[k])
    PROVE  OutcomeOf(Append(m.history, x), Attribute(o, j, m, x.input.foreground), j,
                     m.history[j].input.actions[k])
<1> DEFINE h == m.history
           g == Append(h, x)
           fg == x.input.foreground
           action == h[j].input.actions[k]
           q == action.target[2]
           G == {w \in Judged(m, fg) : /\ w.id = j
                                       /\ o.type = "PreWarmProcess"
                                       /\ o.target = w.target}
           verdict == Verdict(CHOOSE w \in G : TRUE, fg, m.effectWindows)
           o2 == Attribute(o, j, m, fg)
           J == IF q \in fg THEN "hit"
                ELSE IF Len(h) + 1 - j >= x.effect THEN "miss" ELSE "open"
<1>1. /\ o \in Outcomes /\ o.type = action.type /\ o.target = action.target
      /\ Registered(action) => o.correctness = Settled(Came(h, j, q))
  BY DEF OutcomeOf
<1>2. o2 = IF G = {} THEN o
           ELSE [o EXCEPT !.correctness = IF verdict = "hit" THEN "PredictionHit"
                                          ELSE "PredictionMiss"]
  BY DEF Attribute
<1>3. /\ \A w \in OpenOf(h) : Verdict(Pending(h, w), fg, m.effectWindows) = Judgement(h, x, w)
      /\ Judged(m, fg) = {Pending(h, w) : w \in {w \in OpenOf(h) : Judgement(h, x, w) # "open"}}
  BY JudgedFacts
<1>4. Came(g, j, q) = IF Came(h, j, q) # "open" THEN Came(h, j, q) ELSE J
  BY CameGrows
<1> HIDE DEF g, h, verdict, o2, fg
<1>5. o2 \in Outcomes /\ o2.type = o.type /\ o2.target = o.target
  <2> HIDE DEF G
  <2>1. CASE G = {}
    BY <1>1, <1>2, <2>1
  <2>2. CASE G # {}
    <3>1. \A v \in {"PredictionHit", "PredictionMiss"} :
            LET y == [o EXCEPT !.correctness = v] IN
            y \in Outcomes /\ y.type = o.type /\ y.target = o.target /\ y.correctness = v
      BY <1>1 DEF Outcomes, Corrects
    <3>2. QED  BY <1>2, <2>2, <3>1
  <2>3. QED  BY <2>1, <2>2
<1>6. ASSUME Registered(action) PROVE o2.correctness = Settled(Came(g, j, q))
  <2>0. o.type = "PreWarmProcess"
    BY <1>1, <1>6 DEF Registered
  <2>1. ASSUME NEW w \in OpenOf(h), w[1] = j, ActionOf(h, w).target = action.target
        PROVE  Came(h, j, q) = "open" /\ Judgement(h, x, w) = J
    <3>1. PackageOf(h, w) = q
      BY <2>1 DEF PackageOf
    <3>2. QED  BY <2>1, <3>1 DEF OpenOf, Judgement, fg
  <2>2. ASSUME NEW u \in G
        PROVE  Came(h, j, q) = "open" /\ J # "open" /\ Verdict(u, fg, m.effectWindows) = J
    <3>1. PICK w \in OpenOf(h) : Judgement(h, x, w) # "open" /\ u = Pending(h, w)
      BY <1>3
    <3>2. w[1] = j /\ ActionOf(h, w).target = action.target
      BY <1>1, <3>1 DEF Pending
    <3>3. Came(h, j, q) = "open" /\ Judgement(h, x, w) = J
      BY <2>1, <3>2
    <3>4. QED  BY <1>3, <3>1, <3>3
  <2>3. CASE G # {}
    <3>1. (CHOOSE w \in G : TRUE) \in G
      <4> HIDE DEF G
      <4>1. QED  BY <2>3, Zenon
    <3>2. Came(h, j, q) = "open" /\ J # "open" /\ verdict = J
      <4> HIDE DEF G, J
      <4>1. QED  BY <2>2, <3>1 DEF verdict
    <3>3. J \in {"hit", "miss"}
      BY <3>2
    <3> HIDE DEF J, G
    <3>4. o2.correctness = IF verdict = "hit" THEN "PredictionHit" ELSE "PredictionMiss"
      BY <1>1, <1>2, <2>3 DEF Outcomes
    <3>5. Came(g, j, q) = J
      BY <1>4, <3>2
    <3>6. QED  BY <3>2, <3>3, <3>4, <3>5 DEF Settled
  <2>4. CASE G = {}
    <3>1. o2.correctness = Settled(Came(h, j, q))
      BY <1>1, <1>2, <1>6, <2>4
    <3>2. SUFFICES ASSUME Came(h, j, q) = "open" PROVE J = "open"
      BY <1>4, <3>1
    <3>3. <<j, k>> \in Prewarms(h)
      BY <1>6, PrewarmFacts DEF h
    <3>4. ActionOf(h, <<j, k>>) = action
      BY DEF ActionOf
    <3> DEFINE w == <<j, k>>
    <3>5. w[1] = j
      OBVIOUS
    <3> HIDE DEF w
    <3>6. w \in OpenOf(h)
      BY <3>2, <3>3, <3>4, <3>5 DEF OpenOf, PackageOf, w
    <3>7. Judgement(h, x, w) = J
      BY <2>1, <3>4, <3>5, <3>6 DEF w
    <3>8. ASSUME J # "open" PROVE FALSE
      <4>1. Pending(h, w) \in Judged(m, fg)
        BY <1>3, <3>6, <3>7, <3>8
      <4>2. Pending(h, w).id = j /\ Pending(h, w).target = o.target
        BY <1>1, <3>4, <3>5 DEF Pending, w
      <4>3. Pending(h, w) \in G
        BY <2>0, <4>1, <4>2
      <4>4. QED  BY <2>4, <4>3
    <3>9. QED  BY <3>8
  <2>5. QED  BY <2>3, <2>4
<1>7. QED  BY <1>1, <1>5, <1>6 DEF OutcomeOf, o2, g, h, fg

\* A recent record stays the record of its window.
LEMMA RecordJudged ==
    ASSUME NEW m, m.history \in Histories, m.effectWindows \in Positive, AttributedIn(m),
           NEW x \in Observations, x.effect = m.effectWindows,
           NEW j \in 1..Len(m.history), NEW r, RecordOf(m.history, r, j)
    PROVE  RecordOf(Append(m.history, x), Attributed(r, m, x.input.foreground), j)
<1> DEFINE h == m.history
           g == Append(h, x)
           fg == x.input.foreground
           l == [k \in DOMAIN r.outcomes |-> Attribute(r.outcomes[k], r.id, m, fg)]
           r2 == Attributed(r, m, fg)
<1>1. /\ r \in Records /\ r.id = j /\ r.foreground = h[j].input.foreground
      /\ Len(r.outcomes) = Len(h[j].input.actions)
      /\ \A k \in 1..Len(r.outcomes) : OutcomeOf(h, r.outcomes[k], j, h[j].input.actions[k])
  BY DEF RecordOf
<1>2. r.outcomes \in Seq(Outcomes)
  BY <1>1 DEF Records
<1>3. Len(r.outcomes) \in Nat /\ DOMAIN r.outcomes = 1..Len(r.outcomes)
  BY <1>2, LenProperties
<1>4. g[j] = h[j] /\ h[j] \in Observations
  BY HistoryGrows
<1>5. DOMAIN h[j].input.actions = 1..Len(h[j].input.actions)
  BY <1>4, InputFacts DEF Observations
<1>6. \A k \in 1..Len(r.outcomes) : OutcomeOf(g, l[k], j, h[j].input.actions[k])
  BY <1>1, <1>3, <1>5, OutcomeJudged
<1> HIDE DEF g, h
<1>7. l \in [1..Len(r.outcomes) -> Outcomes]
  <2>1. DOMAIN l = 1..Len(r.outcomes) /\ l = [k \in DOMAIN l |-> l[k]]
    BY <1>3
  <2>2. \A k \in 1..Len(r.outcomes) : l[k] \in Outcomes
    BY <1>6 DEF OutcomeOf
  <2> HIDE DEF l
  <2>3. QED  BY <2>1, <2>2
<1> HIDE DEF l
<1>8. l \in Seq(Outcomes) /\ Len(l) = Len(r.outcomes)
  BY <1>3, <1>7
<1>9. r2 \in Records /\ r2.id = j /\ r2.foreground = r.foreground /\ r2.outcomes = l
  BY <1>1, <1>8 DEF Attributed, Records, l, fg
<1>10. QED  BY <1>1, <1>4, <1>6, <1>8, <1>9 DEF RecordOf, r2, g, h, fg

\* while recent.len() > limit: pop_front.
LEMMA KeptLast ==
    ASSUME NEW S, NEW s \in Seq(S), NEW n \in Positive
    PROVE  LET t == KeepLast(s, n) IN
           /\ t \in Seq(S) /\ Len(t) \in Nat /\ Len(s) \in Nat /\ Len(t) <= Len(s)
           /\ \A i \in 1..Len(t) : t[i] = s[Len(s) - Len(t) + i]
<1> DEFINE t == KeepLast(s, n)
           a == Len(s) - n + 1
<1>1. Len(s) \in Nat /\ n \in Nat /\ n > 0
  BY LenProperties DEF Positive
<1>2. CASE ~(Len(s) > n)
  <2>1. t = s
    BY <1>2 DEF KeepLast
  <2>2. \A i \in 1..Len(s) : Len(s) - Len(s) + i = i
    BY <1>1
  <2>3. QED  BY <1>1, <2>1, <2>2
<1>3. CASE Len(s) > n
  <2>1. t = SubSeq(s, a, Len(s))
    BY <1>3 DEF KeepLast
  <2>2. a \in Int /\ Len(s) \in Int /\ \A i \in a..Len(s) : i \in 1..Len(s)
    BY <1>1, <1>3
  <2>3. \A i \in a..Len(s) : s[i] \in S
    BY <2>2, ElementOfSeq
  <2> HIDE DEF t, a
  <2>4. /\ t \in Seq(S) /\ Len(t) = IF a <= Len(s) THEN Len(s) - a + 1 ELSE 0
        /\ \A i \in 1..(Len(s) - a + 1) : t[i] = s[a + i - 1]
    BY <2>1, <2>2, <2>3, SubSeqProperties
  <2>5. Len(t) = n
    BY <1>1, <1>3, <2>4 DEF a
  <2>6. \A i \in 1..n : i \in 1..(Len(s) - a + 1) /\ a + i - 1 = Len(s) - n + i
    BY <1>1 DEF a
  <2>7. \A i \in 1..Len(t) : t[i] = s[Len(s) - Len(t) + i]
    BY <2>4, <2>5, <2>6
  <2>8. QED  BY <1>1, <1>3, <2>4, <2>5, <2>7 DEF t
<1>4. QED  BY <1>2, <1>3

-----------------------------------------------------------------------------
(***************************************************************************)
(* What holds of a memory, and observe_window.                             *)
(***************************************************************************)

Capped(n) == IF n < MaxCount THEN n ELSE MaxCount

KeysOf(h) == UNION {DOMAIN WindowEntries(h[i].input) : i \in DOMAIN h}
Slowest(h, top) == \A i \in DOMAIN h : h[i].decay <= top

\* An entry has counted all windows, and its score is what they are worth but
\* for what was dropped.
EntryOf(m, k) ==
    /\ k \in DOMAIN m.counts <=> k \in KeysOf(m.history)
    /\ Entry(m.counts, k) = Times(m.history, k)
    /\ Entry(m.momentum, k) <= Worth(m.history, k)
    /\ \A top \in Decays : Slowest(m.history, top) =>
        (Worth(m.history, k) - Entry(m.momentum, k)) * (1000 - top) < 1000 * MinScore

CountedIn(m) ==
    /\ DOMAIN m.momentum \subseteq DOMAIN m.counts
    /\ \A k : k[1] \notin {"hit", "miss"} => EntryOf(m, k)

\* Decays below a half keep all windows but the latest below one unit.
Quick(h) == \A i \in DOMAIN h : 2 * h[i].decay < 1000
Score(m, p) == Entry(m.momentum, <<"foreground", p>>)
LatestIn(m) ==
    Quick(m.history) =>
        \A p : /\ Score(m, p) < 2 * ScoreUnit
               /\ m.history # <<>> =>
                    (Score(m, p) >= ScoreUnit
                        <=> p \in m.history[Len(m.history)].input.foreground)

\* What holds of a memory, in the process or in a whole file: its summary was
\* made from windows it has observed, every one of those was counted, and what
\* it says of them is so.
IsMemory(m) ==
    /\ DOMAIN m = Fields
    /\ m.decay \in Decays /\ m.effectWindows \in Positive
    /\ m.recentLimit \in Positive /\ m.topLimit \in Positive
    /\ m.history \in Histories
    /\ m.windows = Capped(Len(m.history))
    /\ m.summary \in 0..m.windows
    /\ Numbers(m.counts) /\ Numbers(m.momentum)
    /\ AttributedIn(m) /\ RecordedIn(m) /\ CountedIn(m) /\ LatestIn(m)

\* The record of a window, and what observe_window leaves.
NewRecord(h, input) ==
    [id |-> Len(h) + 1, foreground |-> input.foreground,
     outcomes |-> [k \in DOMAIN input.actions |->
        [type |-> input.actions[k].type, target |-> input.actions[k].target,
         terminal |-> input.actions[k].terminal,
         correctness |-> InferCorrectness(input.actions[k])]]]

JudgedRecords(m, fg) == [i \in DOMAIN m.recent |-> Attributed(m.recent[i], m, fg)]

Follows(o, m, input) ==
    LET judged == JudgedEntries(m, input.foreground)
        added == WindowEntries(input)
    IN  /\ DOMAIN o = Fields
        /\ o.decay = m.decay /\ o.effectWindows = m.effectWindows
        /\ o.recentLimit = m.recentLimit /\ o.topLimit = m.topLimit
        /\ o.windows = SaturatingAdd(m.windows) /\ o.summary = m.summary
        /\ o.history = Append(m.history, Observation(m, input))
        /\ Numbers(o.counts) /\ Numbers(o.momentum)
        /\ o.pending = {[w EXCEPT !.observed = @ + 1] :
                            w \in m.pending \ Judged(m, input.foreground)}
                       \cup {[id |-> Len(m.history) + 1, nth |-> k,
                              target |-> input.actions[k].target,
                              package |-> input.actions[k].target[2], observed |-> 0] :
                                k \in {k \in DOMAIN input.actions : Registered(input.actions[k])}}
        /\ o.recent = KeepLast(Append(JudgedRecords(m, input.foreground),
                                      NewRecord(m.history, input)), m.recentLimit)
        /\ DOMAIN o.counts = DOMAIN m.counts \cup DOMAIN judged \cup DOMAIN added
        /\ DOMAIN o.momentum \subseteq DOMAIN m.momentum \cup DOMAIN judged \cup DOMAIN added
        /\ \A k : Entry(o.counts, k) = Entry(m.counts, k) + Entry(judged, k) + Entry(added, k)
        /\ \A k : Entry(o.momentum, k) =
                    Faded(Entry(m.momentum, k) + ScoreUnit * Entry(judged, k), m.decay)
                    + ScoreUnit * Entry(added, k)

\* The judged pre-warms add to tables of their own.
LEMMA JudgedAdd ==
    ASSUME NEW m, IsMemory(m), NEW input \in Inputs
    PROVE  LET x == Observation(m, input)
               h == m.history
               judged == JudgedEntries(m, input.foreground)
           IN  /\ x \in Observations /\ x.input = input /\ x.decay = m.decay
               /\ x.effect = m.effectWindows
               /\ Numbers(judged)
               /\ \A k : k[1] \notin {"hit", "miss"} =>
                            k \notin DOMAIN judged /\ Entry(judged, k) = 0
               /\ \A p : \A v \in {"hit", "miss"} :
                    Entry(judged, <<v, p>>) =
                        Cardinality({w \in OpenOf(h) : /\ PackageOf(h, w) = p
                                                       /\ Judgement(h, x, w) = v})
<1> DEFINE x == Observation(m, input)
           h == m.history
           judged == JudgedEntries(m, input.foreground)
<1>1. /\ m.decay \in Decays /\ m.effectWindows \in Positive /\ h \in Histories /\ AttributedIn(m)
  BY DEF IsMemory
<1>2. x \in Observations
  BY <1>1, ObservationTyped
<1>3. x.input = input /\ x.effect = m.effectWindows /\ x.decay = m.decay
  BY DEF Observation
<1> HIDE DEF x
<1>4. LET e == JudgedEntries(m, x.input.foreground)
      IN  /\ \A k \in DOMAIN e : k[1] \in {"hit", "miss"} /\ e[k] \in Nat
          /\ \A p : \A v \in {"hit", "miss"} :
               Entry(e, <<v, p>>) =
                 Cardinality({w \in OpenOf(h) : PackageOf(h, w) = p /\ Judgement(h, x, w) = v})
  BY <1>1, <1>2, <1>3, JudgedCounts
<1>5. /\ \A k \in DOMAIN judged : k[1] \in {"hit", "miss"} /\ judged[k] \in Nat
      /\ \A p : \A v \in {"hit", "miss"} :
               Entry(judged, <<v, p>>) =
                 Cardinality({w \in OpenOf(h) : PackageOf(h, w) = p /\ Judgement(h, x, w) = v})
  BY <1>3, <1>4
<1> HIDE DEF judged, h
<1>6. \A k : k[1] \notin {"hit", "miss"} => k \notin DOMAIN judged /\ Entry(judged, k) = 0
  BY <1>5 DEF Entry
<1>7. Numbers(judged)
  BY <1>5 DEF Numbers
<1>8. QED  BY <1>2, <1>3, <1>5, <1>6, <1>7 DEF judged, h, x

\* observe_window, by what it does to each field of the memory.
LEMMA WindowFollows ==
    ASSUME NEW m, IsMemory(m), NEW input \in Inputs
    PROVE  Follows(ObserveWindow(m, input), m, input)
<1> DEFINE o == ObserveWindow(m, input)
           c == Counted(m, input)
           acts == input.actions
           id == Len(m.history) + 1
           new == {[id |-> id, nth |-> k, target |-> acts[k].target,
                    package |-> acts[k].target[2], observed |-> 0] :
                        k \in {k \in DOMAIN acts : Registered(acts[k])}}
<1>1. DOMAIN m = Fields /\ m.decay \in Decays /\ Numbers(m.counts) /\ Numbers(m.momentum)
  BY DEF IsMemory
<1>2. Numbers(JudgedEntries(m, input.foreground))
  BY JudgedAdd
<1>3. LET fg == input.foreground
          judged == JudgedEntries(m, fg)
          added == WindowEntries(input)
      IN  /\ SameRest(c, m)
          /\ c.pending = {[w EXCEPT !.observed = @ + 1] : w \in m.pending \ Judged(m, fg)}
          /\ c.recent = JudgedRecords(m, fg)
          /\ Numbers(c.counts) /\ Numbers(c.momentum)
          /\ DOMAIN c.counts = DOMAIN m.counts \cup DOMAIN judged \cup DOMAIN added
          /\ DOMAIN c.momentum \subseteq DOMAIN m.momentum \cup DOMAIN judged \cup DOMAIN added
          /\ \A k : Entry(c.counts, k) =
                        Entry(m.counts, k) + Entry(judged, k) + Entry(added, k)
          /\ \A k : Entry(c.momentum, k) =
                        Faded(Entry(m.momentum, k) + ScoreUnit * Entry(judged, k), m.decay)
                        + ScoreUnit * Entry(added, k)
  BY <1>1, <1>2, CountedParts DEF JudgedRecords
<1> HIDE DEF c
<1>4. SameRest(c, m)
  BY <1>3
<1>5. /\ DOMAIN o = Fields
      /\ o.decay = c.decay /\ o.effectWindows = c.effectWindows
      /\ o.recentLimit = c.recentLimit /\ o.topLimit = c.topLimit
      /\ o.windows = SaturatingAdd(c.windows) /\ o.summary = c.summary
      /\ o.history = Append(c.history, [input |-> input, decay |-> c.decay,
                                        effect |-> c.effectWindows])
      /\ o.counts = c.counts /\ o.momentum = c.momentum
      /\ o.pending = c.pending \cup new
      /\ o.recent = KeepLast(Append(c.recent, NewRecord(m.history, input)), c.recentLimit)
  <2>1. \A w, r, p, t : LET y == [c EXCEPT !.windows = w, !.recent = r, !.pending = p,
                                           !.history = t]
                        IN  /\ DOMAIN y = Fields /\ y.decay = c.decay
                            /\ y.effectWindows = c.effectWindows
                            /\ y.recentLimit = c.recentLimit /\ y.topLimit = c.topLimit
                            /\ y.summary = c.summary /\ y.windows = w /\ y.history = t
                            /\ y.counts = c.counts /\ y.momentum = c.momentum
                            /\ y.pending = p /\ y.recent = r
    BY <1>4 DEF Fields, SameRest
  <2>2. c.history = m.history
    BY <1>4 DEF SameRest
  <2>3. o = [c EXCEPT !.windows = SaturatingAdd(c.windows),
                      !.recent = KeepLast(Append(c.recent, NewRecord(m.history, input)),
                                          c.recentLimit),
                      !.pending = c.pending \cup new,
                      !.history = Append(c.history, [input |-> input, decay |-> c.decay,
                                                     effect |-> c.effectWindows])]
    BY <2>2 DEF ObserveWindow, c, NewRecord
  <2> HIDE DEF o, new
  <2>4. QED  BY <2>1, <2>3
<1>6. /\ DOMAIN o = Fields
      /\ o.decay = m.decay /\ o.effectWindows = m.effectWindows
      /\ o.recentLimit = m.recentLimit /\ o.topLimit = m.topLimit
      /\ o.windows = SaturatingAdd(m.windows) /\ o.summary = m.summary
      /\ o.history = Append(m.history, Observation(m, input))
  BY <1>4, <1>5 DEF SameRest, Observation
<1>7. c.recentLimit = m.recentLimit
  BY <1>4 DEF SameRest
<1> HIDE DEF o
<1>8. QED  BY <1>3, <1>5, <1>6, <1>7 DEF Follows, o

\* The attribution, one window on.
LEMMA AttributedAfter ==
    ASSUME NEW m, IsMemory(m), NEW input \in Inputs, NEW o, Follows(o, m, input)
    PROVE  AttributedIn(o)
<1> DEFINE x == Observation(m, input)
           h == m.history
           g == Append(h, x)
           judged == JudgedEntries(m, input.foreground)
           added == WindowEntries(input)
           acts == input.actions
<1>1. /\ m.effectWindows \in Positive /\ h \in Histories /\ AttributedIn(m)
      /\ Numbers(m.counts)
  BY DEF IsMemory
<1>2. /\ x \in Observations /\ x.input = input /\ x.effect = m.effectWindows
      /\ Numbers(judged)
      /\ \A p : \A v \in {"hit", "miss"} :
            Entry(judged, <<v, p>>) =
                Cardinality({w \in OpenOf(h) : PackageOf(h, w) = p /\ Judgement(h, x, w) = v})
  BY JudgedAdd
<1>3. o.history = g
  BY DEF Follows
<1> HIDE DEF x
<1>4. o.pending = {Pending(g, w) : w \in OpenOf(g)}
  <2> DEFINE old == {[w EXCEPT !.observed = @ + 1] :
                        w \in m.pending \ Judged(m, input.foreground)}
             new == {[id |-> Len(h) + 1, nth |-> k, target |-> acts[k].target,
                      package |-> acts[k].target[2], observed |-> 0] :
                        k \in {k \in DOMAIN acts : Registered(acts[k])}}
             O == {w \in OpenOf(h) : Judgement(h, x, w) = "open"}
             N == NewPrewarms(h, x)
  <2>1. o.pending = old \cup new
    BY DEF Follows
  <2>2. old = {Pending(g, w) : w \in O}
    BY <1>1, <1>2, StillPending
  <2>3. OpenOf(g) = O \cup N
    BY <1>1, <1>2, VerdictsGrow
  <2>4. \A w \in N : /\ ActionOf(g, w) = acts[w[2]] /\ w[1] = Len(h) + 1
                     /\ w[2] \in DOMAIN acts /\ Registered(acts[w[2]])
    BY <1>1, <1>2, PrewarmsGrow
  <2>5. Len(g) = Len(h) + 1 /\ Len(h) \in Nat
    BY <1>1, <1>2, HistoryGrows
  <2>6. N = {<<Len(h) + 1, k>> : k \in {k \in DOMAIN acts : Registered(acts[k])}}
    BY <1>2 DEF NewPrewarms
  <2> HIDE DEF g, h, N
  <2>7. \A w \in N : Pending(g, w) =
            [id |-> Len(h) + 1, nth |-> w[2], target |-> acts[w[2]].target,
             package |-> acts[w[2]].target[2], observed |-> 0]
    <3>1. \A w \in N : Len(g) - w[1] = 0
      BY <2>4, <2>5
    <3>2. QED  BY <2>4, <3>1 DEF Pending, PackageOf
  <2>8. new = {Pending(g, w) : w \in N}
    <3> DEFINE K == {k \in DOMAIN acts : Registered(acts[k])}
               fresh(k) == [id |-> Len(h) + 1, nth |-> k, target |-> acts[k].target,
                            package |-> acts[k].target[2], observed |-> 0]
               at(k) == <<Len(h) + 1, k>>
    <3>1. N = {at(k) : k \in K} /\ new = {fresh(k) : k \in K}
      BY <2>6
    <3>2. \A k \in K : at(k) \in N /\ at(k)[2] = k
      BY <3>1
    <3>3. \A k \in K : Pending(g, at(k)) = fresh(at(k)[2])
      BY <2>7, <3>2
    <3> HIDE DEF K, fresh, at, new
    <3>4. \A k \in K : Pending(g, at(k)) = fresh(k)
      BY <3>2, <3>3
    <3>5. QED  BY <3>1, <3>4
  <2> HIDE DEF old, new, O
  <2>9. QED  BY <2>1, <2>2, <2>3, <2>8
<1>5. ASSUME NEW p, NEW v \in {"hit", "miss"}
      PROVE  Entry(o.counts, <<v, p>>) = Cardinality(With(g, p, v))
  <2> DEFINE J == {w \in OpenOf(h) : PackageOf(h, w) = p /\ Judgement(h, x, w) = v}
             W == With(h, p, v)
             k == <<v, p>>
  <2>1. Entry(o.counts, k) = Entry(m.counts, k) + Entry(judged, k) + Entry(added, k)
    BY DEF Follows
  <2>2. Entry(added, k) = 0
    <3>1. \A j \in DOMAIN added : j[1] \notin {"hit", "miss"}
      BY WindowAdds
    <3>2. k[1] = v
      OBVIOUS
    <3> HIDE DEF k, added
    <3>3. k \notin DOMAIN added
      BY <3>1, <3>2
    <3>4. QED  BY <3>3 DEF Entry
  <2>3. Entry(judged, k) = Cardinality(J)
    BY <1>2
  <2>4. Entry(m.counts, k) = Cardinality(W)
    BY <1>1 DEF AttributedIn
  <2>5. IsFiniteSet(W) /\ Cardinality(W) \in Nat /\ IsFiniteSet(OpenOf(h))
    BY <1>1, PrewarmsFinite
  <2>6. IsFiniteSet(J) /\ Cardinality(J) \in Nat
    BY <2>5, FS_Subset, FS_CardinalityType
  <2>7. With(g, p, v) = W \cup J
    BY <1>1, <1>2, VerdictsGrow
  <2>8. \A w \in W : w \notin J
    BY DEF With, OpenOf
  <2> HIDE DEF W, J, k, g
  <2>9. Cardinality(W \cup J) = Cardinality(W) + Cardinality(J)
    BY <2>5, <2>6, <2>8, DisjointUnion
  <2>10. QED  BY <2>1, <2>2, <2>3, <2>4, <2>5, <2>6, <2>7, <2>9 DEF k
<1>6. QED  BY <1>3, <1>4, <1>5 DEF AttributedIn

\* The record of a window says what the audit said of its actions.
LEMMA NewRecordOf ==
    ASSUME NEW h \in Histories, NEW x \in Observations
    PROVE  RecordOf(Append(h, x), NewRecord(h, x.input), Len(h) + 1)
<1> DEFINE g == Append(h, x)
           acts == x.input.actions
           r == NewRecord(h, x.input)
           l == [k \in DOMAIN acts |->
                    [type |-> acts[k].type, target |-> acts[k].target,
                     terminal |-> acts[k].terminal, correctness |-> InferCorrectness(acts[k])]]
<1>1. g \in Histories /\ Len(g) = Len(h) + 1 /\ g[Len(h) + 1] = x /\ Len(h) \in Nat
  BY HistoryGrows
<1>2. /\ x.input.foreground \subseteq Packages /\ Len(acts) \in Nat
      /\ DOMAIN acts = 1..Len(acts) /\ \A n \in DOMAIN acts : acts[n] \in AuditedActions
  BY InputFacts DEF Observations
<1>3. r = [id |-> Len(h) + 1, foreground |-> x.input.foreground, outcomes |-> l]
  BY DEF NewRecord
<1>4. \A p : Came(g, Len(h) + 1, p) = "open"
  <2> HIDE DEF g
  <2>1. \A p : Came(g, Len(g), p) = "open"
    BY <1>1, CameNow
  <2>2. QED  BY <1>1, <2>1
<1> HIDE DEF g, r
<1>5. ASSUME NEW k \in 1..Len(acts)
      PROVE  OutcomeOf(g, l[k], Len(h) + 1, acts[k])
  <2> DEFINE a == acts[k]
             y == [type |-> a.type, target |-> a.target, terminal |-> a.terminal,
                   correctness |-> InferCorrectness(a)]
  <2>1. a \in AuditedActions /\ l[k] = y
    BY <1>2
  <2> HIDE DEF a, l
  <2>2. /\ a.type \in ActionTypes /\ a.target \in {"pkg", "own"} \X Names
        /\ a.terminal \in {"Succeeded", "Failed"} \cup Denied
    BY <2>1 DEF AuditedActions
  <2>3. InferCorrectness(a) \in Corrects
    BY <2>2 DEF InferCorrectness, Corrects
  <2>4. Registered(a) => InferCorrectness(a) = "LikelyCorrect"
    BY DEF Registered, InferCorrectness, Denied
  <2>5. y \in Outcomes /\ y.type = a.type /\ y.target = a.target
        /\ y.correctness = InferCorrectness(a)
    BY <2>2, <2>3 DEF Outcomes
  <2>6. Settled("open") = "LikelyCorrect"
    BY DEF Settled
  <2> HIDE DEF y
  <2>7. QED  BY <1>4, <2>1, <2>4, <2>5, <2>6 DEF OutcomeOf, a
<1>6. l \in Seq(Outcomes) /\ Len(l) = Len(acts)
  <2>1. DOMAIN l = 1..Len(acts) /\ l = [k \in DOMAIN l |-> l[k]]
    BY <1>2
  <2>2. \A k \in 1..Len(acts) : l[k] \in Outcomes
    BY <1>5 DEF OutcomeOf
  <2> HIDE DEF l
  <2>3. l \in [1..Len(acts) -> Outcomes]
    BY <2>1, <2>2
  <2>4. QED  BY <1>2, <2>3
<1> HIDE DEF l
<1>7. r \in Records /\ r.id = Len(h) + 1 /\ r.foreground = x.input.foreground /\ r.outcomes = l
  BY <1>1, <1>2, <1>3, <1>6 DEF Records
<1>8. QED  BY <1>1, <1>5, <1>6, <1>7 DEF RecordOf, g, r

\* Dropping the oldest records leaves a run of the latest windows.
LEMMA RunKept ==
    ASSUME NEW h, Len(h) \in Nat, NEW s \in Seq(Records), Len(s) <= Len(h), NEW n \in Positive,
           \A i \in 1..Len(s) : RecordOf(h, s[i], Len(h) - Len(s) + i)
    PROVE  LET t == KeepLast(s, n) IN
           /\ t \in Seq(Records) /\ Len(t) <= Len(h)
           /\ \A i \in 1..Len(t) : RecordOf(h, t[i], Len(h) - Len(t) + i)
<1> DEFINE t == KeepLast(s, n)
<1>1. /\ t \in Seq(Records) /\ Len(t) \in Nat /\ Len(s) \in Nat /\ Len(t) <= Len(s)
      /\ \A i \in 1..Len(t) : t[i] = s[Len(s) - Len(t) + i]
  BY KeptLast
<1> HIDE DEF t
<1>2. ASSUME NEW i \in 1..Len(t) PROVE RecordOf(h, t[i], Len(h) - Len(t) + i)
  <2> DEFINE j == Len(s) - Len(t) + i
  <2>1. j \in 1..Len(s) /\ Len(h) - Len(s) + j = Len(h) - Len(t) + i
    BY <1>1
  <2>2. RecordOf(h, s[j], Len(h) - Len(s) + j)
    <3> HIDE DEF j
    <3>1. QED  BY <2>1
  <2>3. QED  BY <1>1, <2>1, <2>2
<1>3. QED  BY <1>1, <1>2 DEF t

\* The feedback, one window on.
LEMMA RecordedAfter ==
    ASSUME NEW m, IsMemory(m), NEW input \in Inputs, NEW o, Follows(o, m, input)
    PROVE  RecordedIn(o)
<1> DEFINE x == Observation(m, input)
           h == m.history
           g == Append(h, x)
           l == JudgedRecords(m, input.foreground)
           r == NewRecord(h, input)
           s == Append(l, r)
           n == Len(m.recent)
<1>1. /\ m.effectWindows \in Positive /\ h \in Histories /\ AttributedIn(m)
      /\ m.recentLimit \in Positive
      /\ m.recent \in Seq(Records) /\ n <= Len(h)
      /\ \A i \in 1..n : RecordOf(h, m.recent[i], Len(h) - n + i)
  BY DEF IsMemory, RecordedIn
<1>2. x \in Observations /\ x.input = input /\ x.effect = m.effectWindows
  BY JudgedAdd
<1>3. o.history = g /\ o.recent = KeepLast(s, m.recentLimit)
  BY DEF Follows
<1>4. n \in Nat /\ DOMAIN m.recent = 1..n
  BY <1>1, LenProperties
<1> HIDE DEF x
<1>5. Len(g) = Len(h) + 1 /\ Len(h) \in Nat
  BY <1>1, <1>2, HistoryGrows
<1>6. ASSUME NEW i \in 1..n PROVE RecordOf(g, l[i], Len(h) - n + i)
  <2> DEFINE j == Len(h) - n + i
  <2>1. RecordOf(h, m.recent[i], j)
    BY <1>1
  <2>n. j \in 1..Len(h)
    <3> HIDE DEF h, n
    <3>1. QED  BY <1>1, <1>4, <1>5
  <2>2. l[i] = Attributed(m.recent[i], m, x.input.foreground)
    BY <1>2, <1>4 DEF JudgedRecords
  <2> HIDE DEF j
  <2>3. RecordOf(g, Attributed(m.recent[i], m, x.input.foreground), j)
    BY <1>1, <1>2, <2>1, <2>n, RecordJudged
  <2>4. QED  BY <2>2, <2>3 DEF j
<1>7. RecordOf(g, r, Len(h) + 1)
  BY <1>1, <1>2, NewRecordOf
<1>8. l \in Seq(Records) /\ Len(l) = n
  <2>1. DOMAIN l = 1..n /\ l = [i \in DOMAIN l |-> l[i]]
    BY <1>4 DEF JudgedRecords
  <2>2. \A i \in 1..n : l[i] \in Records
    BY <1>6 DEF RecordOf
  <2> HIDE DEF l
  <2>3. l \in [1..n -> Records]
    BY <2>1, <2>2
  <2>4. QED  BY <1>4, <2>3
<1>9. r \in Records
  BY <1>7 DEF RecordOf
<1> HIDE DEF l, r, g, n
<1>10. /\ s \in Seq(Records) /\ Len(s) = n + 1 /\ s[n + 1] = r
       /\ \A i \in 1..n : s[i] = l[i]
  BY <1>8, <1>9, AppendProperties
<1> HIDE DEF s
<1>11. ASSUME NEW i \in 1..Len(s) PROVE RecordOf(g, s[i], Len(g) - Len(s) + i)
  <2>1. CASE i \in 1..n
    <3>1. Len(g) - Len(s) + i = Len(h) - n + i
      BY <1>4, <1>5, <1>10, <2>1
    <3>2. QED  BY <1>6, <1>10, <2>1, <3>1
  <2>2. CASE i = n + 1
    <3>1. Len(g) - Len(s) + i = Len(h) + 1
      <4> HIDE DEF h
      <4>1. QED  BY <1>4, <1>5, <1>10, <2>2
    <3>2. QED  BY <1>7, <1>10, <2>2, <3>1
  <2>3. QED  BY <1>4, <1>10, <2>1, <2>2
<1>12. Len(s) <= Len(g) /\ Len(g) \in Nat
  BY <1>1, <1>4, <1>5, <1>10
<1>13. LET t == KeepLast(s, m.recentLimit) IN
       /\ t \in Seq(Records) /\ Len(t) <= Len(g)
       /\ \A i \in 1..Len(t) : RecordOf(g, t[i], Len(g) - Len(t) + i)
  BY <1>1, <1>10, <1>11, <1>12, RunKept
<1>14. QED  BY <1>3, <1>13 DEF RecordedIn

\* The entries of a history with one more window.
LEMMA KeysGrow ==
    ASSUME NEW h \in Histories, NEW x \in Observations
    PROVE  /\ KeysOf(Append(h, x)) = KeysOf(h) \cup DOMAIN WindowEntries(x.input)
           /\ \A top : Slowest(Append(h, x), top) <=> Slowest(h, top) /\ x.decay <= top
           /\ Quick(Append(h, x)) <=> Quick(h) /\ 2 * x.decay < 1000
<1> DEFINE g == Append(h, x)
           n == Len(h)
<1>1. /\ n \in Nat /\ DOMAIN h = 1..n /\ DOMAIN g = 1..(n + 1)
      /\ \A j \in 1..n : g[j] = h[j]
      /\ g[n + 1] = x
  BY HistoryGrows
<1>2. \A i : i \in 1..(n + 1) <=> i \in 1..n \/ i = n + 1
  BY <1>1
<1> HIDE DEF g, n
<1>3. KeysOf(g) = KeysOf(h) \cup DOMAIN WindowEntries(x.input)
  BY <1>1, <1>2 DEF KeysOf
<1>4. \A top : Slowest(g, top) <=> Slowest(h, top) /\ x.decay <= top
  BY <1>1, <1>2 DEF Slowest
<1>5. Quick(g) <=> Quick(h) /\ 2 * x.decay < 1000
  BY <1>1, <1>2 DEF Quick
<1>6. QED  BY <1>3, <1>4, <1>5 DEF g

\* The counters, one window on.
LEMMA CountedAfter ==
    ASSUME NEW m, IsMemory(m), NEW input \in Inputs, NEW o, Follows(o, m, input)
    PROVE  CountedIn(o)
<1> DEFINE x == Observation(m, input)
           h == m.history
           g == Append(h, x)
           judged == JudgedEntries(m, input.foreground)
           added == WindowEntries(input)
<1>1. /\ h \in Histories /\ CountedIn(m) /\ Numbers(m.counts) /\ Numbers(m.momentum)
      /\ m.decay \in Decays
  BY DEF IsMemory
<1>2. /\ x \in Observations /\ x.input = input /\ x.decay = m.decay
      /\ Numbers(judged)
      /\ \A k : k[1] \notin {"hit", "miss"} => k \notin DOMAIN judged /\ Entry(judged, k) = 0
  BY JudgedAdd
<1>3. /\ o.history = g
      /\ DOMAIN o.counts = DOMAIN m.counts \cup DOMAIN judged \cup DOMAIN added
      /\ DOMAIN o.momentum \subseteq DOMAIN m.momentum \cup DOMAIN judged \cup DOMAIN added
      /\ \A k : Entry(o.counts, k) = Entry(m.counts, k) + Entry(judged, k) + Entry(added, k)
      /\ \A k : Entry(o.momentum, k) =
                    Faded(Entry(m.momentum, k) + ScoreUnit * Entry(judged, k), m.decay)
                    + ScoreUnit * Entry(added, k)
  BY DEF Follows
<1> HIDE DEF x
<1>4. /\ KeysOf(g) = KeysOf(h) \cup DOMAIN added
      /\ \A top : Slowest(g, top) <=> Slowest(h, top) /\ m.decay <= top
  BY <1>1, <1>2, KeysGrow
<1>5. \A k : Times(g, k) = Times(h, k) + Entry(added, k)
  BY <1>1, <1>2, TimesGrow
<1>6. \A k : Worth(g, k) = (Worth(h, k) * m.decay) \div 1000 + ScoreUnit * Entry(added, k)
  BY <1>1, <1>2, WorthGrows DEF Discount
<1>7. Numbers(added)
  BY WindowAdds
<1>8. Slowest(h, 999)
  <2>1. \A i \in DOMAIN h : h[i] \in Observations
    BY <1>1, LenProperties, ElementOfSeq DEF Histories
  <2>2. \A y \in Observations : y.decay <= 999
    BY DEF Observations, Decays
  <2> HIDE DEF h
  <2>3. QED  BY <2>1, <2>2 DEF Slowest
<1> HIDE DEF g, h, judged, added
<1>9. DOMAIN o.momentum \subseteq DOMAIN o.counts
  BY <1>1, <1>3 DEF CountedIn
<1>10. ASSUME NEW k, k[1] \notin {"hit", "miss"} PROVE EntryOf(o, k)
  <2> DEFINE e == Worth(h, k)
             v == Entry(m.momentum, k)
             a == Entry(added, k)
             e2 == (e * m.decay) \div 1000
             v2 == Faded(v, m.decay)
  <2>1. /\ k \in DOMAIN m.counts <=> k \in KeysOf(h)
        /\ Entry(m.counts, k) = Times(h, k) /\ v <= e
        /\ \A top \in Decays : Slowest(h, top) => (e - v) * (1000 - top) < 1000 * MinScore
    BY <1>1, <1>10 DEF CountedIn, EntryOf, h
  <2>2. k \notin DOMAIN judged /\ Entry(judged, k) = 0
    BY <1>2, <1>10
  <2>3. k \in DOMAIN o.counts <=> k \in KeysOf(g)
    BY <1>3, <1>4, <2>1, <2>2
  <2>4. e \in Nat /\ v \in Nat /\ a \in Nat /\ Entry(m.counts, k) \in Nat
    BY <1>1, <1>7, WorthIsNatural, EntryIsNatural
  <2>5. Entry(o.counts, k) = Times(g, k)
    <3>1. Entry(o.counts, k) = Entry(m.counts, k) + 0 + a
      BY <1>3, <2>2
    <3>2. Times(g, k) = Entry(m.counts, k) + a
      BY <1>5, <2>1
    <3> HIDE DEF a
    <3>3. QED  BY <2>4, <3>1, <3>2
  <2>6. Entry(o.momentum, k) = v2 + ScoreUnit * a
    <3>1. v + ScoreUnit * 0 = v
      BY <2>4 DEF ScoreUnit
    <3>2. QED  BY <1>3, <2>2, <3>1
  <2>7. Worth(g, k) = e2 + ScoreUnit * a
    BY <1>6
  <2> HIDE DEF e, v, a
  <2>8. e2 \in Nat /\ v2 \in Nat /\ ScoreUnit * a \in Nat
    <3>1. m.decay \in Nat
      BY <1>1 DEF Decays
    <3>2. e * m.decay \in Nat
      BY <2>4, <3>1, ProductIsNatural
    <3>3. e2 \in Nat
      BY <3>2
    <3>4. v2 \in Nat
      BY <1>1, <2>4, FadedIsNatural
    <3>5. QED  BY <2>4, <3>3, <3>4 DEF ScoreUnit
  <2>9. ASSUME NEW top \in Decays, Slowest(h, top), m.decay <= top
        PROVE  v2 <= e2 /\ (e2 - v2) * (1000 - top) < 1000 * MinScore
    <3>1. (e - v) * (1000 - top) < 1000 * MinScore
      BY <2>1, <2>9
    <3>2. QED  BY <1>1, <2>1, <2>4, <2>9, <3>1, LossBounded
  <2> HIDE DEF e2, v2
  <2>10. 999 \in Decays /\ m.decay <= 999
    BY <1>1 DEF Decays
  <2>11. v2 <= e2
    BY <1>8, <2>9, <2>10
  <2>12. Entry(o.momentum, k) <= Worth(g, k) /\ Worth(g, k) - Entry(o.momentum, k) = e2 - v2
    BY <2>6, <2>7, <2>8, <2>11
  <2>13. ASSUME NEW top \in Decays, Slowest(g, top)
         PROVE  (Worth(g, k) - Entry(o.momentum, k)) * (1000 - top) < 1000 * MinScore
    BY <1>4, <2>9, <2>12, <2>13
  <2>14. QED  BY <1>3, <2>3, <2>5, <2>12, <2>13 DEF EntryOf
<1>11. QED  BY <1>9, <1>10 DEF CountedIn

\* A score below two units is below one after a decay below a half.
LEMMA FadesBelow ==
    ASSUME NEW v \in Nat, v < 2 * ScoreUnit, NEW decay \in Decays, 2 * decay < 1000
    PROVE  Faded(v, decay) < ScoreUnit
<1>1. decay \in Nat /\ decay <= 499 /\ v <= 19999
  BY DEF Decays, ScoreUnit
<1>m. \A x, y, z \in Nat : x <= y => x * z <= y * z
  OBVIOUS
<1>2. v * decay <= 19999 * decay /\ v * decay \in Nat
  BY <1>1, <1>m, ProductIsNatural
<1>3. 19999 * decay <= 19999 * 499
  BY <1>1
<1>4. v * decay < 10000 * 1000
  BY <1>1, <1>2, <1>3
<1>5. (v * decay) \div 1000 < 10000
  <2> DEFINE a == v * decay
  <2> HIDE DEF a
  <2>1. a \in Nat /\ a < 10000 * 1000
    BY <1>2, <1>4 DEF a
  <2>2. a \div 1000 < 10000
    BY <2>1
  <2>3. QED  BY <2>2 DEF a
<1>6. QED  BY <1>5 DEF Faded, ScoreUnit, MinScore

\* The foreground scores, one window on.
LEMMA LatestAfter ==
    ASSUME NEW m, IsMemory(m), NEW input \in Inputs, NEW o, Follows(o, m, input)
    PROVE  LatestIn(o)
<1> DEFINE x == Observation(m, input)
           h == m.history
           g == Append(h, x)
           judged == JudgedEntries(m, input.foreground)
           added == WindowEntries(input)
<1>1. /\ h \in Histories /\ LatestIn(m) /\ Numbers(m.momentum) /\ m.decay \in Decays
  BY DEF IsMemory
<1>2. /\ x \in Observations /\ x.input = input /\ x.decay = m.decay
      /\ \A k : k[1] \notin {"hit", "miss"} => k \notin DOMAIN judged /\ Entry(judged, k) = 0
  BY JudgedAdd
<1>3. /\ o.history = g
      /\ \A k : Entry(o.momentum, k) =
                    Faded(Entry(m.momentum, k) + ScoreUnit * Entry(judged, k), m.decay)
                    + ScoreUnit * Entry(added, k)
  BY DEF Follows
<1> HIDE DEF x
<1>4. Quick(g) <=> Quick(h) /\ 2 * m.decay < 1000
  BY <1>1, <1>2, KeysGrow
<1>5. g[Len(g)].input.foreground = input.foreground
  BY <1>1, <1>2, HistoryGrows
<1> HIDE DEF judged, added, g
<1>6. SUFFICES ASSUME Quick(g), NEW p
               PROVE  /\ Score(o, p) < 2 * ScoreUnit
                      /\ Score(o, p) >= ScoreUnit <=> p \in input.foreground
  BY <1>3, <1>5 DEF LatestIn
<1> DEFINE k == <<"foreground", p>>
           v == Entry(m.momentum, k)
           f == Faded(v, m.decay)
           a == IF p \in input.foreground THEN 1 ELSE 0
<1>7. v < 2 * ScoreUnit /\ 2 * m.decay < 1000
  BY <1>1, <1>4, <1>6 DEF LatestIn, Score
<1>8. v \in Nat
  BY <1>1, EntryIsNatural
<1>9. Entry(judged, k) = 0
  <2>1. k[1] \notin {"hit", "miss"}
    OBVIOUS
  <2> HIDE DEF k
  <2>2. QED  BY <1>2, <2>1
<1>10. Entry(added, k) = a
  BY WindowAdds DEF added
<1>11. Score(o, p) = f + ScoreUnit * a
  <2>1. Score(o, p) = Entry(o.momentum, k)
    BY DEF Score
  <2>2. v + ScoreUnit * 0 = v
    BY <1>8 DEF ScoreUnit
  <2> HIDE DEF k, a
  <2>3. QED  BY <1>3, <1>9, <1>10, <2>1, <2>2
<1> HIDE DEF v, k
<1>12. f \in Nat /\ f < ScoreUnit
  BY <1>1, <1>7, <1>8, FadedIsNatural, FadesBelow
<1> HIDE DEF f
<1>13. QED  BY <1>11, <1>12 DEF ScoreUnit

\* A fresh memory has seen nothing and says so.
LEMMA FreshSaysNothing ==
    ASSUME NEW config
    PROVE  LET m == Fresh(config) IN
           /\ DOMAIN m = Fields /\ m.decay = config.decay /\ m.effectWindows = config.effect
           /\ m.recentLimit = config.recent /\ m.topLimit = config.top
           /\ m.windows = 0 /\ m.summary = 0 /\ m.history = <<>>
           /\ m.history \in Histories /\ Len(m.history) = 0
           /\ Numbers(m.counts) /\ Numbers(m.momentum)
           /\ AttributedIn(m) /\ RecordedIn(m) /\ CountedIn(m) /\ LatestIn(m)
<1> DEFINE m == Fresh(config)
           none == <<>>
<1>1. /\ DOMAIN m = Fields /\ m.decay = config.decay /\ m.effectWindows = config.effect
      /\ m.recentLimit = config.recent /\ m.topLimit = config.top
      /\ m.windows = 0 /\ m.summary = 0 /\ m.history = none /\ m.recent = none
      /\ m.counts = NoEntries /\ m.momentum = NoEntries /\ m.pending = {}
  BY DEF Fresh, Fields
<1>2. none \in Histories /\ none \in Seq(Records) /\ Len(none) = 0 /\ DOMAIN none = {}
  BY EmptySeq DEF Histories
<1> HIDE DEF m, none
<1>3. DOMAIN NoEntries = {} /\ Numbers(NoEntries) /\ \A k : Entry(NoEntries, k) = 0
  BY DEF NoEntries, Numbers, Entry
<1>4. Prewarms(none) = {}
  BY <1>2 DEF Prewarms
<1>5. OpenOf(none) = {} /\ \A p, v : With(none, p, v) = {}
  BY <1>4 DEF OpenOf, With
<1>6. AttributedIn(m)
  <2>1. \A p, v : Cardinality(With(none, p, v)) = 0
    BY <1>5, FS_EmptySet
  <2>2. m.pending = {Pending(none, w) : w \in OpenOf(none)}
    BY <1>1, <1>5
  <2>3. QED  BY <1>1, <1>3, <2>1, <2>2 DEF AttributedIn
<1>7. RecordedIn(m)
  <2>1. 1..0 = {}
    OBVIOUS
  <2>2. QED  BY <1>1, <1>2, <2>1 DEF RecordedIn
<1>8. KeysOf(none) = {}
  BY <1>2 DEF KeysOf
<1>9. \A k : Times(none, k) = 0
  <2>1. ASSUME NEW k PROVE Times(none, k) = 0
    <3>1. UNION {AddedIn(none, i, k) : i \in DOMAIN none} = {}
      BY <1>2
    <3>2. Times(none, k) = Cardinality(UNION {AddedIn(none, i, k) : i \in DOMAIN none})
      BY <1>2, AddedFinite
    <3>3. QED  BY <3>1, <3>2, FS_EmptySet
  <2>2. QED  BY <2>1
<1>10. \A k : Worth(none, k) = 0
  BY <1>2, WorthSteps
<1>11. CountedIn(m)
  <2>1. ASSUME NEW k PROVE EntryOf(m, k)
    <3>1. \A top \in Decays : (0 - 0) * (1000 - top) < 1000 * MinScore
      BY DEF Decays, MinScore
    <3>2. QED  BY <1>1, <1>3, <1>8, <1>9, <1>10, <3>1 DEF EntryOf
  <2>2. QED  BY <1>1, <2>1 DEF CountedIn
<1>12. LatestIn(m)
  <2>1. \A p : Score(m, p) = 0
    BY <1>1, <1>3 DEF Score
  <2>2. QED  BY <1>1, <2>1 DEF LatestIn, ScoreUnit, none
<1>13. QED
  BY <1>1, <1>2, <1>3, <1>6, <1>7, <1>11, <1>12 DEF m, none

\* What a memory says depends on what it has observed, not on its configuration
\* or summary.
LEMMA SaysTheSame ==
    ASSUME NEW a, IsMemory(a), NEW b, b.history = a.history, b.counts = a.counts,
           b.momentum = a.momentum, b.pending = a.pending
    PROVE  /\ b.history \in Histories /\ Numbers(b.counts) /\ Numbers(b.momentum)
           /\ AttributedIn(b) /\ CountedIn(b) /\ LatestIn(b)
           /\ b.recent = a.recent => RecordedIn(b)
<1>1. /\ a.history \in Histories /\ Numbers(a.counts) /\ Numbers(a.momentum)
      /\ AttributedIn(a) /\ RecordedIn(a) /\ CountedIn(a) /\ LatestIn(a)
  BY DEF IsMemory
<1>2. AttributedIn(b)
  BY <1>1 DEF AttributedIn
<1>3. CountedIn(b)
  BY <1>1 DEF CountedIn, EntryOf
<1>4. LatestIn(b)
  BY <1>1 DEF LatestIn, Score
<1>5. b.recent = a.recent => RecordedIn(b)
  BY <1>1 DEF RecordedIn
<1>6. QED  BY <1>1, <1>2, <1>3, <1>4, <1>5

-----------------------------------------------------------------------------
(***************************************************************************)
(* The file and the worker.                                                *)
(***************************************************************************)

\* m continues the memory d: what d has observed m has, in the same order.
Continues(m, d) ==
    /\ Len(d.history) <= Len(m.history)
    /\ d.history = SubSeq(m.history, 1, Len(d.history))
    /\ d.summary <= m.summary

\* A prefix of a history stays one when a window is added to it.
LEMMA PrefixGrows ==
    ASSUME NEW S, NEW s \in Seq(S), NEW e \in S, NEW n \in 0..Len(s)
    PROVE  SubSeq(Append(s, e), 1, n) = SubSeq(s, 1, n)
<1> DEFINE a == Append(s, e)
           x == SubSeq(a, 1, n)
           y == SubSeq(s, 1, n)
<1>1. Len(s) \in Nat /\ n \in Int /\ 1 \in Int /\ \A i \in 1..n : i \in 1..Len(s)
  BY LenProperties
<1>2. \A i \in 1..n : a[i] = s[i] /\ a[i] \in S /\ s[i] \in S
  BY <1>1, AppendProperties, ElementOfSeq
<1> HIDE DEF a
<1>3. /\ y \in Seq(S) /\ Len(y) = IF 1 <= n THEN n - 1 + 1 ELSE 0
      /\ \A i \in 1..(n - 1 + 1) : y[i] = s[1 + i - 1]
  BY <1>1, <1>2, SubSeqProperties
<1>4. /\ x \in Seq(S) /\ Len(x) = IF 1 <= n THEN n - 1 + 1 ELSE 0
      /\ \A i \in 1..(n - 1 + 1) : x[i] = a[1 + i - 1]
  BY <1>1, <1>2, SubSeqProperties
<1> HIDE DEF x, y
<1>5. Len(x) = n /\ Len(y) = n
  BY <1>3, <1>4
<1>6. \A i \in 1..n : x[i] = y[i]
  BY <1>1, <1>2, <1>3, <1>4
<1>7. x = y
  BY <1>3, <1>4, <1>5, <1>6, SeqEqual
<1>8. QED  BY <1>7 DEF x, y, a

\* A memory continues itself.
LEMMA ContinuesItself == ASSUME NEW m, IsMemory(m) PROVE Continues(m, m)
<1>1. m.history \in Seq(Observations) /\ Len(m.history) \in Nat
  BY LenProperties DEF IsMemory, Histories
<1>2. SubSeq(m.history, 1, Len(m.history)) = m.history
  BY <1>1, SubSeqFull
<1>3. m.windows \in Nat /\ m.summary \in Nat
  BY <1>1, MemoryAssumption DEF IsMemory, Capped
<1>4. QED  BY <1>1, <1>2, <1>3 DEF Continues

\* observe_window adds the window to the history, and everything said of it.
LEMMA ObservedFields ==
    ASSUME NEW m, IsMemory(m), NEW input \in Inputs
    PROVE  LET o == ObserveWindow(m, input) IN
           /\ IsMemory(o)
           /\ o.summary = m.summary /\ m.windows <= o.windows
           /\ \A d : IsMemory(d) /\ Continues(m, d) => Continues(o, d)
<1> DEFINE o == ObserveWindow(m, input)
           e == Observation(m, input)
           h == m.history
<1>1. /\ m.decay \in Decays /\ m.effectWindows \in Positive /\ h \in Histories
      /\ m.recentLimit \in Positive /\ m.topLimit \in Positive
      /\ m.windows = Capped(Len(h)) /\ m.summary \in 0..m.windows
  BY DEF IsMemory
<1>2. Follows(o, m, input)
  BY WindowFollows
<1>3. AttributedIn(o) /\ RecordedIn(o) /\ CountedIn(o) /\ LatestIn(o)
  <2> HIDE DEF o
  <2>1. QED  BY <1>2, AttributedAfter, RecordedAfter, CountedAfter, LatestAfter
<1>4. e \in Observations
  BY JudgedAdd
<1> HIDE DEF o, e
<1>5. /\ DOMAIN o = Fields
      /\ o.decay = m.decay /\ o.effectWindows = m.effectWindows
      /\ o.recentLimit = m.recentLimit /\ o.topLimit = m.topLimit
      /\ o.windows = SaturatingAdd(m.windows) /\ o.summary = m.summary
      /\ o.history = Append(h, e)
      /\ Numbers(o.counts) /\ Numbers(o.momentum)
  BY <1>2 DEF Follows, e
<1>6. /\ Append(h, e) \in Histories /\ Len(Append(h, e)) = Len(h) + 1
      /\ Len(h) \in Nat
  BY <1>1, <1>4, HistoryGrows
<1>7. /\ o.windows = Capped(Len(h) + 1)
      /\ m.windows <= o.windows /\ o.summary \in 0..o.windows
  BY <1>1, <1>5, <1>6, MemoryAssumption DEF Capped, SaturatingAdd
<1>8. IsMemory(o)
  BY <1>1, <1>3, <1>5, <1>6, <1>7 DEF IsMemory
<1>9. ASSUME NEW d, IsMemory(d), Continues(m, d) PROVE Continues(o, d)
  <2>1. Len(d.history) \in Nat
    BY <1>9, LenProperties DEF IsMemory, Histories
  <2>2. Len(d.history) \in 0..Len(h) /\ Len(d.history) <= Len(h) + 1
    BY <1>6, <1>9, <2>1 DEF Continues
  <2>3. SubSeq(Append(h, e), 1, Len(d.history)) = SubSeq(h, 1, Len(d.history))
    BY <1>1, <1>4, <2>2, PrefixGrows DEF Histories
  <2>4. QED  BY <1>5, <1>6, <1>9, <2>2, <2>3 DEF Continues
<1>10. QED  BY <1>5, <1>7, <1>8, <1>9 DEF o

JobStates == {"none", "running", "done", "failed"}

\* There is a file that can be read, and it is one of the running process: it
\* was loaded at the start, or written since.
Backed == disk.state = "whole" /\ source # "none"

\* A summary under way is not older than the one it will replace: there is one
\* job at a time, and it starts from all windows observed by then.
JobInv ==
    /\ job \in [state : JobStates, windows : Nat]
    /\ pc = "down" => job = NoJob
    /\ job.state \in {"running", "done"} =>
        memory.summary <= job.windows /\ job.windows <= memory.windows

MemoryInv ==
    /\ IF pc = "down" THEN memory = NoMemory ELSE IsMemory(memory)
    /\ DOMAIN disk = {"state", "content"}
    /\ disk.state = "whole" => IsMemory(disk.content)
    /\ JobInv
    /\ DurablePrefix

\* poll() takes a summary that is not older than the one it replaces.
LEMMA PolledFields ==
    ASSUME MemoryInv, pc # "down"
    PROVE  /\ IsMemory(Polled(memory))
           /\ Polled(memory).windows = memory.windows
           /\ memory.summary <= Polled(memory).summary
           /\ Polled(memory).history = memory.history
           /\ job.state = "done" => Polled(memory).summary = job.windows
           /\ job.state # "done" => Polled(memory) = memory
<1>1. IsMemory(memory) /\ JobInv
  BY DEF MemoryInv
<1>2. Len(memory.history) \in Nat /\ memory.windows \in Nat /\ memory.summary \in Nat
  <2>1. Len(memory.history) \in Nat
    BY <1>1, LenProperties DEF IsMemory, Histories
  <2>2. QED  BY <1>1, <2>1, MemoryAssumption DEF IsMemory, Capped
<1>3. CASE job.state # "done"
  BY <1>1, <1>2, <1>3 DEF Polled
<1>4. CASE job.state = "done"
  <2> DEFINE m == [memory EXCEPT !.summary = job.windows]
  <2>1. /\ DOMAIN m = Fields /\ m.summary = job.windows /\ m.windows = memory.windows
        /\ m.history = memory.history /\ m.decay = memory.decay
        /\ m.effectWindows = memory.effectWindows
        /\ m.recentLimit = memory.recentLimit /\ m.topLimit = memory.topLimit
        /\ m.counts = memory.counts /\ m.momentum = memory.momentum
        /\ m.pending = memory.pending /\ m.recent = memory.recent
    <3>1. DOMAIN memory = Fields
      BY <1>1 DEF IsMemory
    <3>2. QED  BY <3>1 DEF Fields
  <2>2. job.windows \in 0..memory.windows /\ memory.summary <= job.windows
    BY <1>1, <1>2, <1>4 DEF JobInv
  <2>3. Polled(memory) = m
    BY <1>4 DEF Polled
  <2> HIDE DEF m
  <2>4. /\ m.history \in Histories /\ Numbers(m.counts) /\ Numbers(m.momentum)
        /\ AttributedIn(m) /\ CountedIn(m) /\ LatestIn(m) /\ RecordedIn(m)
    BY <1>1, <2>1, SaysTheSame
  <2>5. QED  BY <1>1, <1>4, <2>1, <2>2, <2>3, <2>4 DEF IsMemory
<1>5. QED  BY <1>3, <1>4

\* with_config gives a memory, and apply_config keeps one: a start changes the
\* configuration of what it loads and nothing that was observed.
LEMMA LoadedFields ==
    ASSUME MemoryInv, NEW config \in Configs, NEW loaded \in LoadResults
    PROVE  /\ IsMemory(LoadOrDefault(config, loaded))
           /\ loaded # "none" => Continues(LoadOrDefault(config, loaded), disk.content)
<1>1. /\ config.decay \in Decays /\ config.effect \in Positive
      /\ config.recent \in Positive /\ config.top \in Positive
  <2>1. config \in [recent : Positive, top : Positive, decay : Decays, effect : Positive]
    <3>1. Configs \subseteq [recent : Nat \ {0}, top : Nat \ {0}, decay : 0..999,
                             effect : Nat \ {0}]
      BY MemoryAssumption
    <3>2. QED  BY <3>1 DEF Decays, Positive
  <2>2. QED  BY <2>1
<1>2. CASE loaded = "loaded"
  <2> DEFINE d == disk.content
             m == ApplyConfig(d, config)
  <2>1. IsMemory(d)
    BY <1>2 DEF MemoryInv, LoadResults
  <2>2. /\ DOMAIN m = Fields /\ m.decay = config.decay /\ m.windows = d.windows
        /\ m.effectWindows = config.effect
        /\ m.recentLimit = config.recent /\ m.topLimit = config.top
        /\ m.summary = d.summary /\ m.history = d.history
        /\ m.counts = d.counts /\ m.momentum = d.momentum /\ m.pending = d.pending
        /\ m.recent = KeepLast(d.recent, config.recent)
    <3> HIDE DEF d
    <3>1. DOMAIN d = Fields
      BY <2>1 DEF IsMemory
    <3>2. QED  BY <3>1 DEF ApplyConfig, Fields
  <2>3. LoadOrDefault(config, loaded) = m
    BY <1>2 DEF LoadOrDefault
  <2> HIDE DEF d, m
  <2>4. /\ m.history \in Histories /\ Numbers(m.counts) /\ Numbers(m.momentum)
        /\ AttributedIn(m) /\ CountedIn(m) /\ LatestIn(m)
    BY <2>1, <2>2, SaysTheSame
  <2>5. RecordedIn(m)
    <3>1. /\ d.recent \in Seq(Records) /\ Len(d.recent) <= Len(d.history)
          /\ \A n \in 1..Len(d.recent) :
                RecordOf(d.history, d.recent[n], Len(d.history) - Len(d.recent) + n)
      BY <2>1 DEF IsMemory, RecordedIn
    <3>2. Len(d.history) \in Nat
      BY <2>1, LenProperties DEF IsMemory, Histories
    <3>3. LET t == KeepLast(d.recent, config.recent) IN
          /\ t \in Seq(Records) /\ Len(t) <= Len(d.history)
          /\ \A i \in 1..Len(t) : RecordOf(d.history, t[i], Len(d.history) - Len(t) + i)
      BY <1>1, <3>1, <3>2, RunKept
    <3>4. QED  BY <2>2, <3>3 DEF RecordedIn
  <2>6. d.windows = Capped(Len(d.history)) /\ d.summary \in 0..d.windows
    BY <2>1 DEF IsMemory
  <2>7. IsMemory(m)
    BY <1>1, <2>2, <2>4, <2>5, <2>6 DEF IsMemory
  <2>8. Continues(m, d)
    BY <2>1, <2>2, ContinuesItself DEF Continues
  <2>9. QED  BY <2>3, <2>7, <2>8 DEF d
<1>3. CASE loaded = "none"
  <2> DEFINE m == Fresh(config)
  <2>1. /\ DOMAIN m = Fields /\ m.decay = config.decay /\ m.effectWindows = config.effect
        /\ m.recentLimit = config.recent /\ m.topLimit = config.top
        /\ m.windows = 0 /\ m.summary = 0
        /\ m.history \in Histories /\ Len(m.history) = 0
        /\ Numbers(m.counts) /\ Numbers(m.momentum)
        /\ AttributedIn(m) /\ RecordedIn(m) /\ CountedIn(m) /\ LatestIn(m)
    BY FreshSaysNothing
  <2>2. LoadOrDefault(config, loaded) = m
    BY <1>3 DEF LoadOrDefault
  <2> HIDE DEF m
  <2>3. IsMemory(m)
    BY <1>1, <2>1, MemoryAssumption DEF IsMemory, Capped
  <2>4. QED  BY <1>3, <2>2, <2>3
<1>4. QED  BY <1>2, <1>3 DEF LoadResults

-----------------------------------------------------------------------------
(***************************************************************************)
(* The invariant.  The summary's half of DurablePrefix needs JobInv: only  *)
(* because no job outlives its process, and none starts while another runs,*)
(* does a poll never bring back an older summary than the file holds.      *)
(***************************************************************************)

\* What is left to show of a step that leaves the file alone.
LEMMA FileLeft ==
    ASSUME MemoryInv, UNCHANGED disk, pc' # "down", IsMemory(memory'), JobInv',
           Backed' => Continues(memory', disk.content)
    PROVE  MemoryInv'
BY DEF MemoryInv, DurablePrefix, Continues, Backed

\* One step of the daemon, its worker or a crash.
LEMMA MemoryStep == MemoryInv /\ [Next]_vars => MemoryInv'
<1> SUFFICES ASSUME MemoryInv, [Next]_vars PROVE MemoryInv'
  OBVIOUS
<1>a. /\ pc # "down" => IsMemory(memory)
      /\ job \in [state : JobStates, windows : Nat]
      /\ pc = "down" => job = NoJob
      /\ job.state \in {"running", "done"} =>
            memory.summary <= job.windows /\ job.windows <= memory.windows
      /\ pc # "down" /\ Backed => Continues(memory, disk.content)
      /\ disk.state = "whole" => IsMemory(disk.content)
      /\ Backed => disk.state = "whole"
      /\ UNCHANGED <<disk, source>> => (Backed' <=> Backed)
  BY DEF MemoryInv, JobInv, DurablePrefix, Continues, Backed
<1>b. pc # "down" =>
        memory.windows \in Nat /\ memory.summary \in Nat /\ memory.summary <= memory.windows
  <2>1. pc # "down" => Len(memory.history) \in Nat
    BY <1>a, LenProperties DEF IsMemory, Histories
  <2>2. QED  BY <1>a, <2>1, MemoryAssumption DEF IsMemory, Capped
<1>c. disk.state = "whole" => disk.content.summary \in Nat
  <2>1. disk.state = "whole" => Len(disk.content.history) \in Nat
    BY <1>a, LenProperties DEF IsMemory, Histories
  <2>2. QED  BY <1>a, <2>1, MemoryAssumption DEF IsMemory, Capped
<1>d. NoJob \in [state : JobStates, windows : Nat] /\ NoJob.state = "none"
  BY DEF NoJob, JobStates
<1>e. pc # "down" /\ Backed => Continues(Polled(memory), disk.content)
  <2>1. SUFFICES ASSUME pc # "down", Backed
                 PROVE  Continues(Polled(memory), disk.content)
    OBVIOUS
  <2>2. /\ Polled(memory).history = memory.history
        /\ memory.summary <= Polled(memory).summary
        /\ Polled(memory).summary \in Nat
    <3>1. /\ IsMemory(Polled(memory)) /\ Polled(memory).windows = memory.windows
          /\ Polled(memory).history = memory.history
          /\ memory.summary <= Polled(memory).summary
      BY <2>1, PolledFields
    <3>2. Polled(memory).summary \in Nat
      BY <1>b, <2>1, <3>1 DEF IsMemory
    <3>3. QED  BY <3>1, <3>2
  <2>3. QED  BY <1>a, <1>b, <1>c, <2>1, <2>2 DEF Continues
<1>1. CASE JobEnds
  <2>1. PICK x \in {"done", "failed"} : job' = [job EXCEPT !.state = x]
    BY <1>1 DEF JobEnds
  <2>2. /\ job.state = "running" /\ UNCHANGED <<pc, memory, disk, source>>
    BY <1>1 DEF JobEnds
  <2>3. pc # "down"
    BY <1>a, <1>d, <2>2
  <2>4. JobInv'
    BY <1>a, <2>1, <2>2, <2>3 DEF JobInv, JobStates
  <2>5. QED  BY <1>a, <2>2, <2>3, <2>4, FileLeft
<1>2. CASE BeginWindow
  <2>1. /\ pc # "down" /\ pc' # "down" /\ UNCHANGED <<disk, source>>
        /\ memory' = Polled(memory) /\ job' = JobAfterPoll
    BY <1>2 DEF BeginWindow
  <2>2. IsMemory(memory') /\ memory'.windows = memory.windows
        /\ (job.state # "done" => memory' = memory)
    BY <2>1, PolledFields
  <2>3. JobInv'
    BY <1>a, <1>d, <2>1, <2>2 DEF JobInv, JobAfterPoll
  <2>4. Backed' => Continues(memory', disk.content)
    BY <1>a, <1>e, <2>1
  <2>5. QED  BY <2>1, <2>2, <2>3, <2>4, FileLeft
<1>3. CASE Observe
  <2>1. PICK input \in Inputs : memory' = ObserveWindow(memory, input)
    BY <1>3 DEF Observe
  <2>2. pc # "down" /\ pc' # "down" /\ UNCHANGED <<disk, job, source>>
    BY <1>3 DEF Observe
  <2>3. /\ IsMemory(memory')
        /\ memory'.summary = memory.summary /\ memory.windows <= memory'.windows
        /\ Backed => Continues(memory', disk.content)
    BY <1>a, <2>1, <2>2, ObservedFields
  <2>4. memory'.windows \in Nat
    <3>1. Len(memory'.history) \in Nat
      BY <2>3, LenProperties DEF IsMemory, Histories
    <3>2. QED  BY <2>3, <3>1, MemoryAssumption DEF IsMemory, Capped
  <2>5. JobInv'
    BY <1>a, <1>b, <2>2, <2>3, <2>4 DEF JobInv
  <2>6. Backed' => Continues(memory', disk.content)
    BY <1>a, <2>2, <2>3
  <2>7. QED  BY <2>2, <2>3, <2>5, <2>6, FileLeft
<1>4. CASE Refresh
  <2>1. /\ pc # "down" /\ pc' # "down" /\ UNCHANGED <<disk, source>>
        /\ memory' = Polled(memory)
        /\ \/ /\ JobAfterPoll = NoJob
              /\ job' = [state |-> "running", windows |-> memory.windows]
           \/ job' = JobAfterPoll
    BY <1>4 DEF Refresh, MayStart
  <2>2. /\ IsMemory(memory') /\ memory'.windows = memory.windows
        /\ (job.state # "done" => memory' = memory)
    BY <2>1, PolledFields
  <2>3. memory'.summary \in Nat /\ memory'.summary <= memory'.windows
    BY <1>b, <2>1, <2>2 DEF IsMemory
  <2>4. JobInv'
    <3>1. CASE job' = JobAfterPoll
      BY <1>a, <1>d, <2>1, <2>2, <3>1 DEF JobInv, JobAfterPoll
    <3>2. CASE job' = [state |-> "running", windows |-> memory.windows]
      BY <1>b, <2>1, <2>2, <2>3, <3>2 DEF JobInv, JobStates
    <3>3. QED  BY <2>1, <3>1, <3>2
  <2>5. Backed' => Continues(memory', disk.content)
    BY <1>a, <1>e, <2>1
  <2>6. QED  BY <2>1, <2>2, <2>4, <2>5, FileLeft
<1>5. CASE OpenFile
  <2>1. /\ pc # "down" /\ pc' # "down" /\ UNCHANGED <<memory, job>>
        /\ DOMAIN disk' = {"state", "content"} /\ disk'.state = "torn"
    BY <1>5 DEF OpenFile
  <2>2. JobInv'
    BY <1>a, <2>1 DEF JobInv
  <2>3. QED  BY <1>a, <2>1, <2>2 DEF MemoryInv, DurablePrefix
<1>6. CASE OpenFails
  <2>1. pc # "down" /\ pc' # "down" /\ UNCHANGED <<memory, disk, job, source>>
    BY <1>6 DEF OpenFails
  <2>2. JobInv'
    BY <1>a, <2>1 DEF JobInv
  <2>3. QED  BY <1>a, <2>1, <2>2, FileLeft
<1>7. CASE WriteFile
  <2>1. pc # "down" /\ pc' # "down" /\ UNCHANGED <<memory, job, source>>
    BY <1>7 DEF WriteFile
  <2>2. JobInv'
    BY <1>a, <2>1 DEF JobInv
  <2>3. CASE UNCHANGED disk
    BY <1>a, <2>1, <2>2, <2>3, FileLeft
  <2>4. CASE disk' = [state |-> "whole", content |-> memory]
    <3>1. DOMAIN disk' = {"state", "content"} /\ disk'.content = memory'
      BY <2>1, <2>4
    <3>2. IsMemory(memory') /\ Continues(memory', memory')
      BY <1>a, <2>1, ContinuesItself
    <3>3. QED  BY <2>1, <2>2, <3>1, <3>2 DEF MemoryInv, DurablePrefix, Continues
  <2>5. QED  BY <1>7, <2>3, <2>4 DEF WriteFile
<1>8. CASE Start
  <2>1. PICK config \in Configs, loaded \in LoadResults :
            memory' = LoadOrDefault(config, loaded) /\ source' = loaded
    BY <1>8 DEF Start
  <2>2. pc' # "down" /\ job' = NoJob /\ UNCHANGED disk
    BY <1>8 DEF Start
  <2>3. JobInv'
    BY <1>d, <2>2 DEF JobInv
  <2>4. IsMemory(memory') /\ (Backed' => Continues(memory', disk.content))
    BY <2>1, LoadedFields DEF Backed
  <2>5. QED  BY <2>2, <2>3, <2>4, FileLeft
<1>9. CASE Crash
  <2>1. pc' = "down" /\ memory' = NoMemory /\ job' = NoJob /\ UNCHANGED disk
    BY <1>9 DEF Crash
  <2>2. JobInv'
    BY <1>d, <2>1 DEF JobInv
  <2>3. memory' = NoMemory' /\ DOMAIN disk' = {"state", "content"}
    BY <2>1 DEF NoMemory, Fresh, NoEntries, MemoryInv
  <2>4. QED  BY <1>a, <2>1, <2>2, <2>3 DEF MemoryInv, DurablePrefix
<1>10. CASE Finished \/ UNCHANGED vars
  <2>1. UNCHANGED <<pc, memory, disk, job, source>>
    BY <1>10 DEF Finished, vars
  <2>2. QED  BY <2>1 DEF MemoryInv, JobInv, DurablePrefix, IsMemory
<1>11. QED
  BY <1>1, <1>2, <1>3, <1>4, <1>5, <1>6, <1>7, <1>8, <1>9, <1>10 DEF Next

\* The invariant of the memory, its file and its worker.
THEOREM MemoryInvariance == Spec => []MemoryInv
<1>1. Init => MemoryInv
  <2> SUFFICES ASSUME Init PROVE MemoryInv
    OBVIOUS
  <2>1. /\ pc = "down" /\ memory = NoMemory /\ job = NoJob
        /\ disk = [state |-> "absent", content |-> NoMemory]
    BY DEF Init
  <2>2. JobInv
    BY <2>1 DEF JobInv, NoJob, JobStates
  <2>3. DOMAIN disk = {"state", "content"} /\ disk.state # "whole"
    BY <2>1
  <2>4. QED  BY <2>1, <2>2, <2>3 DEF MemoryInv, DurablePrefix
<1>2. QED  BY <1>1, MemoryStep, PTL DEF Spec

\* A readable file that load_or_default has loaded, or save_to_path has written
\* since, holds an earlier state of the memory of the running process, whatever
\* saves failed and wherever a process was stopped: windows are lost at the end
\* only, and a summary that was replaced does not come back.
THEOREM FileIsPrefix == Spec => []DurablePrefix
<1>1. MemoryInv => DurablePrefix
  BY DEF MemoryInv
<1>2. QED  BY <1>1, MemoryInvariance, PTL

WindowsCounted == pc # "down" => memory.windows = Capped(Len(memory.history))

\* observation_windows counts the windows of this memory over all its starts,
\* but for its saturation.
THEOREM CountIsExact == Spec => []WindowsCounted
<1>1. MemoryInv => WindowsCounted
  BY DEF MemoryInv, IsMemory, WindowsCounted
<1>2. QED  BY <1>1, MemoryInvariance, PTL

-----------------------------------------------------------------------------
(***************************************************************************)
(* What the memory says of its history.                                    *)
(***************************************************************************)

\* A process that is down has a memory that says nothing.
LEMMA AlwaysTrue ==
    ASSUME MemoryInv
    PROVE  /\ memory.history \in Histories /\ AttributedIn(memory) /\ RecordedIn(memory)
           /\ memory.history # <<>> => IsMemory(memory)
<1>1. CASE pc = "down"
  <2>1. memory = NoMemory
    BY <1>1 DEF MemoryInv
  <2>2. LET m == NoMemory IN
        m.history = <<>> /\ m.history \in Histories /\ AttributedIn(m) /\ RecordedIn(m)
    BY FreshSaysNothing DEF NoMemory
  <2>3. QED  BY <2>1, <2>2
<1>2. CASE pc # "down"
  BY <1>2 DEF MemoryInv, IsMemory
<1>3. QED  BY <1>1, <1>2

\* Every successful pre-warm is counted once, as hit or as miss, by the windows
\* that followed it, or is still pending, for any number of windows, restarts
\* and changes of the configuration: resolve_pending_prewarms judges what
\* register_pending_prewarm registered neither twice nor never.
THEOREM AttributionIsExact == Spec => []AttributionMatchesHistory
<1>1. ASSUME MemoryInv PROVE AttributionMatchesHistory
  <2> DEFINE h == memory.history
             with(p, v) == Cardinality({w \in Prewarms(h) :
                            ActionOf(h, w).target[2] = p /\ Came(h, w[1], p) = v})
  <2>1. h \in Histories /\ AttributedIn(memory)
    BY <1>1, AlwaysTrue
  <2>2. \A p, v : with(p, v) = Cardinality(With(h, p, v))
    BY DEF With, PackageOf
  <2>3. \A p : /\ Entry(memory.counts, <<"hit", p>>) = with(p, "hit")
               /\ Entry(memory.counts, <<"miss", p>>) = with(p, "miss")
    BY <2>1, <2>2 DEF AttributedIn
  <2>4. ASSUME NEW p
        PROVE  Cardinality({w \in memory.pending : w.package = p}) = with(p, "open")
    <3> DEFINE W == With(h, p, "open")
               T == {w \in memory.pending : w.package = p}
               f == [w \in W |-> Pending(h, w)]
    <3>1. memory.pending = {Pending(h, w) : w \in OpenOf(h)}
      BY <2>1 DEF AttributedIn
    <3>2. \A w : Pending(h, w).package = PackageOf(h, w)
      BY DEF Pending
    <3>3. W = {w \in OpenOf(h) : PackageOf(h, w) = p}
      BY DEF With, OpenOf
    <3>4. T = {Pending(h, w) : w \in W}
      <4> HIDE DEF h, W
      <4>1. QED  BY <3>1, <3>2, <3>3
    <3>5. IsFiniteSet(W)
      BY <2>1, PrewarmsFinite
    <3>6. \A w \in W : w = <<w[1], w[2]>>
      BY <2>1, PrewarmFacts DEF With
    <3>7. \A w, u \in W : Pending(h, w) = Pending(h, u) => w = u
      <4>1. \A w, u : Pending(h, w) = Pending(h, u) => w[1] = u[1] /\ w[2] = u[2]
        BY DEF Pending
      <4> HIDE DEF W, h
      <4>2. QED  BY <3>6, <4>1
    <3> HIDE DEF W, T, h
    <3>8. /\ f \in [W -> T] /\ \A w, u \in W : f[w] = f[u] => w = u
          /\ \A t \in T : \E w \in W : f[w] = t
      BY <3>4, <3>7
    <3> HIDE DEF f
    <3>9. Cardinality(T) = Cardinality(W)
      BY <3>5, <3>8, SameNumber
    <3>10. with(p, "open") = Cardinality(W)
      BY <2>2 DEF W
    <3>11. QED  BY <3>9, <3>10 DEF T
  <2>5. QED  BY <2>3, <2>4 DEF AttributionMatchesHistory
<1>2. QED  BY <1>1, MemoryInvariance, PTL

\* After every window the counters are those of the windows observed, over all
\* starts, and a score is what these are worth under the decays they met but
\* for what decay_map dropped, which stays bounded however long the memory lives.
THEOREM CountersAreExact == Spec => []CountersMatchHistory
<1>1. ASSUME MemoryInv PROVE CountersMatchHistory
  <2> SUFFICES ASSUME pc = "observed" PROVE CountersMatchHistory
    BY DEF CountersMatchHistory
  <2> DEFINE h == memory.history
             keys == UNION {DOMAIN WindowEntries(h[i].input) : i \in DOMAIN h}
             missing(k) == Worth(h, k) - Entry(memory.momentum, k)
             counted == {k \in DOMAIN memory.counts : k[1] \notin {"hit", "miss"}}
  <2>1. IsMemory(memory)
    BY <1>1 DEF MemoryInv
  <2>2. h \in Histories /\ memory.windows = Capped(Len(h)) /\ CountedIn(memory)
        /\ Numbers(memory.momentum)
    BY <2>1 DEF IsMemory
  <2>3. /\ DOMAIN h = 1..Len(h) /\ \A i \in DOMAIN h : h[i] \in Observations
    BY <2>2, LenProperties, ElementOfSeq DEF Histories
  <2>4. \A k \in keys : k[1] \notin {"hit", "miss"}
    <3>1. \A i \in DOMAIN h : h[i].input \in Inputs
      BY <2>3 DEF Observations
    <3> HIDE DEF h
    <3>2. \A i \in DOMAIN h : \A k \in DOMAIN WindowEntries(h[i].input) :
            k[1] \notin {"hit", "miss"}
      BY <3>1, WindowAdds
    <3>3. QED  BY <3>2
  <2>5. keys = KeysOf(h)
    BY DEF KeysOf
  <2>6. \A k : k[1] \notin {"hit", "miss"} => EntryOf(memory, k)
    BY <2>2 DEF CountedIn
  <2>7. counted = keys
    <3>1. \A k : k[1] \notin {"hit", "miss"} => (k \in DOMAIN memory.counts <=> k \in KeysOf(h))
      BY <2>6 DEF EntryOf
    <3> HIDE DEF keys, h
    <3>2. QED  BY <2>4, <2>5, <3>1
  <2>8. ASSUME NEW k \in keys
        PROVE  /\ memory.counts[k] = Times(h, k) /\ missing(k) >= 0
               /\ \A top \in {h[i].decay : i \in DOMAIN h} :
                    (\A i \in DOMAIN h : h[i].decay <= top) =>
                        missing(k) * (1000 - top) < 1000 * MinScore
    <3>1. EntryOf(memory, k)
      <4> HIDE DEF keys
      <4>1. QED  BY <2>4, <2>6
    <3>2. k \in DOMAIN memory.counts
      <4> HIDE DEF keys
      <4>1. QED  BY <2>7
    <3>3. memory.counts[k] = Times(h, k)
      BY <3>1, <3>2 DEF EntryOf, Entry
    <3>4. Worth(h, k) \in Nat /\ Entry(memory.momentum, k) \in Nat
      BY <2>2, WorthIsNatural, EntryIsNatural
    <3>5. Entry(memory.momentum, k) <= Worth(h, k)
      BY <3>1 DEF EntryOf
    <3>6. missing(k) >= 0
      BY <3>4, <3>5
    <3>7. \A top \in Decays : Slowest(h, top) => missing(k) * (1000 - top) < 1000 * MinScore
      BY <3>1 DEF EntryOf
    <3>8. \A top \in {h[i].decay : i \in DOMAIN h} : top \in Decays
      BY <2>3 DEF Observations
    <3> HIDE DEF missing
    <3>9. QED  BY <3>3, <3>6, <3>7, <3>8 DEF Slowest
  <2>9. QED  BY <2>2, <2>7, <2>8 DEF CountersMatchHistory, Capped
<1>2. QED  BY <1>1, MemoryInvariance, PTL

\* The feedback on the recent windows.
LEMMA FeedbackHolds == ASSUME MemoryInv PROVE FeedbackInOrder
<1> DEFINE h == memory.history
           recent == memory.recent
<1>1. h \in Histories /\ RecordedIn(memory)
  BY AlwaysTrue
<1>2. /\ recent \in Seq(Records) /\ Len(recent) <= Len(h)
      /\ \A n \in 1..Len(recent) : RecordOf(h, recent[n], Len(h) - Len(recent) + n)
  BY <1>1 DEF RecordedIn
<1>3. Len(recent) \in Nat /\ DOMAIN recent = 1..Len(recent) /\ Len(h) \in Nat
  BY <1>1, <1>2, LenProperties DEF Histories
<1> HIDE DEF h, recent
<1>4. ASSUME NEW n \in DOMAIN recent
      PROVE  LET r == recent[n] IN
             /\ r.id = Len(h) - Len(recent) + n
             /\ r.foreground = h[r.id].input.foreground
             /\ Len(r.outcomes) = Len(h[r.id].input.actions)
             /\ \A k \in DOMAIN r.outcomes :
                  Registered(ActionOf(h, <<r.id, k>>)) =>
                    r.outcomes[k].correctness = Settled(Came(h, r.id, r.outcomes[k].target[2]))
  <2> DEFINE r == recent[n]
             j == Len(h) - Len(recent) + n
  <2>1. RecordOf(h, r, j)
    BY <1>2, <1>3
  <2> HIDE DEF r, j
  <2>2. /\ r \in Records /\ r.id = j /\ r.foreground = h[j].input.foreground
        /\ Len(r.outcomes) = Len(h[j].input.actions)
        /\ \A k \in 1..Len(r.outcomes) : OutcomeOf(h, r.outcomes[k], j, h[j].input.actions[k])
    BY <2>1 DEF RecordOf
  <2>3. r.outcomes \in Seq(Outcomes)
    BY <2>2 DEF Records
  <2>4. DOMAIN r.outcomes = 1..Len(r.outcomes)
    BY <2>3, LenProperties
  <2>5. ASSUME NEW k \in DOMAIN r.outcomes, Registered(ActionOf(h, <<j, k>>))
        PROVE  r.outcomes[k].correctness = Settled(Came(h, j, r.outcomes[k].target[2]))
    <3>1. ActionOf(h, <<j, k>>) = h[j].input.actions[k]
      BY DEF ActionOf
    <3>2. OutcomeOf(h, r.outcomes[k], j, h[j].input.actions[k])
      BY <2>2, <2>4
    <3>3. QED  BY <2>5, <3>1, <3>2 DEF OutcomeOf
  <2>6. QED  BY <2>2, <2>5 DEF r, j
<1>5. QED  BY <1>4 DEF FeedbackInOrder, Settled, h, recent

-----------------------------------------------------------------------------
(***************************************************************************)
(* The lists of behavior_profile.                                          *)
(***************************************************************************)

NamesOf(values, table) == {k[2] : k \in {k \in DOMAIN values : k[1] = table}}
Place(values, table, S, x) == Cardinality({y \in S : Before(values, table, y, x)}) + 1

\* The entries of a table are numbers, by name.
Listed(values, table) ==
    /\ Numbers(values)
    /\ \A k \in DOMAIN values : k[1] = table => k = <<table, k[2]>> /\ k[2] \in Names

\* Names are finitely many and differ by their place in the alphabet.
LEMMA NamesIndexed ==
    /\ IsFiniteSet(Names)
    /\ \A x \in Names : Index(x) \in Nat /\ NameOrder[Index(x)] = x
<1>1. NameOrder \in Seq(Names)
  BY MemoryAssumption
<1>2. DOMAIN NameOrder = 1..Len(NameOrder) /\ Len(NameOrder) \in Nat
  BY <1>1, LenProperties
<1>3. Names = {NameOrder[i] : i \in DOMAIN NameOrder}
  BY DEF Names, ToSet
<1>4. IsFiniteSet(DOMAIN NameOrder)
  BY <1>2, FS_Interval
<1>5. IsFiniteSet(Names)
  BY <1>3, <1>4, ImageIsFinite
<1>6. ASSUME NEW x \in Names PROVE Index(x) \in Nat /\ NameOrder[Index(x)] = x
  <2>1. \E i \in DOMAIN NameOrder : NameOrder[i] = x
    BY <1>3
  <2>2. Index(x) \in DOMAIN NameOrder /\ NameOrder[Index(x)] = x
    BY <2>1, Zenon DEF Index
  <2>3. QED  BY <1>2, <2>2
<1>7. QED  BY <1>5, <1>6

\* Sorting by value and then by name puts all names into one order.
LEMMA InOneOrder ==
    ASSUME NEW values, NEW table, Listed(values, table)
    PROVE  LET S == NamesOf(values, table) IN
           /\ IsFiniteSet(S) /\ S \subseteq Names
           /\ \A x \in S : <<table, x>> \in DOMAIN values /\ values[<<table, x>>] \in Nat
           /\ \A x \in S : ~Before(values, table, x, x)
           /\ \A x, y, z \in S : Before(values, table, x, y) /\ Before(values, table, y, z)
                                    => Before(values, table, x, z)
           /\ \A x, y \in S : x # y => Before(values, table, x, y) \/ Before(values, table, y, x)
<1> DEFINE S == NamesOf(values, table)
           v(x) == values[<<table, x>>]
<1>1. \A x \in S : <<table, x>> \in DOMAIN values /\ x \in Names
  BY DEF NamesOf, Listed
<1>2. \A x \in S : v(x) \in Nat
  BY <1>1 DEF Listed, Numbers
<1>3. IsFiniteSet(Names) /\ \A x \in Names : Index(x) \in Nat /\ NameOrder[Index(x)] = x
  BY NamesIndexed
<1>4. S \subseteq Names
  BY <1>1
<1> HIDE DEF S
<1>5. IsFiniteSet(S)
  BY <1>3, <1>4, FS_Subset
<1>6. \A x, y : Before(values, table, x, y) <=> v(x) > v(y) \/ (v(x) = v(y) /\ Index(x) < Index(y))
  BY DEF Before
<1> HIDE DEF v
<1>7. \A x \in S : v(x) \in Nat /\ Index(x) \in Nat
  BY <1>2, <1>3, <1>4
<1>8. \A x, y \in S : Index(x) = Index(y) => x = y
  BY <1>3, <1>4
<1>9. /\ \A x \in S : ~Before(values, table, x, x)
      /\ \A x, y, z \in S : Before(values, table, x, y) /\ Before(values, table, y, z)
                                    => Before(values, table, x, z)
  BY <1>6, <1>7
<1>10. \A x, y \in S : x # y => Before(values, table, x, y) \/ Before(values, table, y, x)
  BY <1>6, <1>7, <1>8
<1>11. QED  BY <1>1, <1>2, <1>4, <1>5, <1>9, <1>10 DEF S, v

\* Each place of the order is taken by a name.
LEMMA PlacesTaken ==
    ASSUME NEW values, NEW table, Listed(values, table)
    PROVE  LET S == NamesOf(values, table) IN
           \A n \in 1..Cardinality(S) : \E x \in S : Place(values, table, S, x) = n
<1> DEFINE S == NamesOf(values, table)
           size == Cardinality(S)
           before(x) == {y \in S : Before(values, table, y, x)}
           f == [x \in S |-> Place(values, table, S, x)]
           I == 1..size
<1>1. /\ IsFiniteSet(S)
      /\ \A x \in S : x \notin before(x)
      /\ \A x, y \in S : Before(values, table, x, y) => before(x) \subseteq before(y)
      /\ \A x, y \in S : x # y => x \in before(y) \/ y \in before(x)
  <2>1. /\ IsFiniteSet(S)
        /\ \A x \in S : ~Before(values, table, x, x)
        /\ \A x, y, z \in S : Before(values, table, x, y) /\ Before(values, table, y, z)
                                    => Before(values, table, x, z)
        /\ \A x, y \in S : x # y => Before(values, table, x, y) \/ Before(values, table, y, x)
    BY InOneOrder
  <2> HIDE DEF S
  <2>2. QED  BY <2>1
<1>2. \A x \in S : Place(values, table, S, x) = Cardinality(before(x)) + 1
  BY DEF Place
<1> HIDE DEF S
<1>3. size \in Nat /\ IsFiniteSet(I) /\ Cardinality(I) = size
  BY <1>1, FS_CardinalityType, FS_Interval
<1>4. \A x \in S : IsFiniteSet(before(x)) /\ Cardinality(before(x)) \in Nat
  <2>1. \A x : before(x) \in SUBSET S
    OBVIOUS
  <2> HIDE DEF before
  <2>2. QED  BY <1>1, <2>1, FS_Subset, FS_CardinalityType
<1>5. ASSUME NEW x \in S PROVE Place(values, table, S, x) \in I
  <2> DEFINE T == S \ {x}
  <2>1. before(x) \in SUBSET T /\ T \in SUBSET S
    BY <1>1
  <2>2. IsFiniteSet(T) /\ Cardinality(T) = size - 1
    BY <1>1, FS_RemoveElement
  <2> HIDE DEF T, before
  <2>3. Cardinality(before(x)) <= Cardinality(T)
    BY <2>1, <2>2, FS_Subset
  <2> HIDE DEF size
  <2>4. QED  BY <1>2, <1>3, <1>4, <2>2, <2>3
<1>6. ASSUME NEW x \in S, NEW y \in S, x \in before(y)
      PROVE  Place(values, table, S, x) < Place(values, table, S, y)
  <2> DEFINE T == before(y) \ {x}
  <2>1. before(x) \in SUBSET T
    BY <1>1, <1>6
  <2> HIDE DEF before
  <2>2. IsFiniteSet(T) /\ Cardinality(T) = Cardinality(before(y)) - 1
    BY <1>4, <1>6, FS_RemoveElement
  <2> HIDE DEF T
  <2>3. Cardinality(before(x)) <= Cardinality(T)
    BY <2>1, <2>2, FS_Subset
  <2>4. QED  BY <1>2, <1>4, <2>2, <2>3
<1> HIDE DEF before, I, size
<1>7. f \in Injection(S, I)
  <2>1. f \in [S -> I]
    BY <1>5
  <2>2. ASSUME NEW x \in S, NEW y \in S, f[x] = f[y] PROVE x = y
    <3>1. Place(values, table, S, x) = Place(values, table, S, y)
      BY <2>2
    <3>2. Place(values, table, S, x) \in Int
      BY <1>3, <1>5 DEF I
    <3>3. x \notin before(y) /\ y \notin before(x)
      BY <1>6, <3>1, <3>2
    <3>4. QED  BY <1>1, <3>3
  <2> HIDE DEF f
  <2>3. QED  BY <2>1, <2>2 DEF Injection, IsInjective
<1>8. f \in Surjection(S, I)
  <2> HIDE DEF f
  <2>1. Cardinality(S) = size
    BY DEF size
  <2>2. QED  BY <1>1, <1>3, <1>7, <2>1, FS_Injection
<1>9. ASSUME NEW n \in I PROVE \E x \in S : Place(values, table, S, x) = n
  <2>1. PICK x \in S : f[x] = n
    <3> HIDE DEF f
    <3>1. QED  BY <1>8 DEF Surjection
  <2>2. QED  BY <2>1
<1>10. QED  BY <1>9 DEF I, size, S

\* A list is empty only if its table is, and names that are worth more than all
\* others come first.
LEMMA BestFirst ==
    ASSUME NEW values, NEW table, Listed(values, table), NEW limit \in Positive
    PROVE  LET S == NamesOf(values, table) IN
           /\ Best(values, table, limit) = <<>> => S = {}
           /\ \A L \in SUBSET S :
                (\A x \in L : \A y \in S \ L : values[<<table, x>>] > values[<<table, y>>]) =>
                \A n \in 1..limit : n <= Cardinality(L) => Best(values, table, limit)[n] \in L
<1> DEFINE S == NamesOf(values, table)
           list == Best(values, table, limit)
           size == IF Cardinality(S) < limit THEN Cardinality(S) ELSE limit
<1>1. IsFiniteSet(S)
  BY InOneOrder
<1>2. \A n \in 1..Cardinality(S) : \E x \in S : Place(values, table, S, x) = n
  BY PlacesTaken
<1>3. list = [n \in 1..size |-> CHOOSE x \in S : Place(values, table, S, x) = n]
  BY DEF Best, NamesOf, Place
<1> HIDE DEF S, list
<1>4. Cardinality(S) \in Nat /\ limit \in Nat /\ limit > 0
  BY <1>1, FS_CardinalityType DEF Positive
<1>5. ASSUME list = <<>>, S # {} PROVE FALSE
  <2>1. Cardinality(S) # 0
    BY <1>1, <1>5, FS_EmptySet
  <2>2. size \in Nat /\ size >= 1
    BY <1>4, <2>1
  <2> HIDE DEF size
  <2>3. DOMAIN list = 1..size /\ DOMAIN list = {}
    BY <1>3, <1>5, EmptySeq
  <2>4. 1 \in 1..size
    BY <2>2
  <2>5. QED  BY <2>3, <2>4
<1>6. ASSUME NEW L \in SUBSET S,
             \A x \in L : \A y \in S \ L : values[<<table, x>>] > values[<<table, y>>],
             NEW n \in 1..limit, n <= Cardinality(L)
      PROVE  list[n] \in L
  <2>1. IsFiniteSet(L) /\ Cardinality(L) <= Cardinality(S)
    BY <1>1, FS_Subset
  <2>2. Cardinality(L) \in Nat
    BY <2>1, FS_CardinalityType
  <2>3. n \in 1..size /\ n \in 1..Cardinality(S)
    BY <1>4, <1>6, <2>1, <2>2
  <2> DEFINE z == CHOOSE x \in S : Place(values, table, S, x) = n
  <2>4. list[n] = z
    <3> HIDE DEF size
    <3>1. QED  BY <1>3, <2>3
  <2>5. z \in S /\ Place(values, table, S, z) = n
    <3>1. \E x \in S : Place(values, table, S, x) = n
      BY <1>2, <2>3
    <3>2. QED  BY <3>1, Zenon
  <2> HIDE DEF z, size
  <2>6. ASSUME z \notin L PROVE FALSE
    <3> DEFINE B == {y \in S : Before(values, table, y, z)}
    <3>1. \A x \in L : Before(values, table, x, z)
      BY <1>6, <2>5, <2>6 DEF Before
    <3>2. L \in SUBSET B /\ B \in SUBSET S
      BY <3>1
    <3>3. n = Cardinality(B) + 1
      BY <2>5 DEF Place
    <3> HIDE DEF B
    <3>4. IsFiniteSet(B)
      BY <1>1, <3>2, FS_Subset
    <3>5. Cardinality(B) \in Nat /\ Cardinality(L) <= Cardinality(B)
      BY <3>2, <3>4, FS_Subset, FS_CardinalityType
    <3>6. QED  BY <1>6, <2>2, <3>3, <3>5
  <2>7. QED  BY <2>4, <2>6
<1>7. QED  BY <1>5, <1>6 DEF S, list

\* The foreground entries of a window are its packages.
LEMMA ForegroundEntries ==
    ASSUME NEW input \in Inputs, NEW k \in DOMAIN WindowEntries(input), k[1] = "foreground"
    PROVE  k = <<"foreground", k[2]>> /\ k[2] \in input.foreground /\ k[2] \in Names
<1> DEFINE acts == input.actions
           key(a) == <<Outcome(a.terminal), a.type>>
           listed == {"foreground"} \X input.foreground \cup {"notifying"} \X input.notified
                     \cup {"hints"} \X input.hints
           audited == {key(acts[n]) : n \in DOMAIN acts}
<1>1. /\ input.foreground \subseteq Names
      /\ \A n \in DOMAIN acts : acts[n] \in AuditedActions
  BY InputFacts
<1>2. DOMAIN WindowEntries(input) = listed \cup audited
  BY DEF WindowEntries
<1>3. \A a \in AuditedActions : key(a)[1] \in {"Succeeded", "Failed", "Denied"}
  BY DEF AuditedActions, Outcome, Denied
<1> HIDE DEF key
<1>4. \A j \in audited : j[1] \in {"Succeeded", "Failed", "Denied"}
  BY <1>1, <1>3
<1> HIDE DEF audited
<1>5. k \in listed
  BY <1>2, <1>4
<1>6. k \in {"foreground"} \X input.foreground
  BY <1>5
<1>7. QED  BY <1>1, <1>6

\* The foreground tables of a memory hold packages of its windows.
LEMMA ForegroundListed ==
    ASSUME NEW m, IsMemory(m)
    PROVE  /\ Listed(m.momentum, "foreground") /\ Listed(m.counts, "foreground")
           /\ \A i \in DOMAIN m.history : \A p \in m.history[i].input.foreground :
                p \in NamesOf(m.counts, "foreground")
<1> DEFINE h == m.history
<1>1. /\ h \in Histories /\ Numbers(m.counts) /\ Numbers(m.momentum) /\ CountedIn(m)
  BY DEF IsMemory
<1>2. \A i \in DOMAIN h : h[i].input \in Inputs
  <2>1. \A i \in DOMAIN h : h[i] \in Observations
    BY <1>1, LenProperties, ElementOfSeq DEF Histories
  <2>2. QED  BY <2>1 DEF Observations
<1>3. /\ DOMAIN m.momentum \subseteq DOMAIN m.counts
      /\ \A k : k[1] \notin {"hit", "miss"} => (k \in DOMAIN m.counts <=> k \in KeysOf(h))
  BY <1>1 DEF CountedIn, EntryOf
<1> HIDE DEF h
<1>4. ASSUME NEW k \in DOMAIN m.counts, k[1] = "foreground"
      PROVE  k = <<"foreground", k[2]>> /\ k[2] \in Names
  <2>1. k \in KeysOf(h)
    BY <1>3, <1>4
  <2>2. PICK i \in DOMAIN h : k \in DOMAIN WindowEntries(h[i].input)
    BY <2>1 DEF KeysOf
  <2>3. QED  BY <1>2, <1>4, <2>2, ForegroundEntries
<1>5. Listed(m.momentum, "foreground") /\ Listed(m.counts, "foreground")
  BY <1>1, <1>3, <1>4 DEF Listed
<1>6. ASSUME NEW i \in DOMAIN h, NEW p \in h[i].input.foreground
      PROVE  p \in NamesOf(m.counts, "foreground")
  <2> DEFINE k == <<"foreground", p>>
  <2>1. k \in DOMAIN WindowEntries(h[i].input)
    BY <1>2, WindowAdds
  <2>2. k[1] = "foreground" /\ k[2] = p
    OBVIOUS
  <2> HIDE DEF k
  <2>3. k \in KeysOf(h)
    BY <2>1 DEF KeysOf
  <2>4. k \in DOMAIN m.counts
    BY <1>3, <2>2, <2>3
  <2>5. QED  BY <2>2, <2>4 DEF NamesOf
<1>7. QED  BY <1>5, <1>6 DEF h

\* The profile of a memory that has observed a window.
LEMMA RecentComesFirst ==
    ASSUME MemoryInv, memory.history # <<>>
    PROVE  RecentFirst
<1> DEFINE m == memory
           h == m.history
           latest == h[Len(h)].input.foreground
           S == NamesOf(m.momentum, "foreground")
           C == NamesOf(m.counts, "foreground")
           list == ProfileList(m, "foreground")
<1>1. IsMemory(m)
  BY AlwaysTrue
<1>2. /\ h \in Histories /\ LatestIn(m) /\ m.topLimit \in Positive /\ Numbers(m.momentum)
  BY <1>1 DEF IsMemory
<1>3. /\ Listed(m.momentum, "foreground") /\ Listed(m.counts, "foreground")
      /\ \A i \in DOMAIN h : \A p \in h[i].input.foreground : p \in C
  BY <1>1, ForegroundListed
<1>4. /\ Best(m.momentum, "foreground", m.topLimit) = <<>> => S = {}
      /\ \A L \in SUBSET S :
            (\A x \in L : \A y \in S \ L :
                m.momentum[<<"foreground", x>>] > m.momentum[<<"foreground", y>>]) =>
            \A n \in 1..m.topLimit : n <= Cardinality(L) =>
                Best(m.momentum, "foreground", m.topLimit)[n] \in L
  BY <1>2, <1>3, BestFirst
<1>5. Best(m.counts, "foreground", m.topLimit) = <<>> => C = {}
  BY <1>2, <1>3, BestFirst
<1>6. list = IF S # {} THEN Best(m.momentum, "foreground", m.topLimit)
             ELSE Best(m.counts, "foreground", m.topLimit)
  <2>1. S # {} <=> \E k \in DOMAIN m.momentum : k[1] = "foreground"
    BY DEF NamesOf
  <2>2. QED  BY <2>1 DEF ProfileList
<1>7. ASSUME list = <<>> PROVE \A i \in DOMAIN h : h[i].input.foreground = {}
  <2> HIDE DEF list, S, C, h
  <2>1. C = {}
    BY <1>4, <1>5, <1>6, <1>7
  <2>2. QED  BY <1>3, <2>1
<1>8. ASSUME \A i \in DOMAIN h : 2 * h[i].decay < 1000,
             NEW n \in 1..m.topLimit, n <= Cardinality(latest)
      PROVE  list[n] \in latest
  <2>1. \A p : Score(m, p) >= ScoreUnit <=> p \in latest
    BY <1>2, <1>8 DEF LatestIn, Quick
  <2>2. \A p : p \in S => /\ <<"foreground", p>> \in DOMAIN m.momentum
                          /\ m.momentum[<<"foreground", p>>] \in Nat
    BY <1>3, InOneOrder
  <2>3. ASSUME NEW p PROVE Score(m, p) \in Nat
    BY <1>2, EntryIsNatural DEF Score
  <2>4. \A p \in S : Score(m, p) = m.momentum[<<"foreground", p>>]
    BY <2>2 DEF Score, Entry
  <2>5. latest \in SUBSET S
    <3>1. ASSUME NEW p \in latest PROVE p \in S
      <4> DEFINE k == <<"foreground", p>>
      <4>1. Score(m, p) >= ScoreUnit
        BY <2>1
      <4>2. Score(m, p) # 0
        BY <2>3, <4>1 DEF ScoreUnit
      <4>3. k \in DOMAIN m.momentum
        BY <4>2 DEF Score, Entry
      <4>4. k[1] = "foreground" /\ k[2] = p
        OBVIOUS
      <4> HIDE DEF k
      <4>5. QED  BY <4>3, <4>4 DEF NamesOf
    <3>2. QED  BY <3>1
  <2>6. \A x \in latest : \A y \in S \ latest :
            m.momentum[<<"foreground", x>>] > m.momentum[<<"foreground", y>>]
    <3>1. ASSUME NEW x \in latest, NEW y \in S \ latest
          PROVE  m.momentum[<<"foreground", x>>] > m.momentum[<<"foreground", y>>]
      <4>1. x \in S /\ Score(m, x) >= ScoreUnit /\ ~(Score(m, y) >= ScoreUnit)
        BY <2>1, <2>5
      <4>2. Score(m, x) > Score(m, y)
        BY <2>3, <4>1 DEF ScoreUnit
      <4>3. QED  BY <2>4, <4>1, <4>2
    <3>2. QED  BY <3>1
  <2>7. Best(m.momentum, "foreground", m.topLimit)[n] \in latest
    <3> HIDE DEF S, latest
    <3>1. QED  BY <1>4, <1>8, <2>5, <2>6
  <2>8. S # {}
    <3>1. Cardinality(latest) # 0
      <4>1. IsFiniteSet(S)
        BY <1>3, InOneOrder
      <4>2. IsFiniteSet(latest)
        BY <2>5, <4>1, FS_Subset
      <4>3. Cardinality(latest) \in Nat
        BY <4>2, FS_CardinalityType
      <4> HIDE DEF latest
      <4>4. QED  BY <1>2, <1>8, <4>3 DEF Positive
    <3>2. latest # {}
      BY <3>1, FS_EmptySet
    <3>3. QED  BY <2>5, <3>2
  <2>9. QED  BY <1>6, <2>7, <2>8
<1>9. QED  BY <1>7, <1>8 DEF RecentFirst

\* What the model is told of the past is so, for any number of windows, restarts
\* and changes of the configuration: the feedback is on a run of the latest
\* windows, with the verdicts the later ones give, and with decays below a half
\* behavior_profile names the packages of the latest window first.
THEOREM FeedbackIsExact == Spec => []FeedbackMatchesHistory
<1>1. MemoryInv => FeedbackMatchesHistory
  BY FeedbackHolds, RecentComesFirst DEF FeedbackMatchesHistory
<1>2. QED  BY <1>1, MemoryInvariance, PTL

=============================================================================
