-------------------------- MODULE JsonlTailerProofs --------------------------
(***************************************************************************)
(* Proofs about JsonlTailer, for rows of any shape and number, however the *)
(* appends, clears, kills, polls and restarts interleave.                  *)
(***************************************************************************)
EXTENDS JsonlTailer, WellFoundedInduction, FiniteSetTheorems, SequenceTheorems, TLAPS

-----------------------------------------------------------------------------
(***************************************************************************)
(* The n-th element of a finite set of positions.                          *)
(***************************************************************************)
UpTo(E, i) == {j \in E : j <= i}

\* A set of naturals that is not empty has a least element.
LEMMA LeastNatural ==
    ASSUME NEW T \in SUBSET Nat, T # {}
    PROVE  \E x \in T : \A y \in T : x <= y
<1> DEFINE R == {ss \in Nat \X Nat : ss[1] < ss[2]}
<1>1. OpToRel(<, Nat) = R
  BY Zenon DEF OpToRel
<1>2. IsWellFoundedOn(R, Nat)
  BY <1>1, NatLessThanWellFounded, Zenon
<1>3. \A a, b \in Nat : a < b => <<a, b>> \in R
  OBVIOUS
<1> HIDE DEF R
<1>4. PICK x \in T : \A y \in T : ~(<<y, x>> \in R)
  BY <1>2, WFMin
<1>5. \A y \in T : ~(y < x)
  BY <1>3, <1>4
<1>6. \A y \in T : x <= y
  BY <1>5
<1>7. QED  BY <1>6

\* What a set of positions consists of.
LEMMA RangeElements ==
    ASSUME NEW k \in Nat, NEW T, T \subseteq 1..k, NEW t \in T
    PROVE  t \in Nat /\ 1 <= t /\ t <= k /\ k - t \in Nat
<1>1. t \in 1..k  OBVIOUS
<1>2. QED  BY <1>1

\* A set of naturals that is not empty, and has a bound, has a greatest element.
LEMMA GreatestNatural ==
    ASSUME NEW k \in Nat, NEW T, T \subseteq 1..k, T # {}
    PROVE  \E x \in T : \A y \in T : y <= x
<1> DEFINE U == {k - t : t \in T}
<1>0. \A t \in T : t \in Nat /\ t <= k /\ k - t \in Nat
  BY RangeElements
<1>1. U \in SUBSET Nat /\ U # {}
  BY <1>0
<1>2. PICK u \in U : \A v \in U : u <= v
  <2> HIDE DEF U
  <2>1. QED  BY <1>1, LeastNatural
<1>3. PICK x \in T : u = k - x
  BY <1>2
<1>4. ASSUME NEW y \in T PROVE y <= x
  <2>1. u <= k - y
    BY <1>2
  <2>2. x \in Nat /\ y \in Nat
    BY <1>0
  <2>3. QED  BY <1>3, <2>1, <2>2
<1>5. QED  BY <1>4

\* How the elements up to i grow with i.
LEMMA UpToGrows ==
    ASSUME NEW k \in Nat, NEW E, \A e \in E : e \in Nat /\ 1 <= e /\ e <= k
    PROVE  /\ UpTo(E, 0) = {} /\ UpTo(E, k) = E
           /\ \A i, j \in Nat : i <= j => UpTo(E, i) \subseteq UpTo(E, j)
           /\ \A i \in Nat, j \in E : i < j =>
                j \notin UpTo(E, i) /\ UpTo(E, i) \cup {j} \subseteq UpTo(E, j)
           /\ \A i \in Nat :
                /\ i + 1 \notin UpTo(E, i)
                /\ UpTo(E, i + 1)
                    = UpTo(E, i) \cup (IF i + 1 \in E THEN {i + 1} ELSE {})
BY DEF UpTo

\* How the number of elements up to i grows with i.
LEMMA CountUpTo ==
    ASSUME NEW k \in Nat, NEW E, E \subseteq 1..k
    PROVE  /\ IsFiniteSet(E) /\ Cardinality(E) \in Nat
           /\ UpTo(E, 0) = {} /\ UpTo(E, k) = E
           /\ \A i \in Nat : /\ IsFiniteSet(UpTo(E, i))
                             /\ Cardinality(UpTo(E, i)) \in 0..Cardinality(E)
           /\ \A i, j \in Nat : i <= j =>
                Cardinality(UpTo(E, i)) <= Cardinality(UpTo(E, j))
           /\ \A i \in Nat, j \in E : i < j =>
                Cardinality(UpTo(E, i)) < Cardinality(UpTo(E, j))
           /\ \A i \in Nat : Cardinality(UpTo(E, i + 1)) =
                Cardinality(UpTo(E, i)) + IF i + 1 \in E THEN 1 ELSE 0
<1>0. \A e \in E : e \in Nat /\ 1 <= e /\ e <= k
  BY RangeElements
<1>1. IsFiniteSet(1..k)
  BY FS_Interval
<1>2. IsFiniteSet(E) /\ Cardinality(E) \in Nat
  BY <1>1, FS_Subset, FS_CardinalityType
<1>3. UpTo(E, 0) = {} /\ UpTo(E, k) = E
  BY <1>0, UpToGrows
<1>4. ASSUME NEW i \in Nat
      PROVE  /\ IsFiniteSet(UpTo(E, i)) /\ Cardinality(UpTo(E, i)) \in Nat
             /\ Cardinality(UpTo(E, i)) <= Cardinality(E)
  <2>1. UpTo(E, i) \subseteq E
    BY DEF UpTo
  <2>2. QED  BY <1>2, <2>1, FS_Subset, FS_CardinalityType
<1>5. ASSUME NEW i \in Nat, NEW j \in Nat, i <= j
      PROVE  Cardinality(UpTo(E, i)) <= Cardinality(UpTo(E, j))
  <2>1. UpTo(E, i) \subseteq UpTo(E, j)
    BY <1>0, <1>5, UpToGrows
  <2>2. QED  BY <1>4, <2>1, FS_Subset
<1>6. ASSUME NEW i \in Nat, NEW j \in E, i < j
      PROVE  Cardinality(UpTo(E, i)) < Cardinality(UpTo(E, j))
  <2>1. j \in Nat /\ j \notin UpTo(E, i) /\ UpTo(E, i) \cup {j} \subseteq UpTo(E, j)
    BY <1>0, <1>6, UpToGrows
  <2>2. Cardinality(UpTo(E, i) \cup {j}) = Cardinality(UpTo(E, i)) + 1
    BY <1>4, <2>1, FS_AddElement
  <2>3. Cardinality(UpTo(E, i) \cup {j}) <= Cardinality(UpTo(E, j))
    BY <1>4, <2>1, FS_Subset
  <2>4. QED  BY <1>4, <2>1, <2>2, <2>3
<1>7. ASSUME NEW i \in Nat
      PROVE  Cardinality(UpTo(E, i + 1)) =
                Cardinality(UpTo(E, i)) + IF i + 1 \in E THEN 1 ELSE 0
  <2>1. /\ i + 1 \notin UpTo(E, i)
        /\ UpTo(E, i + 1) = UpTo(E, i) \cup (IF i + 1 \in E THEN {i + 1} ELSE {})
    BY <1>0, UpToGrows
  <2>2. CASE i + 1 \in E
    BY <1>4, <2>1, <2>2, FS_AddElement
  <2>3. CASE i + 1 \notin E
    <3>1. UpTo(E, i + 1) = UpTo(E, i)
      BY <2>1, <2>3
    <3>2. QED  BY <1>4, <2>3, <3>1
  <2>4. QED  BY <2>2, <2>3
<1>8. QED  BY <1>2, <1>3, <1>4, <1>5, <1>6, <1>7

\* Nth enumerates the set: each element once, in order.
LEMMA NthEnumerates ==
    ASSUME NEW k \in Nat, NEW E, E \subseteq 1..k
    PROVE  /\ \A n \in 1..Cardinality(E) : Nth(E, n) \in E
           /\ \A n, m \in 1..Cardinality(E) : n < m => Nth(E, n) < Nth(E, m)
           /\ \A e \in E : \E n \in 1..Cardinality(E) : Nth(E, n) = e
<1> DEFINE C(i) == Cardinality(UpTo(E, i))
           N == Cardinality(E)
<1>0. \A e \in E : e \in Nat /\ 0 < e
  BY RangeElements
<1>1. /\ N \in Nat /\ C(0) = 0 /\ C(k) = N
      /\ \A i \in Nat : C(i) \in 0..N
      /\ \A i, j \in Nat : i <= j => C(i) <= C(j)
      /\ \A i \in Nat, j \in E : i < j => C(i) < C(j)
      /\ \A i \in Nat : C(i + 1) = C(i) + IF i + 1 \in E THEN 1 ELSE 0
  <2>1. C(0) = 0
    BY CountUpTo, FS_EmptySet
  <2>2. N \in Nat /\ C(k) = N
    BY CountUpTo
  <2>3. \A i \in Nat : C(i) \in 0..N
    BY CountUpTo
  <2>4. \A i, j \in Nat : i <= j => C(i) <= C(j)
    BY CountUpTo
  <2>5. \A i \in Nat, j \in E : i < j => C(i) < C(j)
    BY CountUpTo
  <2>6. \A i \in Nat : C(i + 1) = C(i) + IF i + 1 \in E THEN 1 ELSE 0
    BY CountUpTo
  <2>7. QED  BY <2>1, <2>2, <2>3, <2>4, <2>5, <2>6
<1>2. \A n : Nth(E, n) = CHOOSE i \in E : C(i) = n
  BY DEF Nth, UpTo
<1> HIDE DEF C, N
<1>3. ASSUME NEW n \in 1..N PROVE Nth(E, n) \in E /\ C(Nth(E, n)) = n
  <2> DEFINE T == {i \in Nat : C(i) >= n}
  <2>1. T \in SUBSET Nat /\ k \in T
    BY <1>1
  <2>2. PICK x \in T : \A y \in T : x <= y
    <3> HIDE DEF T
    <3>1. QED  BY <2>1, LeastNatural
  <2>3. x \in Nat /\ C(x) >= n /\ x # 0
    BY <1>1, <2>2
  <2>4. x - 1 \in Nat /\ x - 1 + 1 = x /\ C(x - 1) < n
    BY <1>1, <2>2, <2>3
  <2>5. C(x) = C(x - 1) + IF x \in E THEN 1 ELSE 0
    BY <1>1, <2>4
  <2>6. x \in E /\ C(x) = n
    <3>1. C(x - 1) \in Nat
      BY <1>1, <2>4
    <3>2. QED  BY <2>3, <2>4, <2>5, <3>1
  <2>7. QED  BY <1>2, <2>6
<1>4. ASSUME NEW n \in 1..N, NEW m \in 1..N, n < m PROVE Nth(E, n) < Nth(E, m)
  <2>1. Nth(E, n) \in Nat /\ Nth(E, m) \in Nat
    BY <1>0, <1>3
  <2>2. Nth(E, m) <= Nth(E, n) => m <= n
    BY <1>1, <1>3, <2>1
  <2>3. QED  BY <1>1, <1>4, <2>1, <2>2
<1>5. ASSUME NEW e \in E PROVE \E n \in 1..N : Nth(E, n) = e
  <2>1. e \in Nat /\ C(e) \in 1..N
    <3>1. e \in Nat /\ 0 < e
      BY <1>0
    <3>2. C(0) < C(e) /\ C(e) \in 0..N
      BY <1>1, <3>1
    <3>3. QED  BY <1>1, <3>1, <3>2
  <2> DEFINE f == Nth(E, C(e))
  <2>2. f \in E /\ C(f) = C(e)
    BY <1>3, <2>1
  <2> HIDE DEF f
  <2>3. f \in Nat
    BY <1>0, <2>2
  <2>4. ~(e < f) /\ ~(f < e)
    <3>1. e < f => C(e) < C(f)
      BY <1>1, <2>1, <2>2
    <3>2. f < e => C(f) < C(e)
      BY <1>1, <2>3
    <3>3. C(e) \in Nat
      BY <1>1, <2>1
    <3>4. QED  BY <2>2, <3>1, <3>2, <3>3
  <2>5. f = e
    BY <2>1, <2>3, <2>4
  <2>6. QED  BY <2>1, <2>5 DEF f
<1>6. QED  BY <1>3, <1>4, <1>5 DEF N

-----------------------------------------------------------------------------
(***************************************************************************)
(* Lines.                                                                  *)
(***************************************************************************)
Cells == [row : Nat, kind : Kinds]

\* rfind('\n').
LEMMA LastNewlineIsLast ==
    ASSUME NEW s \in Seq(Cells)
    PROVE  /\ Len(s) \in Nat /\ DOMAIN s = 1..Len(s)
           /\ Newlines(s) \subseteq 1..Len(s)
           /\ LastNewline(s) \in 0..Len(s)
           /\ \A i \in Newlines(s) : i <= LastNewline(s)
           /\ LastNewline(s) # 0 => LastNewline(s) \in Newlines(s)
           /\ Newlines(s) = {} => LastNewline(s) = 0
<1>1. Len(s) \in Nat /\ DOMAIN s = 1..Len(s)
  BY LenProperties
<1>2. Newlines(s) \subseteq 1..Len(s)
  BY <1>1 DEF Newlines
<1>3. CASE Newlines(s) = {}
  <2>1. LastNewline(s) = 0
    BY <1>3 DEF LastNewline
  <2>2. QED  BY <1>1, <1>2, <1>3, <2>1
<1>4. CASE Newlines(s) # {}
  <2> DEFINE N == Newlines(s)
  <2>1. \E x \in N : \A y \in N : y <= x
    <3> HIDE DEF N
    <3>1. N \subseteq 1..Len(s) /\ N # {}
      BY <1>2, <1>4 DEF N
    <3>2. QED  BY <1>1, <3>1, GreatestNatural
  <2>2. LastNewline(s) = CHOOSE x \in N : \A y \in N : y <= x
    BY <1>4 DEF LastNewline
  <2>3. LastNewline(s) \in N /\ \A y \in N : y <= LastNewline(s)
    <3> HIDE DEF N
    <3>1. QED  BY <2>1, <2>2
  <2>4. LastNewline(s) \in 1..Len(s)
    BY <1>2, <2>3
  <2>5. QED  BY <1>1, <1>2, <1>4, <2>3, <2>4
<1>5. QED  BY <1>3, <1>4

\* The complete lines hold all newlines, and what is left over holds none.
LEMMA LinesTaken ==
    ASSUME NEW s \in Seq(Cells)
    PROVE  LET l == SubSeq(s, 1, LastNewline(s))
               r == SubSeq(s, LastNewline(s) + 1, Len(s))
           IN  /\ l \in Seq(Cells) /\ Len(l) = LastNewline(s)
               /\ \A i \in 1..LastNewline(s) : l[i] = s[i]
               /\ Newlines(l) = Newlines(s)
               /\ r \in Seq(Cells) /\ Len(r) = Len(s) - LastNewline(s)
               /\ \A i \in 1..Len(r) : r[i] = s[LastNewline(s) + i]
               /\ \A i \in DOMAIN r : r[i].kind # "newline"
<1> DEFINE n == LastNewline(s)
           l == SubSeq(s, 1, n)
           r == SubSeq(s, n + 1, Len(s))
<1>1. /\ Len(s) \in Nat /\ DOMAIN s = 1..Len(s) /\ n \in 0..Len(s)
      /\ \A i \in Newlines(s) : i <= n
  BY LastNewlineIsLast
<1>2. \A i \in 1..Len(s) : s[i] \in Cells
  BY <1>1, ElementOfSeq
<1> HIDE DEF n
<1>3. n \in Int /\ 1 \in Int /\ n + 1 \in Int /\ Len(s) \in Int /\ n \in Nat /\ n <= Len(s)
  BY <1>1
<1>4. /\ \A i \in 1..n : s[i] \in Cells
      /\ \A i \in (n + 1)..Len(s) : s[i] \in Cells
  BY <1>2, <1>3
<1>5. /\ l \in Seq(Cells) /\ Len(l) = IF 1 <= n THEN n - 1 + 1 ELSE 0
      /\ \A i \in 1..(n - 1 + 1) : l[i] = s[1 + i - 1]
  BY <1>3, <1>4, SubSeqProperties
<1>6. /\ r \in Seq(Cells)
      /\ Len(r) = IF n + 1 <= Len(s) THEN Len(s) - (n + 1) + 1 ELSE 0
      /\ \A i \in 1..(Len(s) - (n + 1) + 1) : r[i] = s[n + 1 + i - 1]
  BY <1>3, <1>4, SubSeqProperties
<1> HIDE DEF l, r
<1>7. Len(l) = n /\ \A i \in 1..n : l[i] = s[i]
  BY <1>3, <1>5
<1>8. Len(r) = Len(s) - n /\ \A i \in 1..Len(r) : r[i] = s[n + i]
  BY <1>3, <1>6
<1>9. DOMAIN l = 1..n /\ DOMAIN r = 1..Len(r)
  BY <1>5, <1>6, <1>7, LenProperties
<1>10. Newlines(l) = Newlines(s)
  <2>1. \A i \in Newlines(s) : i \in 1..n
    BY <1>1, <1>3 DEF Newlines
  <2>2. \A i \in 1..n : i \in 1..Len(s)
    BY <1>3
  <2>3. QED  BY <1>1, <1>7, <1>9, <2>1, <2>2 DEF Newlines
<1>11. ASSUME NEW i \in DOMAIN r PROVE r[i].kind # "newline"
  <2>1. i \in 1..Len(r) /\ n + i \in 1..Len(s) /\ ~(n + i <= n)
    BY <1>3, <1>8, <1>9
  <2>2. n + i \notin Newlines(s)
    BY <1>1, <2>1
  <2>3. QED  BY <1>1, <1>8, <2>1, <2>2 DEF Newlines
<1>12. QED  BY <1>5, <1>6, <1>7, <1>8, <1>10, <1>11 DEF l, r, n

\* parse_complete_lines returns the rows of the lines, in the lines' order.
LEMMA RowsInOrder ==
    ASSUME NEW s \in Seq(Cells)
    PROVE  LET R == RowsOf(s) IN
           /\ R \in Seq(Nat) /\ Len(R) \in Nat /\ DOMAIN R = 1..Len(R)
           /\ \A n \in 1..Len(R) : \E i \in Newlines(s) : R[n] = s[i].row
           /\ \A n, m \in 1..Len(R) : n < m =>
                \E i, j \in Newlines(s) : i < j /\ R[n] = s[i].row /\ R[m] = s[j].row
           /\ \A i \in LineEnds(s) : \E n \in 1..Len(R) : R[n] = s[i].row
<1> DEFINE E == LineEnds(s)
           R == RowsOf(s)
           N == Cardinality(E)
<1>1. /\ Len(s) \in Nat /\ DOMAIN s = 1..Len(s)
      /\ E \subseteq Newlines(s) /\ E \subseteq 1..Len(s)
  BY LastNewlineIsLast DEF LineEnds
<1>2. \A i \in E : s[i].row \in Nat
  <2>1. \A i \in 1..Len(s) : s[i] \in Cells
    BY <1>1, ElementOfSeq
  <2>2. QED  BY <1>1, <2>1 DEF Cells
<1>3. R = [n \in 1..N |-> s[Nth(E, n)].row]
  BY DEF RowsOf
<1> HIDE DEF E, R
<1>4. /\ N \in Nat
      /\ \A n \in 1..N : Nth(E, n) \in E
      /\ \A n, m \in 1..N : n < m => Nth(E, n) < Nth(E, m)
      /\ \A e \in E : \E n \in 1..N : Nth(E, n) = e
  <2>1. N \in Nat
    BY <1>1, CountUpTo
  <2>2. Len(s) \in Nat /\ E \subseteq 1..Len(s)
    BY <1>1
  <2>3. QED  BY <2>1, <2>2, NthEnumerates
<1> HIDE DEF N
<1>5. /\ R \in [1..N -> Nat]
      /\ \A n \in 1..N : R[n] = s[Nth(E, n)].row
  BY <1>2, <1>3, <1>4
<1>6. R \in Seq(Nat) /\ Len(R) = N /\ DOMAIN R = 1..N
  BY <1>4, <1>5
<1>7. \A n \in 1..N : \E i \in Newlines(s) : R[n] = s[i].row
  BY <1>1, <1>4, <1>5
<1>8. ASSUME NEW n \in 1..N, NEW m \in 1..N, n < m
      PROVE  \E i, j \in Newlines(s) : i < j /\ R[n] = s[i].row /\ R[m] = s[j].row
  BY <1>1, <1>4, <1>5, <1>8
<1>9. \A i \in E : \E n \in 1..N : R[n] = s[i].row
  BY <1>4, <1>5
<1>10. QED  BY <1>4, <1>6, <1>7, <1>8, <1>9 DEF E, R


-----------------------------------------------------------------------------
(***************************************************************************)
(* The writer.  Rows reach the file in the order of their numbers, each    *)
(* ends with its only newline, and another begins after it.  Until a row   *)
(* is left unfinished, every line of the file is exactly one row.          *)
(***************************************************************************)
Written == file \o unwritten

Ordered(w) ==
    \A i, j \in DOMAIN w : i < j =>
        w[i].row <= w[j].row /\ (w[i].kind = "newline" => w[i].row < w[j].row)
Begins(w) == \A i, j \in DOMAIN w : j = i + 1 /\ w[i].kind = "newline" => w[j].kind = "brace"
Numbered(w) == \A i \in DOMAIN w : w[i].row \in 1..rows

\* The line that ends at i is exactly a row.
WholeLine(w, i) ==
    LET l == length[w[i].row] IN
    /\ l \in 2..i
    /\ \A j \in (i - l + 1)..i : w[j].row = w[i].row
    /\ \A j \in (i - l + 1)..(i - 1) : w[j].kind # "newline"
    /\ l < i => w[i - l].kind = "newline"
Whole(w) ==
    /\ \A i \in Newlines(w) : WholeLine(w, i)
    /\ Len(w) > 0 => w[Len(w)].kind = "newline"

WriterInv ==
    /\ file \in Seq(Cells) /\ unwritten \in Seq(Cells)
    /\ rows \in Nat /\ length \in Seq(Nat) /\ Len(length) = rows
    /\ clears \in Nat /\ torn \in Nat
    /\ Ordered(Written) /\ Begins(Written) /\ Numbered(Written)
    /\ torn = 0 => Whole(Written)

\* The file is the beginning of what is written.
LEMMA FileIsWritten ==
    ASSUME WriterInv
    PROVE  /\ Written \in Seq(Cells)
           /\ Len(file) \in Nat /\ Len(unwritten) \in Nat /\ Len(Written) \in Nat
           /\ Len(Written) = Len(file) + Len(unwritten)
           /\ DOMAIN file = 1..Len(file) /\ DOMAIN Written = 1..Len(Written)
           /\ \A i \in 1..Len(file) : Written[i] = file[i] /\ file[i] \in Cells
           /\ \A i \in 1..Len(Written) : Written[i] \in Cells
<1>1. file \in Seq(Cells) /\ unwritten \in Seq(Cells)
  BY DEF WriterInv
<1>2. /\ Written \in Seq(Cells) /\ Len(Written) = Len(file) + Len(unwritten)
      /\ \A i \in 1..(Len(file) + Len(unwritten)) :
            Written[i] = IF i <= Len(file) THEN file[i] ELSE unwritten[i - Len(file)]
  BY <1>1, ConcatProperties DEF Written
<1>3. /\ Len(file) \in Nat /\ Len(unwritten) \in Nat /\ Len(Written) \in Nat
      /\ DOMAIN file = 1..Len(file) /\ DOMAIN Written = 1..Len(Written)
  BY <1>1, <1>2, LenProperties
<1>4. \A i \in 1..Len(file) : i <= Len(file) /\ i \in 1..(Len(file) + Len(unwritten))
  BY <1>3
<1>5. /\ \A i \in 1..Len(file) : file[i] \in Cells
      /\ \A i \in 1..Len(Written) : Written[i] \in Cells
  BY <1>1, <1>2, ElementOfSeq
<1>6. QED  BY <1>2, <1>3, <1>4, <1>5

\* append(): what is added to it.
LEMMA Appended ==
    ASSUME WriterInv, Append1
    PROVE  \E z \in Shapes :
           LET n == Len(Written)
               m == Len(z)
           IN  /\ m \in Nat /\ m > 1 /\ n \in Nat
               /\ z[1] = "brace" /\ \A i \in 1..m : z[i] = "newline" <=> i = m
               /\ unwritten' \in Seq(Cells) /\ Written' \in Seq(Cells)
               /\ Len(Written') = n + m /\ DOMAIN Written' = 1..(n + m)
               /\ \A i \in 1..n : Written'[i] = Written[i]
               /\ \A i \in (n + 1)..(n + m) :
                    Written'[i].row = rows + 1 /\ Written'[i].kind = z[i - n]
               /\ rows' = rows + 1 /\ file' = file
               /\ length' = Append(length, m)
<1>1. PICK z \in Shapes :
        /\ unwritten' = [i \in DOMAIN z |-> [row |-> rows + 1, kind |-> z[i]]]
        /\ length' = Append(length, Len(z))
  BY DEF Append1
<1>2. /\ unwritten = <<>> /\ rows' = rows + 1 /\ file' = file
  BY DEF Append1
<1> DEFINE n == Len(Written)
           m == Len(z)
<1>3. /\ z \in Seq(Kinds) /\ m > 1 /\ z[1] = "brace"
      /\ \A i \in 1..m : z[i] = "newline" <=> i = m
  BY TailerAssumption
<1>4. m \in Nat /\ DOMAIN z = 1..m /\ \A i \in 1..m : z[i] \in Kinds
  BY <1>3, LenProperties, ElementOfSeq
<1>5. n \in Nat /\ file \in Seq(Cells) /\ rows \in Nat
  BY FileIsWritten DEF WriterInv
<1>6. Written = file
  BY <1>2, <1>5, ConcatEmptySeq DEF Written
<1> HIDE DEF m
<1>7. unwritten' \in [1..m -> Cells]
  BY <1>1, <1>4, <1>5 DEF Cells
<1>8. unwritten' \in Seq(Cells) /\ Len(unwritten') = m
  BY <1>4, <1>7
<1>9. /\ Written' \in Seq(Cells) /\ Len(Written') = n + m
      /\ \A i \in 1..(n + m) :
            Written'[i] = IF i <= n THEN file[i] ELSE unwritten'[i - n]
  <2>1. Written' = file \o unwritten' /\ n = Len(file)
    BY <1>2, <1>6 DEF Written
  <2> HIDE DEF n
  <2>2. QED  BY <1>5, <1>8, <2>1, ConcatProperties
<1>10. DOMAIN Written' = 1..(n + m)
  BY <1>9, LenProperties
<1>11. \A i \in 1..n : Written'[i] = Written[i]
  <2> HIDE DEF n
  <2>1. QED  BY <1>4, <1>5, <1>6, <1>9
<1>12. ASSUME NEW i \in (n + 1)..(n + m)
       PROVE  Written'[i].row = rows + 1 /\ Written'[i].kind = z[i - n]
  <2> HIDE DEF n
  <2>1. i \in 1..(n + m) /\ ~(i <= n) /\ i - n \in 1..m
    BY <1>4, <1>5
  <2>2. Written'[i] = unwritten'[i - n]
    BY <1>9, <2>1
  <2>3. QED  BY <1>1, <1>4, <2>1, <2>2
<1>13. QED
  BY <1>1, <1>2, <1>3, <1>4, <1>5, <1>8, <1>9, <1>10, <1>11, <1>12 DEF m


\* append() keeps the order of the rows and the shape of the lines.
LEMMA AppendKeeps ==
    ASSUME WriterInv, Append1
    PROVE  /\ WriterInv' /\ file' = file /\ rows' = rows + 1 /\ torn' = torn
           /\ Len(Written) <= Len(Written')
           /\ \A i \in 1..Len(Written) : Written'[i] = Written[i]
           /\ \A i \in 1..Len(Written') : i > Len(Written) => Written'[i].row = rows + 1
<1> DEFINE w == Written
           v == Written'
           n == Len(Written)
<1>1. PICK z \in Shapes :
        LET m == Len(z)
        IN  /\ m \in Nat /\ m > 1 /\ n \in Nat
            /\ z[1] = "brace" /\ \A i \in 1..m : z[i] = "newline" <=> i = m
            /\ unwritten' \in Seq(Cells) /\ v \in Seq(Cells)
            /\ Len(v) = n + m /\ DOMAIN v = 1..(n + m)
            /\ \A i \in 1..n : v[i] = w[i]
            /\ \A i \in (n + 1)..(n + m) : v[i].row = rows + 1 /\ v[i].kind = z[i - n]
            /\ rows' = rows + 1 /\ file' = file
            /\ length' = Append(length, m)
  BY Appended
<1> HIDE DEF w, v, n
<1> DEFINE m == Len(z)
<1>2. /\ m \in Nat /\ m > 1 /\ n \in Nat /\ z[1] = "brace"
      /\ \A i \in 1..m : z[i] = "newline" <=> i = m
      /\ Len(v) = n + m /\ DOMAIN v = 1..(n + m)
      /\ \A i \in 1..n : v[i] = w[i]
  BY <1>1
<1>3. \A i \in (n + 1)..(n + m) : v[i].row = rows + 1 /\ v[i].kind = z[i - n]
  BY <1>1
<1>4. /\ rows \in Nat /\ length \in Seq(Nat) /\ Len(length) = rows /\ DOMAIN w = 1..n
      /\ Ordered(w) /\ Begins(w) /\ Numbered(w)
      /\ torn = 0 => Whole(w)
  BY FileIsWritten DEF WriterInv, w, n
<1>5. torn' = torn /\ clears' = clears
  BY DEF Append1
<1> HIDE DEF m
<1>6. \A i \in 1..(n + m) : i \in 1..n \/ i \in (n + 1)..(n + m)
  BY <1>2
<1>7. \A i \in (n + 1)..(n + m) : v[i].kind = "newline" <=> i = n + m
  <2> SUFFICES ASSUME NEW i \in (n + 1)..(n + m)
               PROVE  v[i].kind = "newline" <=> i = n + m
    OBVIOUS
  <2>1. i - n \in 1..m /\ (i - n = m <=> i = n + m)
    BY <1>2
  <2>2. QED  BY <1>2, <1>3, <2>1
<1>8. \A i \in 1..n : w[i].row \in 1..rows
  BY <1>4 DEF Numbered
<1>9. Ordered(v)
  <2> SUFFICES ASSUME NEW i \in 1..(n + m), NEW j \in 1..(n + m), i < j
               PROVE  v[i].row <= v[j].row /\ (v[i].kind = "newline" => v[i].row < v[j].row)
    BY <1>2 DEF Ordered
  <2>1. CASE j \in 1..n
    <3>1. i \in 1..n
      BY <1>2, <2>1
    <3>2. QED  BY <1>2, <1>4, <2>1, <3>1 DEF Ordered
  <2>2. CASE i \in 1..n /\ j \in (n + 1)..(n + m)
    <3>1. v[i].row \in 1..rows /\ v[j].row = rows + 1
      BY <1>2, <1>3, <1>8, <2>2
    <3>2. QED  BY <1>4, <3>1
  <2>3. CASE i \in (n + 1)..(n + m) /\ j \in (n + 1)..(n + m)
    <3>1. v[i].row = rows + 1 /\ v[j].row = rows + 1
      BY <1>3, <2>3
    <3>2. v[i].kind # "newline"
      BY <1>2, <1>7, <2>3
    <3>3. QED  BY <1>4, <3>1, <3>2
  <2>4. QED  BY <1>6, <2>1, <2>2, <2>3
<1>10. Begins(v)
  <2> SUFFICES ASSUME NEW i \in 1..(n + m), NEW j \in 1..(n + m), j = i + 1,
                      v[i].kind = "newline"
               PROVE  v[j].kind = "brace"
    BY <1>2 DEF Begins
  <2>1. CASE j \in 1..n
    <3>1. i \in 1..n
      BY <1>2, <2>1
    <3>2. w[i].kind = "newline" => w[j].kind = "brace"
      BY <1>4, <2>1, <3>1 DEF Begins
    <3>3. QED  BY <1>2, <2>1, <3>1, <3>2
  <2>2. CASE i \in 1..n /\ j \in (n + 1)..(n + m)
    <3>1. j - n = 1
      BY <1>2, <2>2
    <3>2. QED  BY <1>2, <1>3, <2>2, <3>1
  <2>3. CASE i \in (n + 1)..(n + m)
    <3>1. i = n + m
      BY <1>7, <2>3
    <3>2. QED  BY <1>2, <3>1
  <2>4. QED  BY <1>6, <2>1, <2>2, <2>3
<1>11. \A i \in 1..(n + m) : v[i].row \in 1..(rows + 1)
  <2> SUFFICES ASSUME NEW i \in 1..(n + m) PROVE v[i].row \in 1..(rows + 1)
    OBVIOUS
  <2>1. CASE i \in 1..n
    <3>1. v[i].row \in 1..rows
      BY <1>2, <1>8, <2>1
    <3>2. QED  BY <1>4, <3>1
  <2>2. CASE i \in (n + 1)..(n + m)
    BY <1>3, <1>4, <2>2
  <2>3. QED  BY <1>6, <2>1, <2>2
<1>12. /\ length' \in Seq(Nat) /\ Len(length') = rows + 1
       /\ \A r \in 1..rows : length'[r] = length[r]
       /\ length'[rows + 1] = m
  <2>1. length' = Append(length, m)
    BY <1>1 DEF m
  <2>2. QED  BY <1>2, <1>4, <2>1, AppendProperties
<1>13. ASSUME torn = 0 PROVE Whole(Written)'
  <2>1. \A i \in Newlines(w) : WholeLine(w, i)
    BY <1>4, <1>13 DEF Whole
  <2>2. n > 0 => w[n].kind = "newline"
    BY <1>4, <1>13 DEF Whole, n, w
  <2>3. ASSUME NEW i \in Newlines(v)
        PROVE  LET l == length'[v[i].row] IN
               /\ l \in 2..i
               /\ \A j \in (i - l + 1)..i : v[j].row = v[i].row
               /\ \A j \in (i - l + 1)..(i - 1) : v[j].kind # "newline"
               /\ l < i => v[i - l].kind = "newline"
    <3>1. i \in 1..(n + m) /\ v[i].kind = "newline"
      BY <1>2 DEF Newlines
    <3>2. CASE i \in 1..n
      <4> DEFINE l == length[w[i].row]
      <4>1. v[i] = w[i] /\ i \in Newlines(w)
        BY <1>2, <1>4, <3>1, <3>2 DEF Newlines
      <4>2. length'[v[i].row] = l
        BY <1>8, <1>12, <3>2, <4>1
      <4>3. /\ l \in 2..i
            /\ \A j \in (i - l + 1)..i : w[j].row = w[i].row
            /\ \A j \in (i - l + 1)..(i - 1) : w[j].kind # "newline"
            /\ l < i => w[i - l].kind = "newline"
        BY <2>1, <4>1 DEF WholeLine
      <4> HIDE DEF l
      <4>4. \A j \in (i - l + 1)..i : j \in 1..n
        BY <1>2, <3>2, <4>3
      <4>5. \A j \in (i - l + 1)..(i - 1) : j \in 1..n
        BY <1>2, <3>2, <4>3
      <4>6. l < i => i - l \in 1..n
        BY <1>2, <3>2, <4>3
      <4>7. QED  BY <1>2, <4>1, <4>2, <4>3, <4>4, <4>5, <4>6
    <3>3. CASE i \in (n + 1)..(n + m)
      <4>1. i = n + m /\ v[i].row = rows + 1 /\ length'[v[i].row] = m
        BY <1>3, <1>7, <1>12, <3>1, <3>3
      <4>2. m \in 2..i /\ i - m = n
        BY <1>2, <4>1
      <4>3. \A j \in (n + 1)..i : v[j].row = rows + 1
        BY <1>3, <4>1
      <4>4. \A j \in (n + 1)..(i - 1) : v[j].kind # "newline"
        <5> SUFFICES ASSUME NEW j \in (n + 1)..(i - 1) PROVE v[j].kind # "newline"
          OBVIOUS
        <5>1. j \in (n + 1)..(n + m) /\ j # n + m
          BY <1>2, <4>1
        <5>2. QED  BY <1>7, <5>1
      <4>5. m < i => v[n].kind = "newline"
        <5>1. m < i => n \in 1..n /\ n > 0
          BY <1>2, <4>1
        <5>2. QED  BY <1>2, <2>2, <5>1
      <4>6. QED  BY <4>1, <4>2, <4>3, <4>4, <4>5
    <3>4. QED  BY <1>6, <3>1, <3>2, <3>3
  <2>4. v[n + m].kind = "newline"
    <3>1. n + m \in (n + 1)..(n + m)
      BY <1>2
    <3>2. QED  BY <1>7, <3>1
  <2>5. \A i \in Newlines(v) : WholeLine(Written, i)'
    BY <2>3 DEF WholeLine, v
  <2>6. QED  BY <1>2, <2>4, <2>5 DEF Whole, v
<1>14. WriterInv'
  <2>1. file' \in Seq(Cells) /\ unwritten' \in Seq(Cells) /\ clears \in Nat /\ torn \in Nat
    BY <1>1 DEF WriterInv
  <2>2. rows' = rows + 1
    BY <1>1
  <2>3. Numbered(Written)'
    BY <1>2, <1>11, <2>2 DEF Numbered, v
  <2>4. Ordered(Written)' /\ Begins(Written)'
    BY <1>9, <1>10 DEF Ordered, Begins, v
  <2>5. QED  BY <1>4, <1>5, <1>12, <1>13, <2>1, <2>2, <2>3, <2>4 DEF WriterInv
<1>15. \A i \in 1..(n + m) : i > n => v[i].row = rows + 1
  BY <1>2, <1>3
<1>16. n <= n + m
  BY <1>2
<1>17. QED  BY <1>1, <1>2, <1>5, <1>14, <1>15, <1>16 DEF n, v, w


\* Appending cells is associative.
LEMMA CellsAssociate ==
    ASSUME NEW s \in Seq(Cells), NEW t \in Seq(Cells), NEW u \in Seq(Cells)
    PROVE  (s \o t) \o u = s \o (t \o u)
BY ConcatAssociative

\* A piece of the row goes to the end of the file; what is written, once the
\* row is, stays the same.
LEMMA PieceKeeps ==
    ASSUME WriterInv, WritePiece
    PROVE  /\ WriterInv' /\ Written' = Written /\ rows' = rows /\ torn' = torn
           /\ Len(file) <= Len(file')
           /\ \A i \in 1..Len(file) : file'[i] = file[i]
<1>1. PICK n \in 1..Len(unwritten) :
        /\ file' = file \o SubSeq(unwritten, 1, n)
        /\ unwritten' = SubSeq(unwritten, n + 1, Len(unwritten))
  BY DEF WritePiece
<1>2. UNCHANGED <<rows, length, clears, torn>>
  BY DEF WritePiece
<1> DEFINE a == SubSeq(unwritten, 1, n)
           b == SubSeq(unwritten, n + 1, Len(unwritten))
           l == Len(unwritten)
<1>3. file \in Seq(Cells) /\ unwritten \in Seq(Cells) /\ l \in Nat /\ Len(file) \in Nat
  BY FileIsWritten DEF WriterInv
<1>4. \A i \in 1..l : unwritten[i] \in Cells
  BY <1>3, ElementOfSeq
<1>5. n \in 1..l /\ 1 \in 1..(l + 1) /\ n \in (1 - 1)..l /\ l \in n..l
      /\ n \in Int /\ 1 \in Int /\ n + 1 \in Int /\ l \in Int
  BY <1>3
<1>6. a \in Seq(Cells) /\ b \in Seq(Cells)
  <2>1. /\ \A i \in 1..n : unwritten[i] \in Cells
        /\ \A i \in (n + 1)..l : unwritten[i] \in Cells
    BY <1>3, <1>4, <1>5
  <2>2. QED  BY <1>5, <2>1, SubSeqProperties
<1>7. a \o b = unwritten
  <2>1. a \o b = SubSeq(unwritten, 1, l)
    BY <1>3, <1>5, ConcatAdjacentSubSeq
  <2>2. QED  BY <1>3, <2>1, SubSeqFull
<1> HIDE DEF a, b, l
<1>8. file' = file \o a /\ unwritten' = b
  BY <1>1 DEF a, b, l
<1>9. (file \o a) \o b = file \o (a \o b)
  BY <1>3, <1>6, CellsAssociate
<1>10. Written' = Written
  BY <1>7, <1>8, <1>9 DEF Written
<1>11. /\ file' \in Seq(Cells) /\ Len(file') = Len(file) + Len(a) /\ Len(a) \in Nat
       /\ \A i \in 1..(Len(file) + Len(a)) :
            file'[i] = IF i <= Len(file) THEN file[i] ELSE a[i - Len(file)]
  BY <1>3, <1>6, <1>8, ConcatProperties, LenProperties
<1>12. Len(file) <= Len(file') /\ \A i \in 1..Len(file) : file'[i] = file[i]
  BY <1>3, <1>11
<1>13. WriterInv'
  <2>1. /\ Ordered(Written)' /\ Begins(Written)' /\ Numbered(Written)'
    BY <1>2, <1>10 DEF WriterInv, Ordered, Begins, Numbered
  <2>2. torn = 0 => Whole(Written)'
    BY <1>2, <1>10 DEF WriterInv, Whole, WholeLine
  <2>3. QED  BY <1>2, <1>6, <1>8, <1>11, <2>1, <2>2 DEF WriterInv
<1>14. QED  BY <1>2, <1>10, <1>12, <1>13

\* Killed inside an append: what is written ends with the file as it is.
LEMMA KilledKeeps ==
    ASSUME WriterInv, Killed
    PROVE  /\ WriterInv' /\ Written' = file /\ rows' = rows /\ torn' # 0
           /\ file' = file /\ clears' = clears
<1>1. /\ UNCHANGED <<file, rows, length, clears>>
      /\ torn' = torn + 1 /\ unwritten' = <<>> /\ torn \in Nat
  BY DEF Killed, WriterInv
<1>2. /\ file \in Seq(Cells) /\ Len(file) <= Len(Written)
      /\ Len(file) \in Nat /\ Len(Written) \in Nat
      /\ DOMAIN file = 1..Len(file) /\ DOMAIN Written = 1..Len(Written)
      /\ \A i \in 1..Len(file) : Written[i] = file[i]
  BY FileIsWritten DEF WriterInv
<1>3. Written' = file /\ unwritten' \in Seq(Cells)
  BY <1>1, <1>2, ConcatEmptySeq, EmptySeq DEF Written
<1>4. \A i \in 1..Len(file) : i \in 1..Len(Written)
  BY <1>2
<1>5. Ordered(file) /\ Begins(file) /\ Numbered(file)
  <2>1. Ordered(Written) /\ Begins(Written) /\ Numbered(Written)
    BY DEF WriterInv
  <2>2. Ordered(file)
    BY <1>2, <1>4, <2>1 DEF Ordered
  <2>3. Begins(file)
    BY <1>2, <1>4, <2>1 DEF Begins
  <2>4. Numbered(file)
    BY <1>2, <1>4, <2>1 DEF Numbered
  <2>5. QED  BY <2>2, <2>3, <2>4
<1>6. Ordered(Written)' /\ Begins(Written)' /\ Numbered(Written)'
  BY <1>1, <1>3, <1>5 DEF Ordered, Begins, Numbered
<1>7. torn' \in Nat /\ torn' # 0
  BY <1>1
<1>8. WriterInv'
  BY <1>1, <1>2, <1>3, <1>6, <1>7 DEF WriterInv
<1>9. QED  BY <1>1, <1>3, <1>7, <1>8

\* clear(): nothing is written any more.
LEMMA ClearKeeps ==
    ASSUME WriterInv, Clear
    PROVE  /\ WriterInv' /\ Written' = <<>> /\ rows' = rows /\ clears' = clears + 1
<1>1. /\ UNCHANGED <<unwritten, rows, length, torn>> /\ unwritten = <<>>
      /\ file' = <<>> /\ clears' = clears + 1
  BY DEF Clear
<1>2. <<>> \in Seq(Cells) /\ <<>> \o <<>> = <<>>
  BY EmptySeq, ConcatEmptySeq
<1>3. Written' = <<>>
  BY <1>1, <1>2 DEF Written
<1>4. DOMAIN (Written') = {} /\ Len(Written') = 0
  BY <1>3
<1>5. Ordered(Written)' /\ Begins(Written)' /\ Numbered(Written)'
  BY <1>4 DEF Ordered, Begins, Numbered
<1>6. Whole(Written)'
  BY <1>4 DEF Whole, Newlines
<1>7. clears' \in Nat
  BY <1>1 DEF WriterInv
<1>8. WriterInv'
  BY <1>1, <1>2, <1>5, <1>6, <1>7 DEF WriterInv
<1>9. QED  BY <1>1, <1>3, <1>8

-----------------------------------------------------------------------------
(***************************************************************************)
(* The tailer.  Every row it has delivered is older than every row that    *)
(* ends beyond its offset.  Either the offset is within the file and, with *)
(* no partial line held, at the end of a row, or the file was cleared and  *)
(* every row that is in it now is newer than what was delivered.           *)
(***************************************************************************)
Ahead(from) ==
    \A n \in DOMAIN delivered, i \in DOMAIN Written :
        i > from /\ Written[i].kind = "newline" => delivered[n] < Written[i].row
InStep ==
    /\ offset <= Len(file)
    /\ offset # 0 /\ partial = <<>> => file[offset].kind = "newline"

TailInv ==
    /\ offset \in Nat /\ partial \in Seq(Cells) /\ delivered \in Seq(Nat)
    /\ since \in Nat /\ since <= clears
    /\ \A i \in DOMAIN partial : partial[i].kind # "newline"
    /\ \A n \in DOMAIN delivered : delivered[n] <= rows
    /\ InOrderAtMostOnce
    /\ Ahead(offset)
    /\ InStep \/ Ahead(0)

\* What is read from an offset within the file.
LEMMA ReadFrom ==
    ASSUME WriterInv, NEW o \in Nat, o <= Len(file)
    PROVE  /\ From(o) \in Seq(Cells) /\ Len(From(o)) = Len(file) - o
           /\ DOMAIN From(o) = 1..(Len(file) - o)
           /\ \A i \in 1..(Len(file) - o) : From(o)[i] = file[o + i]
<1>1. /\ file \in Seq(Cells) /\ Len(file) \in Nat
      /\ \A i \in 1..Len(file) : file[i] \in Cells
  BY FileIsWritten DEF WriterInv
<1> DEFINE l == Len(file)
           c == From(o)
<1>2. /\ o + 1 \in Int /\ l \in Int
      /\ \A i \in (o + 1)..l : file[i] \in Cells
  BY <1>1
<1>3. /\ c \in Seq(Cells)
      /\ Len(c) = IF o + 1 <= l THEN l - (o + 1) + 1 ELSE 0
      /\ \A i \in 1..(l - (o + 1) + 1) : c[i] = file[o + 1 + i - 1]
  BY <1>2, SubSeqProperties DEF From
<1> HIDE DEF l, c
<1>4. l \in Nat /\ o <= l
  BY <1>1 DEF l
<1>5. Len(c) = l - o /\ \A i \in 1..(l - o) : c[i] = file[o + i]
  BY <1>3, <1>4
<1>6. DOMAIN c = 1..(l - o)
  BY <1>3, <1>5, LenProperties
<1>7. QED  BY <1>3, <1>5, <1>6 DEF l, c

\* Beyond the end of the file there is nothing to read.
LEMMA ReadBeyond ==
    ASSUME WriterInv, NEW o \in Nat, o > Len(file)
    PROVE  From(o) = <<>>
<1>1. Len(file) \in Nat
  BY FileIsWritten
<1>2. o + 1 \in Int /\ Len(file) \in Int /\ ~(o + 1 <= Len(file))
  BY <1>1
<1>3. \A i \in (o + 1)..Len(file) : file[i] \in Cells
  BY <1>1, <1>2
<1>4. From(o) \in Seq(Cells) /\ Len(From(o)) = 0
  BY <1>2, <1>3, SubSeqProperties DEF From
<1>5. QED  BY <1>4, EmptySeq

\* should_rewind_after_chunk_read says yes only of a file that was cleared.
LEMMA NoRewind ==
    ASSUME WriterInv, TailInv, InStep
    PROVE  ~ShouldRewind(From(offset))
<1> SUFFICES ASSUME offset # 0, partial = <<>>, StartsInside(From(offset)) PROVE FALSE
  BY DEF ShouldRewind
<1> DEFINE o == offset
           c == From(o)
           l == Len(file)
<1>1. o \in Nat /\ o # 0 /\ o <= l /\ l \in Nat /\ file[o].kind = "newline"
  BY FileIsWritten DEF InStep, TailInv
<1>2. /\ DOMAIN c = 1..(l - o)
      /\ \A i \in 1..(l - o) : c[i] = file[o + i]
  BY <1>1, ReadFrom
<1>3. PICK i \in DOMAIN c :
        /\ c[i].kind \notin {"newline", "brace"}
        /\ \A j \in 1..(i - 1) : c[j].kind = "newline"
  BY DEF StartsInside
<1> HIDE DEF c
<1>4. i \in Nat /\ 1 <= i /\ 1 \in 1..(l - o) /\ o \in 1..l /\ o + 1 \in 1..l
  BY <1>1, <1>2, <1>3
<1>5. c[1].kind = "brace"
  <2>1. /\ Begins(Written) /\ Len(Written) \in Nat /\ DOMAIN Written = 1..Len(Written)
        /\ l <= Len(Written)
        /\ \A k \in 1..l : Written[k] = file[k]
    BY FileIsWritten DEF WriterInv
  <2>2. o \in DOMAIN Written /\ o + 1 \in DOMAIN Written
    BY <1>1, <1>4, <2>1
  <2>3. Written[o + 1].kind = "brace"
    BY <1>1, <1>4, <2>1, <2>2 DEF Begins
  <2>4. QED  BY <1>2, <1>4, <2>1, <2>3
<1>6. CASE i = 1
  BY <1>3, <1>5, <1>6
<1>7. CASE i # 1
  <2>1. 1 \in 1..(i - 1)
    BY <1>4, <1>7
  <2>2. QED  BY <1>3, <1>5, <2>1
<1>8. QED  BY <1>6, <1>7

\* The text a poll splits: the newlines in it are the file's beyond the offset.
LEMMA TextRead ==
    ASSUME WriterInv, NEW held \in Seq(Cells), NEW o \in Nat, o <= Len(file),
           \A i \in DOMAIN held : held[i].kind # "newline"
    PROVE  LET s == held \o From(o)
               h == Len(held)
           IN  /\ s \in Seq(Cells) /\ h \in Nat /\ Len(s) = h + (Len(file) - o)
               /\ \A i \in 1..h : s[i] = held[i]
               /\ \A i \in 1..(Len(file) - o) : s[h + i] = file[o + i]
               /\ \A i \in Newlines(s) :
                    /\ i \in (h + 1)..(h + (Len(file) - o))
                    /\ s[i] = file[o + (i - h)] /\ file[o + (i - h)].kind = "newline"
<1> DEFINE c == From(o)
           s == held \o c
           h == Len(held)
           l == Len(file)
<1>1. /\ l \in Nat /\ h \in Nat /\ o <= l
      /\ DOMAIN held = 1..h
  BY FileIsWritten, LenProperties
<1>2. /\ c \in Seq(Cells) /\ Len(c) = l - o
      /\ \A i \in 1..(l - o) : c[i] = file[o + i]
  BY ReadFrom
<1> HIDE DEF c, l
<1>3. /\ s \in Seq(Cells) /\ Len(s) = h + (l - o)
      /\ \A i \in 1..(h + (l - o)) : s[i] = IF i <= h THEN held[i] ELSE c[i - h]
  BY <1>2, ConcatProperties
<1>4. DOMAIN s = 1..(h + (l - o))
  BY <1>3, LenProperties
<1> HIDE DEF h, s
<1>5. \A i \in 1..h : s[i] = held[i]
  BY <1>1, <1>3
<1>6. ASSUME NEW i \in 1..(l - o) PROVE s[h + i] = file[o + i]
  <2>1. h + i \in 1..(h + (l - o)) /\ ~(h + i <= h) /\ (h + i) - h = i
    BY <1>1
  <2>2. QED  BY <1>2, <1>3, <2>1
<1>7. ASSUME NEW i \in Newlines(s)
      PROVE  /\ i \in (h + 1)..(h + (l - o))
             /\ s[i] = file[o + (i - h)] /\ file[o + (i - h)].kind = "newline"
  <2>1. i \in 1..(h + (l - o)) /\ s[i].kind = "newline"
    BY <1>4 DEF Newlines
  <2>2. i \notin 1..h
    BY <1>1, <1>5, <2>1
  <2>3. i \in (h + 1)..(h + (l - o)) /\ i - h \in 1..(l - o) /\ h + (i - h) = i
    BY <1>1, <2>1, <2>2
  <2>4. QED  BY <1>6, <2>1, <2>3
<1>8. QED  BY <1>1, <1>3, <1>5, <1>6, <1>7 DEF c, s, h, l

\* take_complete_lines and parse_complete_lines: the rows of lines that end
\* beyond the offset, in order, and a rest without a newline.
LEMMA TakenFrom ==
    ASSUME WriterInv, NEW held \in Seq(Cells), NEW o \in Nat, o < Len(file),
           \A i \in DOMAIN held : held[i].kind # "newline"
    PROVE  LET t == TakeLines(held, From(o))
               R == RowsOf(t.lines)
           IN  /\ t.rest \in Seq(Cells)
               /\ \A i \in DOMAIN t.rest : t.rest[i].kind # "newline"
               /\ t.rest = <<>> => file[Len(file)].kind = "newline"
               /\ R \in Seq(Nat)
               /\ \A n \in DOMAIN R : \E k \in (o + 1)..Len(file) :
                    file[k].kind = "newline" /\ R[n] = file[k].row
               /\ \A n, m \in DOMAIN R : n < m => R[n] < R[m]
<1> DEFINE s == held \o From(o)
           h == Len(held)
           l == Len(file)
           e == LastNewline(s)
           a == SubSeq(s, 1, e)
           r == SubSeq(s, e + 1, Len(s))
           R == RowsOf(a)
<1>1. /\ TakeLines(held, From(o)).lines = a
      /\ TakeLines(held, From(o)).rest = r
  BY DEF TakeLines
<1>2. l \in Nat /\ o < l /\ o <= l
  BY FileIsWritten
<1>3. /\ s \in Seq(Cells) /\ h \in Nat /\ Len(s) = h + (l - o)
      /\ \A i \in 1..(l - o) : s[h + i] = file[o + i]
  BY <1>2, TextRead
<1>4. \A i \in Newlines(s) :
        /\ i \in (h + 1)..(h + (l - o))
        /\ s[i] = file[o + (i - h)] /\ file[o + (i - h)].kind = "newline"
  BY <1>2, TextRead
<1> HIDE DEF s, h, l
<1>5. e \in 0..Len(s) /\ (e # 0 => e \in Newlines(s))
  BY <1>3, LastNewlineIsLast
<1>6. /\ a \in Seq(Cells) /\ Len(a) = e
      /\ \A i \in 1..e : a[i] = s[i]
      /\ Newlines(a) = Newlines(s)
  BY <1>3, LinesTaken
<1>7. /\ r \in Seq(Cells) /\ Len(r) = Len(s) - e
      /\ \A i \in DOMAIN r : r[i].kind # "newline"
  BY <1>3, LinesTaken
<1>8. \A i \in Newlines(s) : i \in 1..e /\ a[i] = s[i]
  <2>1. DOMAIN a = 1..e
    BY <1>6, LenProperties
  <2>2. QED  BY <1>6, <2>1 DEF Newlines
<1> HIDE DEF e, a, r
<1>9. ASSUME r = <<>> PROVE file[l].kind = "newline"
  <2>1. Len(r) = 0
    BY <1>9, EmptySeq
  <2>2. e = h + (l - o) /\ e # 0
    BY <1>2, <1>3, <1>5, <1>7, <2>1
  <2>3. file[o + (e - h)].kind = "newline" /\ o + (e - h) = l
    BY <1>2, <1>3, <1>4, <1>5, <2>2
  <2>4. QED  BY <2>3
<1>10. R \in Seq(Nat) /\ DOMAIN R = 1..Len(R)
  BY <1>6, RowsInOrder
<1>11. \A n \in 1..Len(R) : \E i \in Newlines(s) : R[n] = a[i].row
  BY <1>6, RowsInOrder
<1>12. \A n, m \in 1..Len(R) : n < m =>
         \E i, j \in Newlines(s) : i < j /\ R[n] = a[i].row /\ R[m] = a[j].row
  <2>1. a \in Seq(Cells)
    BY <1>6
  <2>2. \A n, m \in 1..Len(R) : n < m =>
          \E i, j \in Newlines(a) : i < j /\ R[n] = a[i].row /\ R[m] = a[j].row
    BY <2>1, RowsInOrder
  <2> HIDE DEF R
  <2>3. QED  BY <1>6, <2>2
<1> HIDE DEF R
<1>13. ASSUME NEW n \in 1..Len(R)
       PROVE  \E k \in (o + 1)..l : file[k].kind = "newline" /\ R[n] = file[k].row
  <2>1. PICK i \in Newlines(s) : R[n] = a[i].row
    BY <1>11
  <2>2. i \in (h + 1)..(h + (l - o))
    BY <1>4
  <2>3. o + (i - h) \in (o + 1)..l
    BY <1>2, <1>3, <2>2
  <2>4. QED  BY <1>4, <1>8, <2>1, <2>3
<1>14. ASSUME NEW n \in 1..Len(R), NEW m \in 1..Len(R), n < m
       PROVE  R[n] < R[m]
  <2>1. \E i, j \in Newlines(s) : i < j /\ R[n] = a[i].row /\ R[m] = a[j].row
    BY <1>12, <1>14
  <2>2. PICK i \in Newlines(s), j \in Newlines(s) :
          i < j /\ R[n] = a[i].row /\ R[m] = a[j].row
    BY <2>1
  <2> DEFINE x == o + (i - h)
             y == o + (j - h)
  <2>3. /\ i \in (h + 1)..(h + (l - o)) /\ j \in (h + 1)..(h + (l - o))
        /\ a[i] = file[x] /\ a[j] = file[y] /\ file[x].kind = "newline"
    BY <1>4, <1>8
  <2>4. x \in 1..l /\ y \in 1..l /\ x < y
    BY <1>2, <1>3, <2>2, <2>3
  <2> HIDE DEF x, y
  <2>5. /\ Ordered(Written) /\ Len(Written) \in Nat /\ DOMAIN Written = 1..Len(Written)
        /\ l <= Len(Written)
        /\ \A k \in 1..l : Written[k] = file[k]
    BY FileIsWritten DEF WriterInv, l
  <2>6. x \in DOMAIN Written /\ y \in DOMAIN Written
    BY <1>2, <2>4, <2>5
  <2>7. Written[x].row < Written[y].row
    <3>1. Written[x].kind = "newline"
      BY <2>3, <2>4, <2>5
    <3>2. QED  BY <2>4, <2>5, <2>6, <3>1 DEF Ordered
  <2>8. QED  BY <2>2, <2>3, <2>4, <2>5, <2>7
<1>15. QED  BY <1>1, <1>7, <1>9, <1>10, <1>13, <1>14 DEF R, l

\* What a poll may do to the tailer: nothing; forget the offset, the file being
\* another one; or consume the file to its end, from the offset or, the file
\* being another one, from its start.
Parsed(lines) == \A i \in LineEnds(lines) : IsRow(LineEndingAt(lines, i))
Consumed(held, o) ==
    LET t == TakeLines(held, From(o)) IN
    /\ o < Len(file)
    /\ offset' = Len(file)
    /\ partial' = t.rest
    /\ delivered' = delivered \o (IF Parsed(t.lines) THEN RowsOf(t.lines) ELSE <<>>)

LEMMA PollOutcome ==
    ASSUME WriterInv, TailInv, ReadChunk
    PROVE  \/ UNCHANGED <<offset, partial, delivered>>
           \/ ~InStep /\ offset' = 0 /\ partial' = <<>> /\ delivered' = delivered
           \/ offset <= Len(file) /\ Consumed(partial, offset)
           \/ ~InStep /\ Consumed(<<>>, 0)
<1> DEFINE first == From(offset)
           rewind == ValidUtf8(first) /\ ShouldRewind(first)
           A == AfterRead(first)
           l == Len(file)
<1>1. /\ offset' = A.offset /\ partial' = A.partial /\ delivered' = delivered \o A.rows
  BY DEF ReadChunk
<1>2. /\ offset \in Nat /\ l \in Nat /\ delivered \in Seq(Nat) /\ file \in Seq(Cells)
      /\ delivered \o <<>> = delivered
  BY FileIsWritten, ConcatEmptySeq DEF TailInv, WriterInv
<1>3. CASE ~ValidUtf8(first)
  <2>1. A = [offset |-> offset, partial |-> partial, rows |-> <<>>]
    BY <1>3 DEF AfterRead
  <2> HIDE DEF A
  <2>2. QED  BY <1>1, <1>2, <2>1
<1>4. CASE ValidUtf8(first) /\ ShouldRewind(first)
  <2>1. ~InStep
    BY <1>4, NoRewind
  <2>2. From(0) = file
    BY <1>2, SubSeqFull DEF From
  <2>3. CASE ~ValidUtf8(file)
    <3>1. file # <<>>
      BY <2>3 DEF ValidUtf8
    <3>2. A = [offset |-> 0, partial |-> <<>>, rows |-> <<>>]
      BY <1>4, <2>3, <3>1 DEF AfterRead
    <3> HIDE DEF A
    <3>3. QED  BY <1>1, <1>2, <2>1, <3>2
  <2>4. CASE ValidUtf8(file) /\ file = <<>>
    <3>1. A = [offset |-> offset, partial |-> partial, rows |-> <<>>]
      BY <1>4, <2>4 DEF AfterRead
    <3> HIDE DEF A
    <3>2. QED  BY <1>1, <1>2, <3>1
  <2>5. CASE ValidUtf8(file) /\ file # <<>>
    <3> DEFINE t == TakeLines(<<>>, file)
    <3>1. A = [offset |-> l + 0, partial |-> t.rest,
               rows |-> IF Parsed(t.lines) THEN RowsOf(t.lines) ELSE <<>>]
      BY <1>4, <2>5 DEF AfterRead, Parsed
    <3>2. l > 0 /\ l + 0 = l
      <4>1. l # 0
        BY <1>2, <2>5, EmptySeq
      <4>2. QED  BY <1>2, <4>1
    <3> HIDE DEF A, l, t
    <3>3. offset' = l /\ partial' = t.rest
          /\ delivered' = delivered \o (IF Parsed(t.lines) THEN RowsOf(t.lines) ELSE <<>>)
      BY <1>1, <3>1, <3>2
    <3>4. Consumed(<<>>, 0)
      BY <2>2, <3>2, <3>3 DEF Consumed, t, l
    <3>5. QED  BY <2>1, <3>4
  <2>6. QED  BY <2>3, <2>4, <2>5
<1>5. CASE ValidUtf8(first) /\ ~ShouldRewind(first)
  <2>1. CASE first = <<>>
    <3>1. A = [offset |-> offset, partial |-> partial, rows |-> <<>>]
      BY <1>5, <2>1 DEF AfterRead
    <3> HIDE DEF A
    <3>2. QED  BY <1>1, <1>2, <3>1
  <2>2. CASE first # <<>>
    <3> DEFINE t == TakeLines(partial, first)
    <3>1. A = [offset |-> Len(first) + offset, partial |-> t.rest,
               rows |-> IF Parsed(t.lines) THEN RowsOf(t.lines) ELSE <<>>]
      BY <1>5, <2>2 DEF AfterRead, Parsed
    <3>2. offset <= l
      BY <1>2, <2>2, ReadBeyond
    <3>3. first \in Seq(Cells) /\ Len(first) = l - offset
      BY <1>2, <3>2, ReadFrom
    <3>4. offset < l /\ Len(first) + offset = l
      <4>1. Len(first) # 0
        BY <2>2, <3>3, EmptySeq
      <4>2. QED  BY <1>2, <3>2, <3>3, <4>1
    <3> HIDE DEF A, l, t, first
    <3>5. offset' = l /\ partial' = t.rest
          /\ delivered' = delivered \o (IF Parsed(t.lines) THEN RowsOf(t.lines) ELSE <<>>)
      BY <1>1, <3>1, <3>4
    <3>6. Consumed(partial, offset)
      BY <3>4, <3>5 DEF Consumed, t, l, first
    <3>7. QED  BY <3>2, <3>6 DEF l
  <2>3. QED  BY <2>1, <2>2
<1>6. QED  BY <1>3, <1>4, <1>5

\* A poll that consumes the file delivers rows newer than the ones before.
LEMMA ConsumeKeeps ==
    ASSUME WriterInv, TailInv, UNCHANGED <<writerVars, since>>,
           NEW held \in Seq(Cells), \A i \in DOMAIN held : held[i].kind # "newline",
           NEW o \in Nat, Ahead(o), Consumed(held, o)
    PROVE  TailInv'
<1> DEFINE t == TakeLines(held, From(o))
           R == IF Parsed(t.lines) THEN RowsOf(t.lines) ELSE <<>>
           D == delivered
           E == delivered'
           l == Len(file)
           w == Written
<1>1. /\ o < l /\ offset' = l /\ partial' = t.rest /\ E = D \o R
  BY DEF Consumed
<1>2. /\ l \in Nat /\ Len(w) \in Nat /\ DOMAIN w = 1..Len(w) /\ l <= Len(w)
      /\ \A i \in 1..l : w[i] = file[i]
      /\ \A i \in 1..Len(w) : w[i] \in Cells
      /\ Ordered(w) /\ Numbered(w) /\ rows \in Nat
  BY FileIsWritten DEF WriterInv
<1>3. /\ t.rest \in Seq(Cells)
      /\ \A i \in DOMAIN t.rest : t.rest[i].kind # "newline"
      /\ t.rest = <<>> => file[l].kind = "newline"
  BY <1>1, TakenFrom
<1>4. /\ R \in Seq(Nat)
      /\ \A n \in DOMAIN R : \E k \in (o + 1)..l :
            file[k].kind = "newline" /\ R[n] = file[k].row
      /\ \A n, m \in DOMAIN R : n < m => R[n] < R[m]
  <2>1. CASE Parsed(t.lines)
    BY <1>1, <2>1, TakenFrom
  <2>2. CASE ~Parsed(t.lines)
    <3>1. R = <<>>
      BY <2>2
    <3> HIDE DEF R
    <3>2. QED  BY <3>1, EmptySeq
  <2>3. QED  BY <2>1, <2>2
<1>5. /\ D \in Seq(Nat) /\ \A n \in DOMAIN D : D[n] <= rows
      /\ \A n, m \in DOMAIN D : n < m => D[n] < D[m]
  BY DEF TailInv, InOrderAtMostOnce
<1>6. /\ rows' = rows /\ clears' = clears /\ file' = file /\ Written' = w /\ since' = since
  BY DEF writerVars, Written
<1> HIDE DEF t, R, D, E, w
<1>7. /\ E \in Seq(Nat) /\ Len(E) = Len(D) + Len(R)
      /\ \A i \in 1..(Len(D) + Len(R)) : E[i] = IF i <= Len(D) THEN D[i] ELSE R[i - Len(D)]
  BY <1>1, <1>4, <1>5, ConcatProperties
<1>8. /\ Len(D) \in Nat /\ Len(R) \in Nat
      /\ DOMAIN D = 1..Len(D) /\ DOMAIN R = 1..Len(R) /\ DOMAIN E = 1..(Len(D) + Len(R))
  BY <1>4, <1>5, <1>7, LenProperties
<1>9. \A n \in DOMAIN E :
        \/ n \in DOMAIN D /\ E[n] = D[n]
        \/ n - Len(D) \in DOMAIN R /\ n > Len(D) /\ E[n] = R[n - Len(D)]
  BY <1>7, <1>8
<1>10. \A i \in DOMAIN D : D[i] \in Nat
  BY <1>5, ElementOfSeq, <1>8
<1>11. \A i \in DOMAIN w : w[i].row \in 1..rows
  BY <1>2 DEF Numbered
<1>12. ASSUME NEW n \in DOMAIN R
       PROVE  \E k \in 1..l : k > o /\ w[k].kind = "newline" /\ R[n] = w[k].row
                              /\ k \in DOMAIN w
  <2>1. PICK k \in (o + 1)..l : file[k].kind = "newline" /\ R[n] = file[k].row
    BY <1>4
  <2>2. k \in 1..l /\ k > o /\ k \in DOMAIN w
    BY <1>2, <2>1
  <2>3. QED  BY <1>2, <2>1, <2>2
<1>13. ASSUME NEW n \in DOMAIN D, NEW m \in DOMAIN R PROVE D[n] < R[m]
  <2>1. \A i \in DOMAIN w : i > o /\ w[i].kind = "newline" => D[n] < w[i].row
    BY DEF Ahead, D, w
  <2>2. QED  BY <1>12, <2>1
<1>14. ASSUME NEW n \in DOMAIN E PROVE E[n] <= rows
  <2>1. CASE n \in DOMAIN D /\ E[n] = D[n]
    BY <1>5, <2>1
  <2>2. CASE n - Len(D) \in DOMAIN R /\ E[n] = R[n - Len(D)]
    <3>1. PICK k \in 1..l : R[n - Len(D)] = w[k].row /\ k \in DOMAIN w
      BY <1>12, <2>2
    <3>2. E[n] \in 1..rows
      BY <1>11, <2>2, <3>1
    <3>3. QED  BY <1>2, <3>2
  <2>3. QED  BY <1>9, <2>1, <2>2
<1>15. ASSUME NEW n \in DOMAIN E, NEW m \in DOMAIN E, n < m PROVE E[n] < E[m]
  <2>1. CASE n \in DOMAIN D /\ E[n] = D[n] /\ m \in DOMAIN D /\ E[m] = D[m]
    BY <1>5, <1>15, <2>1
  <2>2. CASE /\ n \in DOMAIN D /\ E[n] = D[n]
             /\ m - Len(D) \in DOMAIN R /\ E[m] = R[m - Len(D)]
    BY <1>13, <2>2
  <2>3. CASE /\ n - Len(D) \in DOMAIN R /\ E[n] = R[n - Len(D)]
             /\ m - Len(D) \in DOMAIN R /\ E[m] = R[m - Len(D)]
    <3>1. n - Len(D) < m - Len(D)
      BY <1>8, <1>15
    <3>2. QED  BY <1>4, <2>3, <3>1
  <2>4. CASE n > Len(D) /\ m \in DOMAIN D
    BY <1>8, <1>15, <2>4
  <2>5. QED  BY <1>9, <2>1, <2>2, <2>3, <2>4
<1>16. ASSUME NEW n \in DOMAIN E, NEW i \in DOMAIN w, i > l, w[i].kind = "newline"
       PROVE  E[n] < w[i].row
  <2>1. CASE n \in DOMAIN D /\ E[n] = D[n]
    <3>1. i > o
      BY <1>1, <1>2, <1>16
    <3>2. D[n] < w[i].row
      BY <1>16, <2>1, <3>1 DEF Ahead, D, w
    <3>3. QED  BY <2>1, <3>2
  <2>2. CASE n - Len(D) \in DOMAIN R /\ E[n] = R[n - Len(D)]
    <3>1. PICK k \in 1..l : w[k].kind = "newline" /\ R[n - Len(D)] = w[k].row
                            /\ k \in DOMAIN w
      BY <1>12, <2>2
    <3>2. k < i
      BY <1>2, <1>16, <3>1
    <3>3. w[k].row < w[i].row
      BY <1>2, <3>1, <3>2 DEF Ordered
    <3>4. QED  BY <2>2, <3>1, <3>3
  <2>3. QED  BY <1>9, <2>1, <2>2
<1>17. Ahead(offset)'
  <2>1. \A n \in DOMAIN E, i \in DOMAIN w : i > l /\ w[i].kind = "newline" => E[n] < w[i].row
    BY <1>16
  <2>2. QED  BY <1>1, <1>6, <2>1 DEF Ahead, E
<1>18. InStep'
  BY <1>1, <1>2, <1>3, <1>6 DEF InStep
<1>19. InOrderAtMostOnce'
  BY <1>15 DEF InOrderAtMostOnce, E
<1>20. QED
  <2>1. since' \in Nat /\ since' <= clears'
    BY <1>6 DEF TailInv
  <2>2. \A n \in DOMAIN delivered' : delivered'[n] <= rows'
    BY <1>6, <1>14 DEF E
  <2>3. partial' \in Seq(Cells) /\ \A i \in DOMAIN partial' : partial'[i].kind # "newline"
    BY <1>1, <1>3
  <2>4. offset' \in Nat /\ delivered' \in Seq(Nat)
    BY <1>1, <1>2, <1>7 DEF E
  <2>5. QED  BY <1>17, <1>18, <1>19, <2>1, <2>2, <2>3, <2>4 DEF TailInv

\* A row that is recorded is newer than everything delivered.
LEMMA AppendAhead ==
    ASSUME WriterInv, TailInv, Append1
    PROVE  TailInv'
<1>1. /\ file' = file /\ rows' = rows + 1 /\ Len(Written) <= Len(Written')
      /\ \A i \in 1..Len(Written) : Written'[i] = Written[i]
      /\ \A i \in 1..Len(Written') : i > Len(Written) => Written'[i].row = rows + 1
      /\ WriterInv'
  BY AppendKeeps
<1>2. UNCHANGED <<offset, partial, since, delivered>> /\ clears' = clears
  BY DEF Append1, tailerVars
<1>3. /\ rows \in Nat /\ Len(Written) \in Nat /\ DOMAIN Written = 1..Len(Written)
      /\ \A n \in DOMAIN delivered : delivered[n] \in Nat /\ delivered[n] <= rows
  <2>1. delivered \in Seq(Nat) /\ \A n \in DOMAIN delivered : delivered[n] <= rows
    BY DEF TailInv
  <2>2. \A n \in DOMAIN delivered : delivered[n] \in Nat
    BY <2>1, ElementOfSeq, LenProperties
  <2>3. QED  BY <2>1, <2>2, FileIsWritten DEF WriterInv
<1>4. Len(Written') \in Nat /\ DOMAIN (Written') = 1..Len(Written')
  <2>1. (Len(Written) \in Nat /\ DOMAIN Written = 1..Len(Written))'
    BY <1>1, FileIsWritten, PTL
  <2>2. QED  BY <2>1
<1>5. ASSUME NEW from \in Nat, Ahead(from)
      PROVE  \A n \in DOMAIN delivered, i \in DOMAIN (Written') :
                i > from /\ Written'[i].kind = "newline" => delivered[n] < Written'[i].row
  <2> SUFFICES ASSUME NEW n \in DOMAIN delivered, NEW i \in 1..Len(Written'),
                      i > from, Written'[i].kind = "newline"
               PROVE  delivered[n] < Written'[i].row
    BY <1>4
  <2>1. CASE i > Len(Written)
    BY <1>1, <1>3, <2>1
  <2>2. CASE ~(i > Len(Written))
    <3>1. i \in 1..Len(Written)
      BY <1>3, <1>4, <2>2
    <3>2. QED  BY <1>1, <1>3, <1>5, <3>1 DEF Ahead
  <2>3. QED  BY <2>1, <2>2
<1>6. offset \in Nat /\ 0 \in Nat
  BY DEF TailInv
<1>7. Ahead(offset)'
  <2>1. Ahead(offset)
    BY DEF TailInv
  <2>2. QED  BY <1>2, <1>5, <1>6, <2>1 DEF Ahead
<1>8. InStep' \/ Ahead(0)'
  <2>1. CASE InStep
    BY <1>1, <1>2, <2>1 DEF InStep
  <2>2. CASE Ahead(0)
    BY <1>2, <1>5, <1>6, <2>2 DEF Ahead
  <2>3. QED  BY <2>1, <2>2 DEF TailInv
<1>9. \A n \in DOMAIN delivered' : delivered'[n] <= rows'
  BY <1>1, <1>2, <1>3
<1>10. QED  BY <1>2, <1>7, <1>8, <1>9 DEF TailInv, InOrderAtMostOnce

\* The other steps of the collector leave no newline in the file that was not
\* to come, and take none away but all, or the ones of an unfinished row.
LEMMA WriterAhead ==
    ASSUME WriterInv, TailInv, WritePiece \/ Killed \/ Clear
    PROVE  TailInv'
<1>1. UNCHANGED <<offset, partial, since, delivered>>
  BY DEF WritePiece, Killed, Clear, tailerVars
<1>2. /\ offset \in Nat /\ clears \in Nat
      /\ since \in Nat /\ since <= clears /\ Ahead(offset) /\ (InStep \/ Ahead(0))
      /\ \A n \in DOMAIN delivered : delivered[n] <= rows
  BY DEF TailInv, WriterInv
<1>3. rows' = rows /\ since' <= clears'
  <2>1. CASE WritePiece
    BY <1>1, <1>2, <2>1 DEF WritePiece
  <2>2. CASE Killed
    BY <1>1, <1>2, <2>2 DEF Killed
  <2>3. CASE Clear
    BY <1>1, <1>2, <2>3 DEF Clear
  <2>4. QED  BY <2>1, <2>2, <2>3
<1>4. /\ Len(file) \in Nat /\ Len(Written) \in Nat /\ Len(file) <= Len(Written)
      /\ DOMAIN file = 1..Len(file) /\ DOMAIN Written = 1..Len(Written)
      /\ \A i \in 1..Len(file) : Written[i] = file[i]
  BY FileIsWritten
<1>5. \A i \in DOMAIN (Written') : i \in DOMAIN Written /\ Written'[i] = Written[i]
  <2>1. CASE WritePiece
    BY <2>1, PieceKeeps
  <2>2. CASE Killed
    <3>1. Written' = file
      BY <2>2, KilledKeeps
    <3>2. QED  BY <1>4, <3>1
  <2>3. CASE Clear
    <3>1. Written' = <<>>
      BY <2>3, ClearKeeps
    <3>2. QED  BY <3>1
  <2>4. QED  BY <2>1, <2>2, <2>3
<1>6. /\ Ahead(offset)' /\ (Ahead(0) => Ahead(0)')
  BY <1>1, <1>2, <1>5 DEF Ahead
<1>7. InStep' \/ Ahead(0)'
  <2>1. CASE WritePiece /\ InStep
    <3>1. /\ Len(file') \in Nat /\ Len(file) <= Len(file')
          /\ \A i \in 1..Len(file) : file'[i] = file[i]
      <4>1. WriterInv'
        BY <2>1, PieceKeeps
      <4>2. (Len(file) \in Nat)'
        BY <4>1, FileIsWritten, PTL
      <4>3. QED  BY <2>1, <4>2, PieceKeeps
    <3>2. offset <= Len(file') /\ (offset # 0 => offset \in 1..Len(file))
      BY <1>2, <1>4, <2>1, <3>1 DEF InStep
    <3>3. QED  BY <1>1, <2>1, <3>1, <3>2 DEF InStep
  <2>2. CASE Killed /\ InStep
    BY <1>1, <2>2 DEF InStep, Killed
  <2>3. CASE Clear
    <3>1. Written' = <<>>
      BY <2>3, ClearKeeps
    <3>2. QED  BY <3>1 DEF Ahead
  <2>4. CASE Ahead(0)
    BY <1>6, <2>4
  <2>5. QED  BY <1>2, <2>1, <2>2, <2>3, <2>4
<1>8. \A n \in DOMAIN delivered' : delivered'[n] <= rows'
  BY <1>1, <1>2, <1>3
<1>9. QED  BY <1>1, <1>3, <1>6, <1>7, <1>8 DEF TailInv, InOrderAtMostOnce

\* A poll, and a restart of the daemon.
LEMMA TailerAhead ==
    ASSUME WriterInv, TailInv, CheckLength \/ ReadChunk \/ Restart
    PROVE  TailInv'
<1>1. UNCHANGED writerVars
  BY DEF CheckLength, ReadChunk, Restart
<1>2. rows' = rows /\ clears' = clears /\ file' = file /\ Written' = Written
  BY <1>1 DEF writerVars, Written
<1>3. Len(file) \in Nat /\ rows \in Nat /\ clears \in Nat
      /\ <<>> \in Seq(Cells) /\ <<>> \in Seq(Nat) /\ DOMAIN <<>> = {}
  BY FileIsWritten, EmptySeq DEF WriterInv
<1>4. ASSUME Ahead(0), offset' = 0, partial' = <<>>, UNCHANGED <<since, delivered>>
      PROVE  TailInv'
  <2>1. Ahead(offset)'
    BY <1>2, <1>4 DEF Ahead
  <2>2. InStep'
    BY <1>2, <1>3, <1>4 DEF InStep
  <2>3. QED  BY <1>2, <1>3, <1>4, <2>1, <2>2 DEF TailInv, InOrderAtMostOnce
<1>5. ASSUME UNCHANGED <<offset, partial, since, delivered>>
      PROVE  TailInv'
  BY <1>2, <1>5 DEF TailInv, InOrderAtMostOnce, Ahead, InStep
<1>6. CASE CheckLength
  <2>1. UNCHANGED <<since, delivered>>
    BY <1>6 DEF CheckLength
  <2>2. CASE Len(file) < offset
    <3>1. offset' = 0 /\ partial' = <<>>
      BY <1>6, <2>2 DEF CheckLength
    <3>2. Ahead(0)
      BY <1>3, <2>2 DEF TailInv, InStep
    <3>3. QED  BY <1>4, <2>1, <3>1, <3>2
  <2>3. CASE ~(Len(file) < offset)
    <3>1. UNCHANGED <<offset, partial>>
      BY <1>6, <2>3 DEF CheckLength
    <3>2. QED  BY <1>5, <2>1, <3>1
  <2>4. QED  BY <2>2, <2>3
<1>7. CASE ReadChunk
  <2>1. since' = since
    BY <1>7 DEF ReadChunk
  <2>2. CASE UNCHANGED <<offset, partial, delivered>>
    BY <1>5, <2>1, <2>2
  <2>3. CASE ~InStep /\ offset' = 0 /\ partial' = <<>> /\ delivered' = delivered
    BY <1>4, <2>1, <2>3 DEF TailInv
  <2>4. CASE Consumed(partial, offset)
    <3>1. /\ partial \in Seq(Cells) /\ offset \in Nat /\ Ahead(offset)
          /\ \A i \in DOMAIN partial : partial[i].kind # "newline"
      BY DEF TailInv
    <3>2. QED  BY <1>1, <2>1, <2>4, <3>1, ConsumeKeeps
  <2>5. CASE ~InStep /\ Consumed(<<>>, 0)
    <3>1. Ahead(0) /\ \A i \in DOMAIN <<>> : <<>>[i].kind # "newline"
      BY <1>3, <2>5 DEF TailInv
    <3>2. QED  BY <1>1, <1>3, <2>1, <2>5, <3>1, ConsumeKeeps
  <2>6. QED  BY <1>7, <2>2, <2>3, <2>4, <2>5, PollOutcome
<1>8. CASE Restart
  <2>1. offset' = 0 /\ partial' = <<>> /\ since' = clears /\ delivered' = <<>>
    BY <1>8 DEF Restart
  <2>2. Ahead(offset)' /\ InOrderAtMostOnce'
    BY <1>3, <2>1 DEF Ahead, InOrderAtMostOnce
  <2>3. InStep'
    BY <1>2, <1>3, <2>1 DEF InStep
  <2>4. since' \in Nat /\ since' <= clears'
    BY <1>2, <1>3, <2>1
  <2>5. QED  BY <1>3, <2>1, <2>2, <2>3, <2>4 DEF TailInv
<1>9. QED  BY <1>6, <1>7, <1>8

\* The invariant is kept by every step.
LEMMA TailStep ==
    WriterInv /\ TailInv /\ [Next]_vars => WriterInv' /\ TailInv'
<1> SUFFICES ASSUME WriterInv, TailInv, [Next]_vars PROVE WriterInv' /\ TailInv'
  OBVIOUS
<1>1. ASSUME UNCHANGED writerVars PROVE WriterInv'
  <2>1. UNCHANGED <<file, unwritten, rows, length, clears, torn>> /\ Written' = Written
    BY <1>1 DEF writerVars, Written
  <2>2. QED  BY <2>1 DEF WriterInv, Ordered, Begins, Numbered, Whole, WholeLine
<1>2. CASE Append1
  BY <1>2, AppendKeeps, AppendAhead
<1>3. CASE WritePiece
  BY <1>3, PieceKeeps, WriterAhead
<1>4. CASE Killed
  BY <1>4, KilledKeeps, WriterAhead
<1>5. CASE Clear
  BY <1>5, ClearKeeps, WriterAhead
<1>6. CASE CheckLength \/ ReadChunk \/ Restart
  <2>1. UNCHANGED writerVars
    BY <1>6 DEF CheckLength, ReadChunk, Restart
  <2>2. QED  BY <1>1, <1>6, <2>1, TailerAhead
<1>7. CASE UNCHANGED vars
  <2>1. UNCHANGED writerVars /\ UNCHANGED <<offset, partial, since, delivered>>
    BY <1>7 DEF vars, tailerVars
  <2>2. UNCHANGED <<file, rows, clears>> /\ Written' = Written
    BY <2>1 DEF writerVars, Written
  <2>3. TailInv'
    BY <2>1, <2>2 DEF TailInv, InOrderAtMostOnce, Ahead, InStep
  <2>4. QED  BY <1>1, <2>1, <2>3
<1>8. QED  BY <1>2, <1>3, <1>4, <1>5, <1>6, <1>7 DEF Next

\* The invariant holds of the empty file.
LEMMA TailInit == Init => WriterInv /\ TailInv
<1> SUFFICES ASSUME Init PROVE WriterInv /\ TailInv
  OBVIOUS
<1>1. <<>> \o <<>> = <<>> /\ \A S : <<>> \in Seq(S)
  BY EmptySeq
<1>2. Written = <<>> /\ DOMAIN <<>> = {} /\ Len(<<>>) = 0
  BY <1>1 DEF Init, Written
<1>3. Ordered(Written) /\ Begins(Written) /\ Numbered(Written) /\ Whole(Written)
  BY <1>2 DEF Ordered, Begins, Numbered, Whole, Newlines
<1>4. WriterInv
  BY <1>1, <1>2, <1>3 DEF WriterInv, Init
<1>5. TailInv
  BY <1>1, <1>2 DEF TailInv, Init, InOrderAtMostOnce, Ahead, InStep
<1>6. QED  BY <1>4, <1>5

\* Between two starts of the daemon no row is delivered twice or out of order,
\* whatever the rows look like: should_rewind_after_chunk_read, which starts
\* over at offset 0, says yes only after the file was replaced.
THEOREM InOrder == Spec => []InOrderAtMostOnce
<1>1. Init => WriterInv /\ TailInv
  BY TailInit
<1>2. WriterInv /\ TailInv /\ [Next]_vars => WriterInv' /\ TailInv'
  BY TailStep
<1>3. TailInv => InOrderAtMostOnce
  BY DEF TailInv
<1>4. QED  BY <1>1, <1>2, <1>3, PTL DEF Spec

-----------------------------------------------------------------------------
(***************************************************************************)
(* Nothing is skipped.                                                     *)
(***************************************************************************)

\* A slice of a sequence of cells.
LEMMA Slice ==
    ASSUME NEW s \in Seq(Cells), NEW a \in Nat, NEW b \in Nat, a <= b, b <= Len(s)
    PROVE  LET c == SubSeq(s, a + 1, b) IN
           /\ c \in Seq(Cells) /\ Len(c) = b - a /\ DOMAIN c = 1..(b - a)
           /\ \A i \in 1..(b - a) : c[i] = s[a + i]
<1> DEFINE c == SubSeq(s, a + 1, b)
<1>1. Len(s) \in Nat /\ \A i \in 1..Len(s) : s[i] \in Cells
  BY LenProperties, ElementOfSeq
<1>2. /\ a + 1 \in Int /\ b \in Int
      /\ \A i \in (a + 1)..b : s[i] \in Cells
  BY <1>1
<1>3. /\ c \in Seq(Cells)
      /\ Len(c) = IF a + 1 <= b THEN b - (a + 1) + 1 ELSE 0
      /\ \A i \in 1..(b - (a + 1) + 1) : c[i] = s[a + 1 + i - 1]
  BY <1>2, SubSeqProperties
<1> HIDE DEF c
<1>4. Len(c) = b - a /\ \A i \in 1..(b - a) : c[i] = s[a + i]
  BY <1>3
<1>5. DOMAIN c = 1..(b - a)
  BY <1>3, <1>4, LenProperties
<1>6. QED  BY <1>3, <1>4, <1>5 DEF c

\* Sequences that agree up to b have the same slices up to b.
LEMMA SameSlice ==
    ASSUME NEW s \in Seq(Cells), NEW t \in Seq(Cells), NEW a \in Nat, NEW b \in Nat,
           a <= b, b <= Len(s), b <= Len(t), \A i \in 1..b : s[i] = t[i]
    PROVE  SubSeq(s, a + 1, b) = SubSeq(t, a + 1, b)
<1> DEFINE c == SubSeq(s, a + 1, b)
           d == SubSeq(t, a + 1, b)
<1>1. c \in Seq(Cells) /\ Len(c) = b - a /\ \A i \in 1..(b - a) : c[i] = s[a + i]
  BY Slice
<1>2. d \in Seq(Cells) /\ Len(d) = b - a /\ \A i \in 1..(b - a) : d[i] = t[a + i]
  BY Slice
<1> HIDE DEF c, d
<1>3. \A i \in 1..(b - a) : c[i] = d[i]
  <2> SUFFICES ASSUME NEW i \in 1..(b - a) PROVE c[i] = d[i]
    OBVIOUS
  <2>1. a + i \in 1..b
    OBVIOUS
  <2>2. QED  BY <1>1, <1>2, <2>1
<1>4. c = d
  BY <1>1, <1>2, <1>3, SeqEqual
<1>5. QED  BY <1>4 DEF c, d

\* The last newline is the only one that no other follows.
LEMMA OnlyLast ==
    ASSUME NEW s \in Seq(Cells), NEW n \in Nat, \A i \in Newlines(s) : i <= n,
           n # 0 => n \in Newlines(s)
    PROVE  LastNewline(s) = n
<1> DEFINE e == LastNewline(s)
<1>1. /\ Len(s) \in Nat /\ Newlines(s) \subseteq 1..Len(s) /\ e \in 0..Len(s)
      /\ \A i \in Newlines(s) : i <= e
      /\ e # 0 => e \in Newlines(s)
      /\ Newlines(s) = {} => e = 0
  BY LastNewlineIsLast
<1> HIDE DEF e
<1>2. e \in Nat
  BY <1>1
<1>3. CASE Newlines(s) = {}
  BY <1>1, <1>3 DEF e
<1>4. CASE Newlines(s) # {}
  <2>1. PICK i \in Newlines(s) : TRUE
    BY <1>4
  <2>2. i \in 1..Len(s)
    BY <1>1
  <2>3. e # 0 /\ n # 0
    BY <1>1, <1>2, <2>1, <2>2
  <2>4. e <= n /\ n <= e
    BY <1>1, <2>3
  <2>5. e = n
    BY <1>2, <2>4
  <2>6. QED  BY <2>5 DEF e
<1>5. QED  BY <1>3, <1>4

\* While no row was left unfinished, every line after the end of a row is
\* exactly the bytes of one row: parse_line succeeds on it.
LEMMA LineIsRow ==
    ASSUME WriterInv, torn = 0,
           NEW p \in Nat, p <= Len(file), p # 0 => file[p].kind = "newline",
           NEW q \in Seq(Cells), Len(q) <= Len(file) - p,
           \A i \in 1..Len(q) : q[i] = file[p + i],
           NEW i \in Newlines(q)
    PROVE  i \in LineEnds(q) /\ IsRow(LineEndingAt(q, i))
<1> DEFINE k == p + i
           f == Len(file)
           w == Written
           r == q[i].row
           L == length[r]
           N == Newlines(q)
<1>1. /\ f \in Nat /\ Len(w) \in Nat /\ f <= Len(w) /\ DOMAIN w = 1..Len(w)
      /\ \A j \in 1..f : w[j] = file[j]
      /\ \A j \in Newlines(w) : WholeLine(w, j)
  BY FileIsWritten DEF WriterInv, Whole
<1>2. /\ Len(q) \in Nat /\ DOMAIN q = 1..Len(q) /\ i \in 1..Len(q) /\ q[i].kind = "newline"
  BY LenProperties DEF Newlines
<1> HIDE DEF f, w
<1>3. k \in 1..f /\ k \in 1..Len(w) /\ \A j \in 1..Len(q) : p + j \in 1..f
  BY <1>1, <1>2 DEF f
<1>4. \A j \in 1..Len(q) : q[j] = w[p + j]
  BY <1>1, <1>3
<1>5. w[k] = q[i] /\ k \in Newlines(w)
  BY <1>1, <1>2, <1>3, <1>4 DEF Newlines
<1>6. /\ L \in 2..k
      /\ \A j \in (k - L + 1)..k : w[j].row = r
      /\ \A j \in (k - L + 1)..(k - 1) : w[j].kind # "newline"
      /\ L < k => w[k - L].kind = "newline"
  <2> HIDE DEF k
  <2>1. WholeLine(w, k) /\ w[k].row = r
    BY <1>1, <1>5
  <2> HIDE DEF r
  <2>2. QED  BY <2>1 DEF WholeLine
<1> HIDE DEF L, r
<1>7. L \in Nat /\ L >= 2 /\ i \in Nat /\ i >= 1 /\ k \in Nat
  BY <1>2, <1>3, <1>6
<1>8. L <= i
  <2> SUFFICES ASSUME i < L PROVE FALSE
    BY <1>7
  <2>1. p # 0 /\ p \in 1..f /\ p \in (k - L + 1)..(k - 1)
    BY <1>1, <1>3, <1>6, <1>7 DEF f
  <2>2. w[p].kind = "newline"
    BY <1>1, <2>1
  <2>3. QED  BY <1>6, <2>1, <2>2
<1>9. ASSUME NEW j \in N, j < i PROVE j <= i - L
  <2>1. j \in 1..Len(q) /\ q[j].kind = "newline"
    BY <1>2 DEF Newlines
  <2>2. w[p + j].kind = "newline"
    BY <1>4, <2>1
  <2>3. ~(p + j \in (k - L + 1)..(k - 1))
    BY <1>6, <2>2
  <2>4. QED  BY <1>2, <1>7, <1>9, <2>1, <2>3
<1>10. ASSUME L < i PROVE i - L \in N /\ i - L < i
  <2>1. i - L \in 1..Len(q) /\ p + (i - L) = k - L /\ L < k /\ i - L < i
    BY <1>2, <1>7, <1>10
  <2>2. q[i - L].kind = "newline"
    BY <1>4, <1>6, <2>1
  <2>3. QED  BY <1>2, <2>1, <2>2 DEF Newlines
<1> DEFINE before == {j \in N : j < i}
           start == IF before = {} THEN 1
                    ELSE 1 + CHOOSE j \in before : \A m \in before : m <= j
<1>11. \A j \in N : j \in Nat /\ j >= 1
  BY <1>2 DEF Newlines
<1> HIDE DEF N
<1>12. start = (i - L) + 1
  <2>1. CASE before = {}
    <3>1. ~(L < i)
      BY <1>10, <2>1
    <3>2. QED  BY <1>7, <1>8, <2>1, <3>1
  <2>2. CASE before # {}
    <3>1. PICK prior \in N : prior < i
      BY <2>2
    <3>2. L < i
      BY <1>7, <1>9, <1>11, <3>1
    <3>3. i - L \in before /\ \A m \in before : m <= i - L /\ m \in Nat
      BY <1>9, <1>10, <1>11, <3>2
    <3> DEFINE c == CHOOSE j \in before : \A m \in before : m <= j
    <3> HIDE DEF before
    <3>4. c \in before /\ \A m \in before : m <= c
      BY <3>3
    <3> HIDE DEF c
    <3>5. c = i - L
      <4>1. c <= i - L /\ i - L <= c /\ c \in Nat
        BY <3>3, <3>4
      <4>2. QED  BY <1>7, <4>1
    <3>6. start = 1 + c
      BY <2>2 DEF c
    <3>7. QED  BY <1>7, <3>5, <3>6
  <2>3. QED  BY <2>1, <2>2
<1> DEFINE line == LineEndingAt(q, i)
<1>13. line = SubSeq(q, (i - L) + 1, i)
  <2>1. line = SubSeq(q, start, i)
    BY DEF LineEndingAt, N
  <2> HIDE DEF start, line
  <2>2. QED  BY <1>12, <2>1
<1>14. i - L \in Nat /\ i - L <= i /\ i <= Len(q) /\ i - (i - L) = L
  BY <1>2, <1>7, <1>8
<1>15. /\ Len(line) = L /\ DOMAIN line = 1..L
       /\ \A j \in 1..L : line[j] = q[(i - L) + j]
  <2> HIDE DEF line
  <2> DEFINE a == i - L
  <2> HIDE DEF a
  <2>1. a \in Nat /\ i \in Nat /\ a <= i /\ i <= Len(q) /\ i - a = L /\ a = i - L
    BY <1>7, <1>14 DEF a
  <2>2. line = SubSeq(q, a + 1, i)
    BY <1>13 DEF a
  <2>3. /\ Len(line) = i - a /\ DOMAIN line = 1..(i - a)
        /\ \A j \in 1..(i - a) : line[j] = q[a + j]
    BY <2>1, <2>2, Slice
  <2>4. QED  BY <2>1, <2>3
<1> HIDE DEF line
<1>16. ASSUME NEW j \in 1..L PROVE line[j].row = r
  <2>1. (i - L) + j \in 1..Len(q) /\ p + ((i - L) + j) \in (k - L + 1)..k
    BY <1>2, <1>7, <1>8
  <2>2. QED  BY <1>4, <1>6, <1>15, <2>1
<1>17. 1 \in 1..L
  BY <1>7
<1>18. IsRow(line)
  <2>1. line[1].row = r /\ \A j \in DOMAIN line : line[j].row = line[1].row
    BY <1>15, <1>16, <1>17
  <2>2. QED  BY <1>15, <2>1 DEF IsRow, L
<1>19. i \in LineEnds(q)
  <2>1. Len(LineEndingAt(q, i)) > 1
    BY <1>7, <1>15 DEF line
  <2>2. QED  BY <2>1 DEF LineEnds
<1>20. QED  BY <1>18, <1>19 DEF line

\* What NothingSkipped says of the offset: up to its last newline everything is
\* delivered, and the partial line is the rest.
LEMMA Account ==
    ASSUME WriterInv, TailInv, NothingSkipped, clears = since, torn = 0
    PROVE  LET p == LastNewline(SubSeq(file, 1, offset)) IN
           /\ offset <= Len(file) /\ p \in Nat /\ p <= offset
           /\ p # 0 => file[p].kind = "newline"
           /\ \A i \in 1..offset : file[i].kind = "newline" => i <= p
           /\ partial = SubSeq(file, p + 1, offset)
           /\ InStep
<1> DEFINE o == offset
           c == SubSeq(file, 1, o)
           p == LastNewline(c)
           f == Len(file)
<1>1. /\ o \in Nat /\ f \in Nat /\ file \in Seq(Cells) /\ o <= f /\ 0 \in Nat
      /\ partial = SubSeq(file, p + 1, o)
  BY FileIsWritten DEF TailInv, WriterInv, NothingSkipped
<1>2. c \in Seq(Cells) /\ Len(c) = o /\ DOMAIN c = 1..o /\ \A i \in 1..o : c[i] = file[i]
  <2> HIDE DEF c, p
  <2>1. c = SubSeq(file, 0 + 1, o) /\ 0 <= o
    BY <1>1 DEF c
  <2>2. /\ c \in Seq(Cells) /\ Len(c) = o - 0 /\ DOMAIN c = 1..(o - 0)
        /\ \A i \in 1..(o - 0) : c[i] = file[0 + i]
    BY <1>1, <2>1, Slice
  <2>3. o - 0 = o /\ \A i \in 1..o : 0 + i = i
    BY <1>1
  <2>4. QED  BY <2>2, <2>3
<1> HIDE DEF c
<1>3. /\ p \in 0..o /\ \A i \in Newlines(c) : i <= p
      /\ p # 0 => p \in Newlines(c)
  BY <1>2, LastNewlineIsLast
<1> HIDE DEF p
<1>4. p \in Nat /\ p <= o
  BY <1>1, <1>3
<1>5. p # 0 => file[p].kind = "newline"
  BY <1>2, <1>3 DEF Newlines
<1>6. \A i \in 1..o : file[i].kind = "newline" => i <= p
  BY <1>2, <1>3 DEF Newlines
<1>7. InStep
  <2> SUFFICES ASSUME o # 0, partial = <<>> PROVE file[o].kind = "newline"
    BY <1>1 DEF InStep
  <2>1. Len(partial) = o - p
    BY <1>1, <1>4, Slice
  <2>2. Len(partial) = 0
    BY EmptySeq
  <2>3. p = o
    BY <1>1, <1>4, <2>1, <2>2
  <2>4. QED  BY <1>5, <2>3
<1>8. QED  BY <1>1, <1>4, <1>5, <1>6, <1>7 DEF p, c

\* A poll that consumes the file from the offset delivers all of its rows.
LEMMA ConsumeAll ==
    ASSUME WriterInv, TailInv, NothingSkipped, clears = since, torn = 0,
           Consumed(partial, offset), file' = file
    PROVE  /\ offset' <= Len(file')
           /\ {delivered'[i] : i \in DOMAIN delivered'} = Complete(offset)'
           /\ partial' = SubSeq(file, LastNewline(SubSeq(file, 1, offset)) + 1, offset)'
<1> DEFINE o == offset
           f == Len(file)
           p == LastNewline(SubSeq(file, 1, o))
           h == Len(partial)
           s == partial \o From(o)
           e == LastNewline(s)
           q == SubSeq(s, 1, e)
           r == SubSeq(s, e + 1, Len(s))
           R == RowsOf(q)
           D == delivered
           E == delivered'
<1>1. /\ o \in Nat /\ f \in Nat /\ o <= f /\ p \in Nat /\ p <= o /\ file \in Seq(Cells)
      /\ p # 0 => file[p].kind = "newline"
      /\ \A i \in 1..o : file[i].kind = "newline" => i <= p
      /\ partial = SubSeq(file, p + 1, o)
  BY Account, FileIsWritten DEF TailInv, WriterInv
<1>2. /\ partial \in Seq(Cells) /\ \A i \in DOMAIN partial : partial[i].kind # "newline"
      /\ D \in Seq(Nat)
  BY DEF TailInv
<1> HIDE DEF p
<1>3. h = o - p /\ \A i \in 1..(o - p) : partial[i] = file[p + i]
  BY <1>1, Slice
<1>4. /\ s \in Seq(Cells) /\ Len(s) = h + (f - o)
      /\ \A i \in 1..h : s[i] = partial[i]
      /\ \A i \in 1..(f - o) : s[h + i] = file[o + i]
  BY <1>1, <1>2, TextRead
<1> HIDE DEF s, h, f
<1>5. Len(s) = f - p /\ \A i \in 1..(f - p) : s[i] = file[p + i]
  <2>1. Len(s) = f - p
    BY <1>1, <1>3, <1>4
  <2>2. ASSUME NEW i \in 1..(f - p) PROVE s[i] = file[p + i]
    <3>1. CASE i <= h
      <4>1. i \in 1..h /\ i \in 1..(o - p)
        BY <1>1, <1>3, <3>1
      <4>2. QED  BY <1>3, <1>4, <4>1
    <3>2. CASE ~(i <= h)
      <4>1. i - h \in 1..(f - o) /\ h + (i - h) = i /\ o + (i - h) = p + i
        BY <1>1, <1>3, <3>2
      <4>2. QED  BY <1>4, <4>1
    <3>3. QED  BY <3>1, <3>2
  <2>3. QED  BY <2>1, <2>2
<1>6. /\ e \in 0..(f - p) /\ \A i \in Newlines(s) : i <= e
      /\ e # 0 => e \in Newlines(s)
      /\ DOMAIN s = 1..(f - p)
  BY <1>4, <1>5, LastNewlineIsLast
<1>7. /\ q \in Seq(Cells) /\ Len(q) = e /\ Newlines(q) = Newlines(s)
      /\ \A i \in 1..e : q[i] = s[i]
  BY <1>4, LinesTaken
<1>8. /\ r \in Seq(Cells) /\ Len(r) = Len(s) - e
      /\ \A i \in 1..Len(r) : r[i] = s[e + i]
  BY <1>4, LinesTaken
<1>9. /\ offset' = f /\ partial' = r
      /\ E = D \o (IF Parsed(q) THEN R ELSE <<>>)
  BY DEF Consumed, TakeLines, s, f
<1> HIDE DEF e, q, r
<1>10. e \in Nat /\ e <= f - p /\ \A i \in 1..e : q[i] = file[p + i]
  BY <1>1, <1>5, <1>6, <1>7
<1>11. \A i \in Newlines(q) : i \in LineEnds(q) /\ IsRow(LineEndingAt(q, i))
  <2>1. p <= Len(file) /\ Len(q) <= Len(file) - p /\ \A i \in 1..Len(q) : q[i] = file[p + i]
    BY <1>1, <1>7, <1>10 DEF f
  <2>2. QED  BY <1>1, <1>7, <2>1, LineIsRow
<1>12. LineEnds(q) = Newlines(q) /\ Parsed(q)
  BY <1>11 DEF Parsed, LineEnds
<1>13. E = D \o R
  BY <1>9, <1>12
<1>14. /\ R \in Seq(Nat) /\ Len(R) \in Nat /\ DOMAIN R = 1..Len(R)
       /\ \A n \in 1..Len(R) : \E i \in Newlines(q) : R[n] = q[i].row
  BY <1>7, RowsInOrder
<1>15. \A i \in Newlines(q) : \E n \in 1..Len(R) : R[n] = q[i].row
  <2>1. q \in Seq(Cells)
    BY <1>7
  <2>2. \A i \in LineEnds(q) : \E n \in 1..Len(R) : R[n] = q[i].row
    BY <2>1, RowsInOrder
  <2> HIDE DEF R
  <2>3. QED  BY <1>12, <2>2
<1> HIDE DEF R, D, E
<1>16. /\ Len(D) \in Nat /\ DOMAIN D = 1..Len(D)
       /\ E \in Seq(Nat) /\ Len(E) = Len(D) + Len(R)
       /\ \A i \in 1..(Len(D) + Len(R)) : E[i] = IF i <= Len(D) THEN D[i] ELSE R[i - Len(D)]
  BY <1>2, <1>13, <1>14, ConcatProperties, LenProperties
<1>17. DOMAIN E = 1..(Len(D) + Len(R))
  BY <1>16, LenProperties
<1>18. {D[i] : i \in DOMAIN D} = Complete(o)
  BY DEF NothingSkipped, D
<1>19. \A i \in 1..e : i \in Newlines(q) <=> file[p + i].kind = "newline"
  <2>1. DOMAIN q = 1..e
    BY <1>7, LenProperties
  <2>2. QED  BY <1>10, <2>1 DEF Newlines
<1>20. Newlines(q) \subseteq 1..e
  <2>1. DOMAIN q = 1..e
    BY <1>7, LenProperties
  <2>2. QED  BY <2>1 DEF Newlines
<1>21. ASSUME NEW i \in DOMAIN E PROVE E[i] \in Complete(f)
  <2>1. CASE i <= Len(D)
    <3>1. i \in DOMAIN D /\ E[i] = D[i]
      BY <1>14, <1>16, <1>17, <2>1
    <3>2. E[i] \in Complete(o)
      BY <1>18, <3>1
    <3>3. PICK k \in 1..o : file[k].kind = "newline" /\ E[i] = file[k].row
      BY <3>2 DEF Complete
    <3>4. k \in 1..f
      BY <1>1, <3>3 DEF f
    <3>5. QED  BY <3>3, <3>4 DEF Complete
  <2>2. CASE ~(i <= Len(D))
    <3>1. i - Len(D) \in 1..Len(R) /\ E[i] = R[i - Len(D)]
      BY <1>14, <1>16, <1>17, <2>2
    <3>2. PICK j \in Newlines(q) : E[i] = q[j].row
      BY <1>14, <3>1
    <3>3. j \in 1..e
      BY <1>20
    <3>4. p + j \in 1..f
      BY <1>1, <1>10, <3>3 DEF f
    <3>5. file[p + j].kind = "newline" /\ E[i] = file[p + j].row
      BY <1>10, <1>19, <3>2, <3>3
    <3>6. QED  BY <3>4, <3>5 DEF Complete
  <2>3. QED  BY <2>1, <2>2
<1>22. ASSUME NEW x \in Complete(f) PROVE \E i \in DOMAIN E : E[i] = x
  <2>1. PICK k \in 1..f : file[k].kind = "newline" /\ x = file[k].row
    BY DEF Complete
  <2>2. CASE k <= o
    <3>1. k \in 1..o
      BY <1>1, <2>1, <2>2 DEF f
    <3>2. x \in Complete(o)
      BY <2>1, <3>1 DEF Complete
    <3>3. PICK i \in DOMAIN D : D[i] = x
      BY <1>18, <3>2
    <3>4. i \in DOMAIN E /\ E[i] = D[i]
      BY <1>14, <1>16, <1>17, <3>3
    <3>5. QED  BY <3>3, <3>4
  <2>3. CASE ~(k <= o)
    <3>1. k - p \in 1..(f - p) /\ p + (k - p) = k
      BY <1>1, <2>1, <2>3 DEF f
    <3>2. k - p \in Newlines(s)
      BY <1>5, <1>6, <2>1, <3>1 DEF Newlines
    <3>3. k - p \in Newlines(q) /\ q[k - p].row = x
      <4>1. k - p \in Newlines(q) /\ k - p \in 1..e
        BY <1>7, <1>20, <3>2
      <4>2. QED  BY <1>10, <2>1, <3>1, <4>1
    <3>4. PICK n \in 1..Len(R) : R[n] = x
      BY <1>15, <3>3
    <3>5. /\ Len(D) + n \in 1..(Len(D) + Len(R)) /\ ~(Len(D) + n <= Len(D))
          /\ (Len(D) + n) - Len(D) = n
      BY <1>14, <1>16, <3>4
    <3>6. E[Len(D) + n] = x
      BY <1>16, <3>4, <3>5
    <3>7. QED  BY <1>17, <3>5, <3>6
  <2>4. QED  BY <2>2, <2>3
<1>23. {E[i] : i \in DOMAIN E} = Complete(f)
  BY <1>21, <1>22
<1>24. LastNewline(file) = p + e
  <2>1. p + e \in Nat /\ DOMAIN file = 1..f
    BY <1>1, <1>10, FileIsWritten DEF f
  <2>2. ASSUME NEW i \in Newlines(file) PROVE i <= p + e
    <3>1. i \in 1..f /\ file[i].kind = "newline"
      BY <2>1 DEF Newlines
    <3>2. CASE i <= p
      BY <1>1, <1>10, <3>1, <3>2
    <3>3. CASE ~(i <= p)
      <4>1. i - p \in 1..(f - p) /\ p + (i - p) = i
        BY <1>1, <3>1, <3>3
      <4>2. i - p \in Newlines(s)
        BY <1>5, <1>6, <3>1, <4>1 DEF Newlines
      <4>3. i - p <= e
        BY <1>6, <4>2
      <4>4. QED  BY <1>1, <1>10, <3>1, <4>3
    <3>4. QED  BY <3>2, <3>3
  <2>3. ASSUME p + e # 0 PROVE p + e \in Newlines(file)
    <3>1. CASE e = 0
      <4>1. p + e = p /\ p # 0 /\ p \in 1..f
        BY <1>1, <2>3, <3>1 DEF f
      <4>2. QED  BY <1>1, <2>1, <4>1 DEF Newlines
    <3>2. CASE e # 0
      <4>1. e \in 1..e /\ p + e \in 1..f
        BY <1>1, <1>10, <3>2 DEF f
      <4>2. e \in Newlines(q)
        BY <1>6, <1>7, <3>2
      <4>3. file[p + e].kind = "newline"
        BY <1>19, <4>1, <4>2
      <4>4. QED  BY <2>1, <4>1, <4>3 DEF Newlines
    <3>3. QED  BY <3>1, <3>2
  <2>4. QED  BY <1>1, <2>1, <2>2, <2>3, OnlyLast
<1>25. r = SubSeq(file, (p + e) + 1, f)
  <2> DEFINE a == p + e
             c == SubSeq(file, a + 1, f)
  <2>1. a \in Nat /\ a <= f /\ f <= Len(file)
    BY <1>1, <1>10 DEF f
  <2> HIDE DEF a
  <2>2. c \in Seq(Cells) /\ Len(c) = f - a /\ \A i \in 1..(f - a) : c[i] = file[a + i]
    BY <1>1, <2>1, Slice
  <2> HIDE DEF c
  <2>3. Len(r) = f - a
    BY <1>1, <1>5, <1>8, <1>10 DEF a
  <2>4. ASSUME NEW i \in 1..(f - a) PROVE r[i] = c[i]
    <3>1. i \in 1..Len(r) /\ e + i \in 1..(f - p) /\ p + (e + i) = a + i
      BY <1>1, <1>10, <2>1, <2>3 DEF a
    <3>2. QED  BY <1>5, <1>8, <2>2, <3>1
  <2>5. r = c
    BY <1>8, <2>2, <2>3, <2>4, SeqEqual
  <2>6. QED  BY <2>5 DEF c, a
<1>26. SubSeq(file, 1, f) = file
  BY <1>1, SubSeqFull DEF f
<1>27. /\ offset' <= Len(file')
       /\ {delivered'[i] : i \in DOMAIN delivered'} = Complete(offset)'
  <2>1. Complete(offset)' = Complete(f)
    BY <1>9 DEF Complete
  <2>2. QED  BY <1>1, <1>9, <1>23, <2>1 DEF E, f
<1>28. partial' = SubSeq(file, LastNewline(SubSeq(file, 1, offset)) + 1, offset)'
  <2>1. SubSeq(file, LastNewline(SubSeq(file, 1, offset)) + 1, offset)'
          = SubSeq(file, LastNewline(SubSeq(file, 1, f)) + 1, f)
    BY <1>9 DEF LastNewline, Newlines
  <2>2. QED  BY <1>9, <1>24, <1>25, <1>26, <2>1
<1>29. QED  BY <1>27, <1>28

\* The account stays right with every step.
LEMMA AccountStep ==
    ASSUME WriterInv, TailInv, NothingSkipped, [Next]_vars
    PROVE  NothingSkipped'
<1> SUFFICES ASSUME clears' = since', torn' = 0
             PROVE  /\ offset' <= Len(file')
                    /\ {delivered'[i] : i \in DOMAIN delivered'} = Complete(offset)'
                    /\ partial' = SubSeq(file', LastNewline(SubSeq(file', 1, offset')) + 1, offset')
  BY DEF NothingSkipped
<1>1. clears \in Nat /\ since \in Nat /\ since <= clears /\ torn \in Nat /\ offset \in Nat
  BY DEF WriterInv, TailInv
<1>2. file \in Seq(Cells) /\ Len(file) \in Nat
  BY FileIsWritten DEF WriterInv
<1>3. ASSUME UNCHANGED <<file, offset, partial, delivered, clears, since, torn>>
      PROVE  /\ offset' <= Len(file')
             /\ {delivered'[i] : i \in DOMAIN delivered'} = Complete(offset)'
             /\ partial' = SubSeq(file', LastNewline(SubSeq(file', 1, offset')) + 1, offset')
  <2>1. clears = since /\ torn = 0
    BY <1>3
  <2>2. /\ offset <= Len(file)
        /\ {delivered[i] : i \in DOMAIN delivered} = Complete(offset)
        /\ partial = SubSeq(file, LastNewline(SubSeq(file, 1, offset)) + 1, offset)
    BY <2>1 DEF NothingSkipped
  <2>3. Complete(offset)' = Complete(offset)
    BY <1>3 DEF Complete
  <2>4. QED  BY <1>3, <2>2, <2>3
<1>4. CASE Append1
  BY <1>3, <1>4 DEF Append1, tailerVars
<1>5. CASE WritePiece
  <2> DEFINE o == offset
             p == LastNewline(SubSeq(file, 1, o))
  <2>1. UNCHANGED <<offset, partial, delivered, clears, since, torn>>
    BY <1>5 DEF WritePiece, tailerVars
  <2>2. /\ o <= Len(file) /\ p \in Nat /\ p <= o
        /\ partial = SubSeq(file, p + 1, o)
        /\ {delivered[i] : i \in DOMAIN delivered} = Complete(o)
    BY <2>1, Account DEF NothingSkipped
  <2>3. /\ WriterInv' /\ Len(file) <= Len(file')
        /\ \A i \in 1..Len(file) : file'[i] = file[i]
    BY <1>5, PieceKeeps
  <2>4. file' \in Seq(Cells) /\ Len(file') \in Nat
    BY <2>3, LenProperties DEF WriterInv
  <2>5. o <= Len(file') /\ \A i \in 1..o : file[i] = file'[i]
    BY <1>1, <1>2, <2>2, <2>3, <2>4
  <2>6. SubSeq(file, 1, o) = SubSeq(file', 1, o)
    <3>1. 0 \in Nat /\ 0 <= o /\ 0 + 1 = 1
      BY <1>1
    <3>2. SubSeq(file, 0 + 1, o) = SubSeq(file', 0 + 1, o)
      BY <1>1, <1>2, <2>2, <2>4, <2>5, <3>1, SameSlice
    <3>3. QED  BY <3>1, <3>2
  <2>7. SubSeq(file, p + 1, o) = SubSeq(file', p + 1, o)
    <3> HIDE DEF p
    <3>1. QED  BY <1>1, <1>2, <2>2, <2>4, <2>5, SameSlice
  <2>8. Complete(offset)' = Complete(o)
    BY <2>1, <2>5 DEF Complete
  <2>9. LastNewline(SubSeq(file', 1, offset')) = p
    BY <2>1, <2>6
  <2>10. QED  BY <2>1, <2>2, <2>5, <2>7, <2>8, <2>9
<1>6. CASE Killed
  BY <1>1, <1>6 DEF Killed
<1>7. CASE Clear
  <2>1. clears' = clears + 1 /\ since' = since
    BY <1>7 DEF Clear, tailerVars
  <2>2. clears + 1 = since
    BY <2>1
  <2>3. QED  BY <1>1, <2>2
<1>8. CASE CheckLength
  <2>1. UNCHANGED <<file, delivered, clears, since, torn>>
    BY <1>8 DEF CheckLength, writerVars
  <2>2. offset <= Len(file)
    BY <2>1 DEF NothingSkipped
  <2>3. UNCHANGED <<offset, partial>>
    BY <1>1, <1>2, <1>8, <2>2 DEF CheckLength
  <2>4. QED  BY <1>3, <2>1, <2>3
<1>9. CASE ReadChunk
  <2>1. UNCHANGED <<file, clears, since, torn>>
    BY <1>9 DEF ReadChunk, writerVars
  <2>2. clears = since /\ torn = 0 /\ InStep
    BY <2>1, Account
  <2>3. CASE UNCHANGED <<offset, partial, delivered>>
    BY <1>3, <2>1, <2>3
  <2>4. CASE Consumed(partial, offset)
    BY <2>1, <2>2, <2>4, ConsumeAll
  <2>5. QED  BY <1>9, <2>2, <2>3, <2>4, PollOutcome
<1>10. CASE Restart
  <2>1. offset' = 0 /\ partial' = <<>> /\ delivered' = <<>> /\ file' = file
    BY <1>10 DEF Restart, writerVars
  <2>2. DOMAIN <<>> = {} /\ 1..0 = {}
    OBVIOUS
  <2>3. Complete(offset)' = {}
    BY <2>1, <2>2 DEF Complete
  <2>4. SubSeq(file, 1, 0) = <<>>
    BY <1>2, SubSeqEmpty
  <2>5. LastNewline(<<>>) = 0
    BY <2>2 DEF LastNewline, Newlines
  <2>6. LastNewline(SubSeq(file', 1, offset')) = 0
    BY <2>1, <2>4, <2>5
  <2>7. QED  BY <1>2, <2>1, <2>2, <2>3, <2>4, <2>6
<1>11. CASE UNCHANGED vars
  BY <1>3, <1>11 DEF vars, writerVars, tailerVars
<1>12. QED  BY <1>4, <1>5, <1>6, <1>7, <1>8, <1>9, <1>10, <1>11 DEF Next

\* While the file only grows by whole rows nothing is skipped: what lies before
\* the offset is delivered or held as the partial line, wherever the pieces of
\* an append are cut, and every line that is read parses.
THEOREM NoRowSkipped == Spec => []NothingSkipped
<1>1. Init => WriterInv /\ TailInv /\ NothingSkipped
  <2> SUFFICES ASSUME Init PROVE NothingSkipped
    BY TailInit
  <2>1. /\ file = <<>> /\ offset = 0 /\ partial = <<>> /\ delivered = <<>>
    BY DEF Init
  <2>2. DOMAIN <<>> = {} /\ 1..0 = {} /\ <<>> \in Seq(Cells) /\ Len(<<>>) = 0
    BY EmptySeq
  <2>3. Complete(offset) = {}
    BY <2>1, <2>2 DEF Complete
  <2>4. SubSeq(file, 1, 0) = <<>>
    BY <2>1, <2>2, SubSeqEmpty
  <2>5. LastNewline(<<>>) = 0
    BY <2>2 DEF LastNewline, Newlines
  <2>6. {delivered[i] : i \in DOMAIN delivered} = {}
    BY <2>1, <2>2
  <2>7. partial = SubSeq(file, LastNewline(SubSeq(file, 1, offset)) + 1, offset)
    <3>1. SubSeq(file, 1, offset) = <<>>
      BY <2>1, <2>4
    <3>2. LastNewline(SubSeq(file, 1, offset)) = 0
      BY <2>5, <3>1, Zenon
    <3>3. LastNewline(SubSeq(file, 1, offset)) + 1 = 1
      BY <3>2
    <3>4. QED  BY <2>1, <3>1, <3>3, Zenon
  <2>8. offset <= Len(file)
    BY <2>1, <2>2
  <2>9. QED  BY <2>3, <2>6, <2>7, <2>8 DEF NothingSkipped
<1>2. WriterInv /\ TailInv /\ NothingSkipped /\ [Next]_vars
        => WriterInv' /\ TailInv' /\ NothingSkipped'
  BY TailStep, AccountStep
<1>3. QED  BY <1>1, <1>2, PTL DEF Spec

=============================================================================
