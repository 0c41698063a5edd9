----------------------- MODULE ActionGovernanceProofs -----------------------
(***************************************************************************)
(* Proofs about PolicyEngine and ActionGovernance, for every intent batch, *)
(* cap, risk limit, set of blocked types and number of windows.            *)
(***************************************************************************)
EXTENDS ActionGovernance, WellFoundedInduction, FiniteSetTheorems, SequenceTheorems, TLAPS

-----------------------------------------------------------------------------
(***************************************************************************)
(* The order of the loops.                                                 *)
(***************************************************************************)

\* A set of naturals that is not empty has a least element.
LEMMA LeastNatural ==
    ASSUME NEW T \in SUBSET Nat, T # {}
    PROVE  \E x \in T : \A y \in T : x <= y
<1> DEFINE R == {ss \in Nat \X Nat : ss[1] < ss[2]}
<1>1. OpToRel(<, Nat) = R
  BY Zenon DEF OpToRel
<1>2. IsWellFoundedOn(R, Nat)
  BY <1>1, NatLessThanWellFounded, Zenon
<1>3. \A a, b \in Nat : a < b => <<a, b>> \in R
  OBVIOUS
<1> HIDE DEF R
<1>4. PICK x \in T : \A y \in T : ~(<<y, x>> \in R)
  BY <1>2, WFMin
<1>5. \A y \in T : ~(y < x)
  BY <1>3, <1>4
<1>6. \A y \in T : x <= y
  BY <1>5
<1>7. QED  BY <1>6

\* run()'s nested loops find a first coordinate in every set that is not empty.
LEMMA FirstIsLeast ==
    ASSUME NEW T \in SUBSET (Nat \X Nat), T # {}
    PROVE  /\ First(T) \in T
           /\ \A d \in T \ {First(T)} : Before(First(T), d)
<1> DEFINE I == {t[1] : t \in T}
<1>1. I \in SUBSET Nat /\ I # {}
  OBVIOUS
<1>2. PICK i \in I : \A j \in I : i <= j
  <2> HIDE DEF I
  <2>1. QED  BY <1>1, LeastNatural
<1> DEFINE N == {n \in Nat : <<i, n>> \in T}
<1>3. N # {}
  BY <1>2
<1>4. PICK n \in N : \A m \in N : n <= m
  BY <1>3, LeastNatural
<1>5. <<i, n>> \in T /\ i \in Nat /\ n \in Nat
  BY <1>2, <1>4
<1>6. ASSUME NEW d \in T \ {<<i, n>>} PROVE Before(<<i, n>>, d)
  <2>1. d = <<d[1], d[2]>> /\ d[1] \in Nat /\ d[2] \in Nat
    OBVIOUS
  <2>2. i <= d[1]
    BY <1>2
  <2>3. CASE i = d[1]
    <3>1. n <= d[2] /\ n # d[2]
      BY <1>4, <2>1, <2>3
    <3>2. n < d[2]
      BY <1>5, <2>1, <3>1
    <3>3. QED  BY <2>3, <3>2 DEF Before
  <2>4. CASE i # d[1]
    <3>1. i < d[1]
      BY <1>5, <2>1, <2>2, <2>4
    <3>2. QED  BY <3>1 DEF Before
  <2>5. QED  BY <2>3, <2>4
<1>7. \E c \in T : \A d \in T \ {c} : Before(c, d)
  BY <1>5, <1>6
<1>8. QED  BY <1>7 DEF First

-----------------------------------------------------------------------------
(***************************************************************************)
(* What evaluate_intent's running count computes.                          *)
(***************************************************************************)

Passing(intent, r, k, n) ==
    {j \in 1..n : FilterAction(intent.actions[j], r, k) = "Approved"}
Capped(n) == IF n < MaxActions THEN n ELSE MaxActions

\* One more action: the passing ones grow by that action, if it passes.
LEMMA PassingGrows ==
    ASSUME NEW intent, NEW r, NEW k
    PROVE  \A n \in Nat :
            /\ Cardinality(Passing(intent, r, k, n)) \in Nat
            /\ Cardinality(Passing(intent, r, k, 0)) = 0
            /\ Cardinality(Passing(intent, r, k, n + 1)) =
                IF FilterAction(intent.actions[n + 1], r, k) = "Approved"
                THEN Cardinality(Passing(intent, r, k, n)) + 1
                ELSE Cardinality(Passing(intent, r, k, n))
<1> SUFFICES ASSUME NEW n \in Nat
             PROVE  /\ Cardinality(Passing(intent, r, k, n)) \in Nat
                    /\ Cardinality(Passing(intent, r, k, 0)) = 0
                    /\ Cardinality(Passing(intent, r, k, n + 1)) =
                        IF FilterAction(intent.actions[n + 1], r, k) = "Approved"
                        THEN Cardinality(Passing(intent, r, k, n)) + 1
                        ELSE Cardinality(Passing(intent, r, k, n))
  OBVIOUS
<1> DEFINE P == Passing(intent, r, k, n)
           Q == Passing(intent, r, k, n + 1)
<1>1. IsFiniteSet(P) /\ Cardinality(P) \in Nat
  <2>1. P \subseteq 1..n /\ 1 \in Int /\ n \in Int
    BY DEF Passing
  <2>2. IsFiniteSet(1..n)
    BY <2>1, FS_Interval
  <2>3. QED  BY <2>1, <2>2, FS_Subset, FS_CardinalityType
<1>2. Passing(intent, r, k, 0) = {}
  BY DEF Passing
<1>3. n + 1 \notin P
  BY DEF Passing
<1>4. \A j : j \in 1..(n + 1) <=> j \in 1..n \/ j = n + 1
  OBVIOUS
<1>5. Q = IF FilterAction(intent.actions[n + 1], r, k) = "Approved"
          THEN P \cup {n + 1} ELSE P
  BY <1>4, Zenon DEF Passing
<1> HIDE DEF P, Q
<1>6. Cardinality(P \cup {n + 1}) = Cardinality(P) + 1
  BY <1>1, <1>3, FS_AddElement
<1>7. QED  BY <1>1, <1>2, <1>5, <1>6, FS_EmptySet DEF P, Q

\* The equation that defines the running count.
CountStep(g, intent, r, k) ==
    [n \in 0..Len(intent.actions) |->
        IF n = 0 THEN 0
        ELSE IF /\ g[n - 1] < MaxActions
                /\ FilterAction(intent.actions[n], r, k) = "Approved"
             THEN g[n - 1] + 1
             ELSE g[n - 1]]

\* approved_count is the number of passing actions so far, held at the cap: the
\* count that stops at MaxActions loses nothing.
LEMMA CountIsCapped ==
    ASSUME NEW intent, NEW r, NEW k, Len(intent.actions) \in Nat
    PROVE  \A n \in 0..Len(intent.actions) :
            ApprovedCount(intent, r, k)[n]
                = Capped(Cardinality(Passing(intent, r, k, n)))
<1> DEFINE L == Len(intent.actions)
           pass(n) == FilterAction(intent.actions[n], r, k) = "Approved"
           Number(n) == Cardinality(Passing(intent, r, k, n))
           f == [n \in 0..L |-> Capped(Number(n))]
           count == ApprovedCount(intent, r, k)
<1>1. \A n \in Nat : /\ Number(n) \in Nat /\ Number(0) = 0
                     /\ Number(n + 1) = IF pass(n + 1) THEN Number(n) + 1
                                                       ELSE Number(n)
  BY PassingGrows
<1> HIDE DEF Number, pass
<1>2. /\ Capped(Number(0)) = 0
      /\ \A n \in 1..L : Capped(Number(n)) =
            IF Capped(Number(n - 1)) < MaxActions /\ pass(n)
            THEN Capped(Number(n - 1)) + 1
            ELSE Capped(Number(n - 1))
  <2>1. Capped(Number(0)) = 0
    BY <1>1, PolicyAssumption DEF Capped
  <2>2. ASSUME NEW n \in 1..L
        PROVE  Capped(Number(n)) =
                IF Capped(Number(n - 1)) < MaxActions /\ pass(n)
                THEN Capped(Number(n - 1)) + 1
                ELSE Capped(Number(n - 1))
    <3>1. n - 1 \in Nat /\ (n - 1) + 1 = n
      OBVIOUS
    <3>2. /\ Number(n - 1) \in Nat
          /\ Number(n) = IF pass(n) THEN Number(n - 1) + 1 ELSE Number(n - 1)
      BY <1>1, <3>1
    <3>3. QED  BY <3>2, PolicyAssumption DEF Capped
  <2>3. QED  BY <2>1, <2>2
<1>3. f = CountStep(f, intent, r, k)
  <2>1. ASSUME NEW n \in 0..L
        PROVE  f[n] = CountStep(f, intent, r, k)[n]
    <3>1. CASE n = 0
      BY <1>2, <3>1 DEF CountStep
    <3>2. CASE n \in 1..L
      <4>1. n - 1 \in 0..L
        BY <3>2
      <4>2. f[n] = Capped(Number(n)) /\ f[n - 1] = Capped(Number(n - 1))
        BY <3>2, <4>1
      <4>3. CountStep(f, intent, r, k)[n] =
              IF f[n - 1] < MaxActions /\ pass(n) THEN f[n - 1] + 1 ELSE f[n - 1]
        BY <3>2 DEF CountStep, pass
      <4>4. QED  BY <1>2, <3>2, <4>2, <4>3
    <3>3. QED  BY <3>1, <3>2
  <2>2. /\ f = [n \in 0..L |-> f[n]]
        /\ CountStep(f, intent, r, k)
            = [n \in 0..L |-> CountStep(f, intent, r, k)[n]]
    BY DEF CountStep
  <2> HIDE DEF f
  <2>3. QED  BY <2>1, <2>2
<1>4. count = CountStep(count, intent, r, k)
  <2>1. count = CHOOSE g : g = CountStep(g, intent, r, k)
    BY DEF ApprovedCount, CountStep
  <2> HIDE DEF f, count
  <2>2. QED  BY <1>3, <2>1, Zenon
<1> HIDE DEF f, count
<1>5. \A n \in 0..L : count[n] = f[n]
  <2> DEFINE Bad == {n \in 0..L : count[n] # f[n]}
  <2>1. SUFFICES ASSUME Bad # {} PROVE FALSE
    OBVIOUS
  <2>2. Bad \in SUBSET Nat
    OBVIOUS
  <2>3. PICK n \in Bad : \A m \in Bad : n <= m
    <3> HIDE DEF Bad
    <3>1. QED  BY <2>1, <2>2, LeastNatural
  <2>4. n # 0
    BY <1>3, <1>4 DEF CountStep
  <2>5. n - 1 \in 0..L /\ n - 1 \notin Bad /\ n \in 0..L
    BY <2>3, <2>4
  <2>6. count[n - 1] = f[n - 1]
    BY <2>5
  <2>7. ASSUME NEW g, g = CountStep(g, intent, r, k)
        PROVE  g[n] = IF g[n - 1] < MaxActions /\ pass(n)
                      THEN g[n - 1] + 1 ELSE g[n - 1]
    BY <2>4, <2>5, <2>7 DEF CountStep, pass
  <2>8. count[n] = f[n]
    BY <1>3, <1>4, <2>6, <2>7
  <2>9. QED  BY <2>3, <2>8
<1>6. QED  BY <1>5 DEF f, count, Number
-----------------------------------------------------------------------------
(* Verdicts. *)

IsBatch(b) == IsVec(b) /\ \A i \in DOMAIN b : IsIntent(b[i])

\* Coordinates are pairs of positions.
LEMMA CoordsAreIndices ==
    ASSUME NEW b, IsBatch(b)
    PROVE  /\ Coords(b) \in SUBSET (Nat \X Nat)
           /\ \A c \in Coords(b) :
                /\ c[1] \in DOMAIN b
                /\ IsIntent(b[c[1]])
                /\ Len(b[c[1]].actions) \in Nat
                /\ c[2] \in 1..Len(b[c[1]].actions)
                /\ ActionAt(b, c).type \in ActionTypes
<1>1. \A s : IsVec(s) => Len(s) \in Nat /\ DOMAIN s = 1..Len(s)
  BY LenProperties DEF IsVec
<1>2. ASSUME NEW c \in Coords(b)
      PROVE  /\ c \in Nat \X Nat
             /\ c[1] \in DOMAIN b
             /\ IsIntent(b[c[1]])
             /\ Len(b[c[1]].actions) \in Nat
             /\ c[2] \in 1..Len(b[c[1]].actions)
             /\ ActionAt(b, c).type \in ActionTypes
  <2>0. PICK i \in DOMAIN b : c \in {<<i, n>> : n \in DOMAIN b[i].actions}
    BY DEF Coords
  <2>1. PICK n \in DOMAIN b[i].actions : c = <<i, n>>
    BY <2>0
  <2>2. IsIntent(b[i]) /\ IsVec(b[i].actions)
    BY DEF IsBatch, IsIntent
  <2>3. /\ Len(b) \in Nat /\ i \in 1..Len(b)
        /\ Len(b[i].actions) \in Nat /\ n \in 1..Len(b[i].actions)
    BY <1>1, <2>2 DEF IsBatch
  <2>4. b[i].actions[n].type \in ActionTypes
    BY <2>2 DEF IsIntent
  <2>5. QED  BY <2>1, <2>2, <2>3, <2>4 DEF ActionAt
<1>3. QED  BY <1>2

\* An approval takes the risk, the confidence, the filters and a place under the
\* cap, and each of these is enough to refuse it.
LEMMA ApprovalRule ==
    ASSUME NEW b, IsBatch(b), NEW r \in Routes, NEW k, NEW c \in Coords(b)
    PROVE  LET intent == b[c[1]]
               verdict == EvaluateAction(intent, c[2], r, k)
           IN  /\ verdict \in Verdicts
               /\ verdict = "Approved" <=>
                    /\ RiskRank(intent.risk) <= RiskRank(MaxRisk(r))
                    /\ RiskRank(intent.risk) <= RiskRank(MaxAutoRisk)
                    /\ intent.confident
                    /\ FilterAction(intent.actions[c[2]], r, k) = "Approved"
                    /\ Cardinality(Passing(intent, r, k, c[2] - 1)) < MaxActions
               /\ verdict = "Approved" => SchemaValid(intent, ActionAt(b, c))
               /\ verdict = "Approved" => TargetAllowed(ActionAt(b, c), k)
<1> DEFINE intent == b[c[1]]
           action == intent.actions[c[2]]
           n == Cardinality(Passing(intent, r, k, c[2] - 1))
           count == ApprovedCount(intent, r, k)[c[2] - 1]
           verdict == EvaluateAction(intent, c[2], r, k)
<1>1. /\ IsIntent(intent) /\ Len(intent.actions) \in Nat
      /\ c[2] \in 1..Len(intent.actions)
      /\ action.type \in ActionTypes /\ ActionAt(b, c) = action
  BY CoordsAreIndices DEF ActionAt
<1>2. c[2] - 1 \in 0..Len(intent.actions) /\ c[2] - 1 \in Nat
  BY <1>1
<1>3. n \in Nat /\ count = Capped(n)
  <2> HIDE DEF intent
  <2>1. \A m \in Nat : Cardinality(Passing(intent, r, k, m)) \in Nat
    BY PassingGrows
  <2>2. \A m \in 0..Len(intent.actions) :
            ApprovedCount(intent, r, k)[m]
                = Capped(Cardinality(Passing(intent, r, k, m)))
    BY <1>1, CountIsCapped
  <2>3. QED  BY <1>2, <2>1, <2>2
<1>4. count >= MaxActions <=> ~(n < MaxActions)
  <2> HIDE DEF n, count
  <2>1. QED  BY <1>3, PolicyAssumption DEF Capped
<1>5. /\ RiskRank(intent.risk) \in 0..2 /\ RiskRank(MaxRisk(r)) \in 0..1
      /\ RiskRank(MaxAutoRisk) \in 0..2 /\ intent.confident \in BOOLEAN
      /\ intent.risk = "High" => RiskRank(intent.risk) = 2
  BY <1>1, PolicyAssumption DEF RiskRank, MaxRisk, IsIntent
<1>6. FilterAction(action, r, k) \in Verdicts
  BY DEF FilterAction, Verdicts, DenialReasons
<1>7. verdict \in Verdicts
  BY <1>6 DEF EvaluateAction, Verdicts, DenialReasons
<1>8. verdict = "Approved" <=>
        /\ RiskRank(intent.risk) <= RiskRank(MaxRisk(r))
        /\ RiskRank(intent.risk) <= RiskRank(MaxAutoRisk)
        /\ intent.confident
        /\ FilterAction(action, r, k) = "Approved"
        /\ n < MaxActions
  <2> HIDE DEF n, intent
  <2>1. QED  BY <1>4, <1>5 DEF EvaluateAction
<1>9. FilterAction(action, r, k) = "Approved" => TargetAllowed(action, k)
  BY DEF FilterAction
<1>10. ASSUME verdict = "Approved" PROVE SchemaValid(intent, action)
  <2>1. RiskRank(intent.risk) <= RiskRank(MaxRisk(r)) /\ TargetAllowed(action, k)
    BY <1>8, <1>9, <1>10
  <2>2. intent.risk # "High"
    BY <1>5, <2>1
  <2>3. action.type = "PreWarmProcess" => action.target[1] \notin {"none", "empty"}
    BY <2>1 DEF TargetAllowed, InContext
  <2>4. QED  BY <2>2, <2>3 DEF SchemaValid
<1>11. QED  BY <1>1, <1>7, <1>8, <1>9, <1>10

\* The verdicts of the window at hand are those of its batch, route and context.
VerdictInv ==
    /\ IsBatch(batch)
    /\ route \in Routes
    /\ DOMAIN verdicts = Coords(batch)
    /\ \A c \in Coords(batch) :
        verdicts[c] = EvaluateAction(batch[c[1]], c[2], route, known)

\* No step of run() changes what it was given to run.
LEMMA VerdictInvariance == Spec => []VerdictInv
<1>1. Init => VerdictInv
  <2> SUFFICES ASSUME Init PROVE VerdictInv
    OBVIOUS
  <2>1. batch = <<>> /\ verdicts = <<>> /\ route \in Routes
    BY DEF Init
  <2>2. IsBatch(batch) /\ Coords(batch) = {} /\ DOMAIN verdicts = {}
    BY <2>1 DEF IsBatch, IsVec, Coords
  <2>3. QED  BY <2>1, <2>2 DEF VerdictInv
<1>2. VerdictInv /\ [Next]_vars => VerdictInv'
  <2> SUFFICES ASSUME VerdictInv, [Next]_vars PROVE VerdictInv'
    OBVIOUS
  <2>1. CASE BeginWindow
    <3>1. PICK b \in Batches, r \in Routes, k \in Contexts :
            /\ batch' = b /\ route' = r /\ known' = k
            /\ verdicts' = [c \in Coords(b) |->
                              EvaluateAction(b[c[1]], c[2], r, k)]
      BY <2>1 DEF BeginWindow
    <3>2. IsBatch(b)
      BY GovernanceAssumption DEF IsBatch
    <3>3. QED  BY <3>1, <3>2 DEF VerdictInv
  <2>2. CASE UNCHANGED <<batch, route, known, verdicts>>
    BY <2>2 DEF VerdictInv
  <2>3. QED
    BY <2>1, <2>2 DEF Next, Propose, ValidateSchema, CheckPolicy, Execute,
                      EndWindow, Finished, vars, window
<1>3. QED  BY <1>1, <1>2, PTL DEF Spec

\* evaluate_intent approves exactly what the policy's rule says, for batches of
\* any size: counting stops at the cap and still caps at the right action, and
\* judging before the schema is validated approves nothing the schema rejects.
THEOREM VerdictsSound == Spec => []VerdictsMatchRule
<1>1. VerdictInv => VerdictsMatchRule
  <2> SUFFICES ASSUME VerdictInv, NEW c \in DOMAIN verdicts
               PROVE  LET intent == batch[c[1]]
                          passes(n) == FilterAction(intent.actions[n], route, known)
                                            = "Approved"
                      IN  /\ verdicts[c] = "Approved" <=>
                              /\ RiskRank(intent.risk) <= RiskRank(MaxRisk(route))
                              /\ RiskRank(intent.risk) <= RiskRank(MaxAutoRisk)
                              /\ intent.confident
                              /\ passes(c[2])
                              /\ Cardinality({n \in 1..(c[2] - 1) : passes(n)})
                                    < MaxActions
                          /\ verdicts[c] = "Approved"
                                => SchemaValid(intent, ActionAt(batch, c))
    BY DEF VerdictsMatchRule
  <2>1. /\ IsBatch(batch) /\ route \in Routes /\ c \in Coords(batch)
        /\ verdicts[c] = EvaluateAction(batch[c[1]], c[2], route, known)
    BY DEF VerdictInv
  <2> DEFINE intent == batch[c[1]]
             passes(n) == FilterAction(intent.actions[n], route, known) = "Approved"
             verdict == EvaluateAction(intent, c[2], route, known)
  <2>2. /\ verdict = "Approved" <=>
            /\ RiskRank(intent.risk) <= RiskRank(MaxRisk(route))
            /\ RiskRank(intent.risk) <= RiskRank(MaxAutoRisk)
            /\ intent.confident
            /\ passes(c[2])
            /\ Cardinality(Passing(intent, route, known, c[2] - 1)) < MaxActions
        /\ verdict = "Approved" => SchemaValid(intent, ActionAt(batch, c))
    BY <2>1, ApprovalRule
  <2>3. Passing(intent, route, known, c[2] - 1) = {n \in 1..(c[2] - 1) : passes(n)}
    BY DEF Passing
  <2> HIDE DEF passes
  <2>4. QED  BY <2>1, <2>2, <2>3 DEF passes
<1>2. QED  BY <1>1, VerdictInvariance, PTL

-----------------------------------------------------------------------------
(***************************************************************************)
(* The lifecycle.  Where run() is tells what the record at hand holds;     *)
(* what is recorded, at hand and still to visit is the batch, in order.    *)
(***************************************************************************)
Stages == {"idle", "propose", "schema", "policy", "execute"}
Rec(c, t, x) == [coord |-> c, transitions |-> t, reason |-> x]
StageTransitions(st) ==
    CASE st = "schema" -> <<"Proposed">>
      [] st = "policy" -> <<"Proposed", "SchemaValidated">>
      [] st = "execute" -> <<"Proposed", "SchemaValidated", "PolicyChecked",
                             "Dispatched">>

AtHand == IF stage \in {"schema", "policy", "execute"} THEN {record.coord} ELSE {}
Done == {records[i].coord : i \in DOMAIN records}

Coordinates == Nat \X Nat
Reasons == Verdicts \cup {"none"}
Records == [coord : Coordinates, transitions : Lifecycles, reason : Reasons]

StageInv ==
    /\ stage \in Stages
    /\ windowOrdinal \in Nat
    /\ stage \in {"schema", "policy", "execute"} =>
        \E c \in Coords(batch) : record = Rec(c, StageTransitions(stage), "none")
    /\ stage = "execute" => verdicts[record.coord] = "Approved"

CoverInv ==
    /\ Done \cup AtHand \cup todo = Coords(batch)
    /\ stage = "idle" => todo = {}

OrderInv ==
    /\ \A i, j \in DOMAIN records :
        i < j => Before(records[i].coord, records[j].coord)
    /\ \A i \in DOMAIN records, d \in AtHand \cup todo : Before(records[i].coord, d)
    /\ \A c \in AtHand, d \in todo : Before(c, d)

RecordInv ==
    /\ records \in Seq(Records)
    /\ IsFiniteSet(Done)
    /\ Cardinality(Done) = Len(records)

SummaryInv ==
    (stage = "idle" /\ windowOrdinal > 0) =>
        summary.succeeded + summary.denied + summary.failed = Len(records)

AuditInv ==
    /\ VerdictInv
    /\ StageInv
    /\ CoverInv
    /\ OrderInv
    /\ RecordInv
    /\ SummaryInv

\* The last state of a legal lifecycle, and whether it was dispatched.
LEMMA LifecycleEnds ==
    ASSUME NEW t \in Lifecycles
    PROVE  /\ t[Len(t)] \in TerminalStates
           /\ (\E i \in DOMAIN t : t[i] = "Dispatched")
                <=> Len(t) = 5
<1>1. CASE t = <<"Proposed", "RejectedInvalidSchema">>
  BY <1>1 DEF TerminalStates
<1>2. CASE \E x \in {"DeniedByCapability", "DeniedByPolicy"} :
            t = <<"Proposed", "SchemaValidated", "PolicyChecked", x>>
  BY <1>2 DEF TerminalStates
<1>3. CASE \E x \in {"Succeeded", "Failed"} :
            t = <<"Proposed", "SchemaValidated", "PolicyChecked", "Dispatched", x>>
  BY <1>3 DEF TerminalStates
<1>4. QED  BY <1>1, <1>2, <1>3 DEF Lifecycles

\* Transitions are appended to a record's; nothing else of it changes.
LEMMA TransitionAppends ==
    \A c, t, u, x : Transition(Rec(c, t, x), u) = Rec(c, t \o u, x)
<1> SUFFICES ASSUME NEW c, NEW t, NEW u, NEW x
             PROVE  Transition(Rec(c, t, x), u) = Rec(c, t \o u, x)
  OBVIOUS
<1>1. Transition(Rec(c, t, x), u) = [Rec(c, t, x) EXCEPT !.transitions = t \o u]
  BY DEF Transition, Rec
<1>2. \A v : [Rec(c, t, x) EXCEPT !.transitions = v] = Rec(c, v, x)
  BY DEF Rec
<1>3. QED  BY <1>1, <1>2, Zenon

\* The concatenations that lifecycles are built of: one state after one,
LEMMA ConcatOneOne ==
    \A a, b : <<a>> \o <<b>> = <<a, b>>
<1> SUFFICES ASSUME NEW a, NEW b
             PROVE  <<a>> \o <<b>> = <<a, b>>
  OBVIOUS
<1> DEFINE T == {a, b}
<1>1. a \in T /\ b \in T
  OBVIOUS
<1> HIDE DEF T
<1>2. <<a>> \in Seq(T) /\ Len(<<a>>) = 1
  BY <1>1
<1>3. <<b>> \in Seq(T) /\ Len(<<b>>) = 1
  BY <1>1
<1>4. <<a, b>> \in Seq(T) /\ Len(<<a, b>>) = 2
  BY <1>1
<1> DEFINE s == <<a>>
           t == <<b>>
           u == <<a, b>>
           w == s \o t
<1>5. s[1] = a
  OBVIOUS
<1>6. t[1] = b
  OBVIOUS
<1>7. u[1] = a /\ u[2] = b
  OBVIOUS
<1>8. w \in Seq(T) /\ Len(w) = 2
  BY <1>2, <1>3, ConcatProperties
<1> HIDE DEF s, t
<1>9. \A i \in 1..2 : w[i] = IF i <= 1 THEN s[i] ELSE t[i - 1]
  BY <1>2, <1>3, ConcatProperties DEF s, t
<1> HIDE DEF u, w
<1>10. ASSUME NEW i \in 1..2 PROVE w[i] = u[i]
  <2>1. i = 1 \/ i = 2
    OBVIOUS
  <2>2. QED  BY <1>5, <1>6, <1>7, <1>9, <2>1
<1>11. w = u
  BY <1>4, <1>8, <1>10, SeqEqual DEF u
<1>12. QED  BY <1>11 DEF s, t, u, w

\* two states after two,
LEMMA ConcatTwoTwo ==
    \A a, b, c, d : <<a, b>> \o <<c, d>> = <<a, b, c, d>>
<1> SUFFICES ASSUME NEW a, NEW b, NEW c, NEW d
             PROVE  <<a, b>> \o <<c, d>> = <<a, b, c, d>>
  OBVIOUS
<1> DEFINE T == {a, b, c, d}
<1>1. a \in T /\ b \in T /\ c \in T /\ d \in T
  OBVIOUS
<1> HIDE DEF T
<1>2. <<a, b>> \in Seq(T) /\ Len(<<a, b>>) = 2
  BY <1>1
<1>3. <<c, d>> \in Seq(T) /\ Len(<<c, d>>) = 2
  BY <1>1
<1>4. <<a, b, c, d>> \in Seq(T) /\ Len(<<a, b, c, d>>) = 4
  BY <1>1
<1> DEFINE s == <<a, b>>
           t == <<c, d>>
           u == <<a, b, c, d>>
           w == s \o t
<1>5. s[1] = a /\ s[2] = b
  OBVIOUS
<1>6. t[1] = c /\ t[2] = d
  OBVIOUS
<1>7. u[1] = a /\ u[2] = b /\ u[3] = c /\ u[4] = d
  OBVIOUS
<1>8. w \in Seq(T) /\ Len(w) = 4
  BY <1>2, <1>3, ConcatProperties
<1> HIDE DEF s, t
<1>9. \A i \in 1..4 : w[i] = IF i <= 2 THEN s[i] ELSE t[i - 2]
  BY <1>2, <1>3, ConcatProperties DEF s, t
<1> HIDE DEF u, w
<1>10. ASSUME NEW i \in 1..4 PROVE w[i] = u[i]
  <2>1. i = 1 \/ i = 2 \/ i = 3 \/ i = 4
    OBVIOUS
  <2>2. QED  BY <1>5, <1>6, <1>7, <1>9, <2>1
<1>11. w = u
  BY <1>4, <1>8, <1>10, SeqEqual DEF u
<1>12. QED  BY <1>11 DEF s, t, u, w

\* and the outcome after a dispatch.
LEMMA ConcatFourOne ==
    \A a, b, c, d, e : <<a, b, c, d>> \o <<e>> = <<a, b, c, d, e>>
<1> SUFFICES ASSUME NEW a, NEW b, NEW c, NEW d, NEW e
             PROVE  <<a, b, c, d>> \o <<e>> = <<a, b, c, d, e>>
  OBVIOUS
<1> DEFINE T == {a, b, c, d, e}
<1>1. a \in T /\ b \in T /\ c \in T /\ d \in T /\ e \in T
  OBVIOUS
<1> HIDE DEF T
<1>2. <<a, b, c, d>> \in Seq(T) /\ Len(<<a, b, c, d>>) = 4
  BY <1>1
<1>3. <<e>> \in Seq(T) /\ Len(<<e>>) = 1
  BY <1>1
<1>4. <<a, b, c, d, e>> \in Seq(T) /\ Len(<<a, b, c, d, e>>) = 5
  BY <1>1
<1> DEFINE s == <<a, b, c, d>>
           t == <<e>>
           u == <<a, b, c, d, e>>
           w == s \o t
<1>5. s[1] = a /\ s[2] = b /\ s[3] = c /\ s[4] = d
  OBVIOUS
<1>6. t[1] = e
  OBVIOUS
<1>7. u[1] = a /\ u[2] = b /\ u[3] = c /\ u[4] = d /\ u[5] = e
  OBVIOUS
<1>8. w \in Seq(T) /\ Len(w) = 5
  BY <1>2, <1>3, ConcatProperties
<1> HIDE DEF s, t
<1>9. \A i \in 1..5 : w[i] = IF i <= 4 THEN s[i] ELSE t[i - 4]
  BY <1>2, <1>3, ConcatProperties DEF s, t
<1> HIDE DEF u, w
<1>10. ASSUME NEW i \in 1..5 PROVE w[i] = u[i]
  <2>1. i = 1 \/ i = 2 \/ i = 3 \/ i = 4 \/ i = 5
    OBVIOUS
  <2>2. QED  BY <1>5, <1>6, <1>7, <1>9, <2>1
<1>11. w = u
  BY <1>4, <1>8, <1>10, SeqEqual DEF u
<1>12. QED  BY <1>11 DEF s, t, u, w

\* Two disjoint finite sets are counted apart.
LEMMA DisjointUnion ==
    ASSUME NEW S, NEW T, IsFiniteSet(S), IsFiniteSet(T), S \cap T = {}
    PROVE  /\ IsFiniteSet(S \cup T)
           /\ Cardinality(S \cup T) = Cardinality(S) + Cardinality(T)
<1>1. Cardinality(S) \in Nat /\ Cardinality(T) \in Nat
  BY FS_CardinalityType
<1>2. Cardinality(S \cap T) = 0
  BY FS_EmptySet
<1>3. /\ IsFiniteSet(S \cup T)
      /\ Cardinality(S \cup T)
            = Cardinality(S) + Cardinality(T) - Cardinality(S \cap T)
  BY FS_Union
<1>4. QED  BY <1>1, <1>2, <1>3

\* A finished action is recorded after the ones before it, and none of them is
\* it again.
LEMMA PushKeeps ==
    ASSUME AuditInv, stage \in {"schema", "policy", "execute"}, NEW r,
           r \in Records, r.coord = record.coord, PushRecord(r),
           UNCHANGED <<windowOrdinal, batch, route, known, verdicts, todo, summary>>
    PROVE  AuditInv'
<1> DEFINE n == Len(records)
<1>1. VerdictInv /\ StageInv /\ CoverInv /\ OrderInv /\ RecordInv
  BY DEF AuditInv
<1>2. /\ records' = Append(records, r) /\ stage' = "propose"
      /\ records \in Seq(Records) /\ n \in Nat
  BY <1>1, LenProperties DEF PushRecord, RecordInv
<1>3. /\ records' \in Seq(Records) /\ Len(records') = n + 1
      /\ DOMAIN records = 1..n /\ DOMAIN records' = 1..(n + 1)
      /\ \A i \in 1..n : records'[i] = records[i]
      /\ records'[n + 1] = r
  BY <1>2, AppendProperties, LenProperties
<1> HIDE DEF n
<1>4. AtHand = {r.coord} /\ AtHand' = {}
  BY <1>2 DEF AtHand
<1>5. \A i \in 1..(n + 1) : i \in 1..n \/ i = n + 1
  BY <1>2
<1>6. Done' = Done \cup {r.coord}
  <2>1. Done' = {records'[i].coord : i \in 1..(n + 1)}
    BY <1>3 DEF Done
  <2>2. \A i \in 1..n : i \in 1..(n + 1)
    BY <1>2
  <2>3. n + 1 \in 1..(n + 1)
    BY <1>2
  <2>4. QED  BY <1>3, <1>5, <2>1, <2>2, <2>3 DEF Done
<1>7. r.coord \notin Done
  <2>1. SUFFICES ASSUME NEW i \in DOMAIN records, records[i].coord = r.coord
                 PROVE  FALSE
    BY DEF Done
  <2>2. Before(r.coord, r.coord)
    BY <1>1, <1>4, <2>1 DEF OrderInv
  <2>3. r.coord[1] \in Nat /\ r.coord[2] \in Nat
    BY DEF Records, Coordinates
  <2>4. QED  BY <2>2, <2>3 DEF Before
<1>8. RecordInv'
  <2>1. IsFiniteSet(Done) /\ Cardinality(Done) = n
    BY <1>1 DEF RecordInv, n
  <2>2. IsFiniteSet(Done') /\ Cardinality(Done') = n + 1
    BY <1>6, <1>7, <2>1, FS_AddElement
  <2>3. QED  BY <1>3, <2>2 DEF RecordInv
<1>9. CoverInv'
  <2>1. Done \cup {r.coord} \cup todo = Coords(batch)
    BY <1>1, <1>4 DEF CoverInv
  <2>2. (Done \cup AtHand \cup todo)' = Done \cup {r.coord} \cup todo
    BY <1>4, <1>6
  <2>3. Coords(batch)' = Coords(batch)
    OBVIOUS
  <2>4. QED  BY <1>2, <2>1, <2>2, <2>3 DEF CoverInv
<1>10. OrderInv'
  <2>1. ASSUME NEW i \in 1..(n + 1), NEW j \in 1..(n + 1), i < j
        PROVE  Before(records'[i].coord, records'[j].coord)
    <3>1. i \in 1..n
      BY <1>2, <2>1
    <3>2. CASE j \in 1..n
      BY <1>1, <1>3, <2>1, <3>1, <3>2 DEF OrderInv
    <3>3. CASE j = n + 1
      BY <1>1, <1>3, <1>4, <3>1, <3>3 DEF OrderInv
    <3>4. QED  BY <1>5, <3>2, <3>3
  <2>2. ASSUME NEW i \in 1..(n + 1), NEW d \in todo
        PROVE  Before(records'[i].coord, d)
    <3>1. CASE i \in 1..n
      BY <1>1, <1>3, <3>1 DEF OrderInv
    <3>2. CASE i = n + 1
      BY <1>1, <1>3, <1>4, <3>2 DEF OrderInv
    <3>3. QED  BY <1>5, <3>1, <3>2
  <2>3. QED  BY <1>3, <1>4, <2>1, <2>2 DEF OrderInv
<1>11. StageInv'
  BY <1>1, <1>2 DEF StageInv, Stages
<1>12. VerdictInv' /\ SummaryInv'
  BY <1>1, <1>2 DEF VerdictInv, SummaryInv
<1>13. QED  BY <1>8, <1>9, <1>10, <1>11, <1>12 DEF AuditInv

\* The record at hand moves on to the next stage, for the same coordinate.
LEMMA StageKeeps ==
    ASSUME AuditInv, stage \in {"schema", "policy"},
           stage' \in {"policy", "execute"}, record'.coord = record.coord,
           StageInv',
           UNCHANGED <<windowOrdinal, batch, route, known, verdicts, todo, records,
                       summary>>
    PROVE  AuditInv'
<1>1. AtHand' = AtHand /\ Done' = Done
  BY DEF AtHand, Done
<1>2. VerdictInv' /\ RecordInv' /\ SummaryInv'
  BY <1>1 DEF AuditInv, VerdictInv, RecordInv, SummaryInv
<1>3. CoverInv' /\ OrderInv'
  BY <1>1 DEF AuditInv, CoverInv, OrderInv
<1>4. QED  BY <1>2, <1>3 DEF AuditInv

\* What the record at hand is when ValidateSchema, CheckPolicy or Execute takes it.
LEMMA RecordTypes ==
    ASSUME AuditInv, stage \in {"schema", "policy", "execute"}
    PROVE  /\ record.coord \in Coords(batch) /\ record.coord \in Coordinates
           /\ record = Rec(record.coord, StageTransitions(stage), "none")
<1>1. PICK c \in Coords(batch) : record = Rec(c, StageTransitions(stage), "none")
  BY DEF AuditInv, StageInv
<1>2. c \in Coordinates
  BY CoordsAreIndices DEF AuditInv, VerdictInv, Coordinates
<1>3. record.coord = c
  BY <1>1 DEF Rec
<1>4. QED  BY <1>1, <1>2, <1>3

\* What validate_schema appends to the record at hand,
LEMMA SchemaTransition ==
    ASSUME AuditInv, stage = "schema", NEW x
    PROVE  Transition(record, <<x>>)
            = Rec(record.coord, <<"Proposed", x>>, "none")
<1>1. record = Rec(record.coord, StageTransitions("schema"), "none")
  BY RecordTypes
<1>2. StageTransitions("schema") = <<"Proposed">>
  BY DEF StageTransitions
<1> DEFINE p == <<"Proposed">>
           q == <<x>>
           w == <<"Proposed", x>>
           c == record.coord
<1>3. p \o q = w
  BY ConcatOneOne
<1> HIDE DEF p, q, w, c
<1>4. record = Rec(c, p, "none")
  BY <1>1, <1>2 DEF p, c
<1>5. Transition(record, q) = Rec(c, p \o q, "none")
  BY <1>4, TransitionAppends
<1>6. Transition(record, q) = Rec(c, w, "none")
  BY <1>3, <1>5
<1>7. QED  BY <1>6 DEF q, w, c

\* the policy check,
LEMMA PolicyTransition ==
    ASSUME AuditInv, stage = "policy", NEW x
    PROVE  Transition(record, <<"PolicyChecked", x>>)
            = Rec(record.coord, <<"Proposed", "SchemaValidated", "PolicyChecked", x>>, "none")
<1>1. record = Rec(record.coord, StageTransitions("policy"), "none")
  BY RecordTypes
<1>2. StageTransitions("policy") = <<"Proposed", "SchemaValidated">>
  BY DEF StageTransitions
<1> DEFINE p == <<"Proposed", "SchemaValidated">>
           q == <<"PolicyChecked", x>>
           w == <<"Proposed", "SchemaValidated", "PolicyChecked", x>>
           c == record.coord
<1>3. p \o q = w
  BY ConcatTwoTwo
<1> HIDE DEF p, q, w, c
<1>4. record = Rec(c, p, "none")
  BY <1>1, <1>2 DEF p, c
<1>5. Transition(record, q) = Rec(c, p \o q, "none")
  BY <1>4, TransitionAppends
<1>6. Transition(record, q) = Rec(c, w, "none")
  BY <1>3, <1>5
<1>7. QED  BY <1>6 DEF q, w, c

\* and the execution.
LEMMA OutcomeTransition ==
    ASSUME AuditInv, stage = "execute", NEW x
    PROVE  Transition(record, <<x>>)
            = Rec(record.coord, <<"Proposed", "SchemaValidated", "PolicyChecked", "Dispatched", x>>, "none")
<1>1. record = Rec(record.coord, StageTransitions("execute"), "none")
  BY RecordTypes
<1>2. StageTransitions("execute") = <<"Proposed", "SchemaValidated", "PolicyChecked", "Dispatched">>
  BY DEF StageTransitions
<1> DEFINE p == <<"Proposed", "SchemaValidated", "PolicyChecked", "Dispatched">>
           q == <<x>>
           w == <<"Proposed", "SchemaValidated", "PolicyChecked", "Dispatched", x>>
           c == record.coord
<1>3. p \o q = w
  BY ConcatFourOne
<1> HIDE DEF p, q, w, c
<1>4. record = Rec(c, p, "none")
  BY <1>1, <1>2 DEF p, c
<1>5. Transition(record, q) = Rec(c, p \o q, "none")
  BY <1>4, TransitionAppends
<1>6. Transition(record, q) = Rec(c, w, "none")
  BY <1>3, <1>5
<1>7. QED  BY <1>6 DEF q, w, c

\* A record of a legal lifecycle can be pushed.
LEMMA LegalRecord ==
    ASSUME NEW c \in Coordinates, NEW t \in Lifecycles, NEW x \in Reasons
    PROVE  Rec(c, t, x) \in Records /\ Rec(c, t, x).coord = c
BY DEF Rec, Records

\* Every step of run() keeps the account of what was recorded and what is left.
LEMMA AuditStep == AuditInv /\ [Next]_vars => AuditInv'
<1> SUFFICES ASSUME AuditInv, [Next]_vars PROVE AuditInv'
  OBVIOUS
<1> USE DEF window
<1>a. VerdictInv /\ StageInv /\ CoverInv /\ OrderInv /\ RecordInv /\ SummaryInv
  BY DEF AuditInv
<1>1. CASE BeginWindow
  <2>1. PICK b \in Batches, r \in Routes, k \in Contexts :
          /\ batch' = b /\ route' = r /\ known' = k
          /\ verdicts' = [c \in Coords(b) |-> EvaluateAction(b[c[1]], c[2], r, k)]
          /\ todo' = Coords(b)
    BY <1>1 DEF BeginWindow
  <2>2. /\ records' = <<>> /\ stage' = "propose" /\ windowOrdinal' = windowOrdinal
    BY <1>1 DEF BeginWindow
  <2>3. IsBatch(b)
    BY GovernanceAssumption DEF IsBatch
  <2>4. VerdictInv'
    BY <2>1, <2>3 DEF VerdictInv
  <2>5. AtHand' = {} /\ Done' = {} /\ DOMAIN records' = {}
    BY <2>2 DEF AtHand, Done
  <2>6. StageInv' /\ SummaryInv'
    BY <1>a, <2>2 DEF StageInv, Stages, SummaryInv
  <2>7. CoverInv' /\ OrderInv'
    BY <2>1, <2>2, <2>5 DEF CoverInv, OrderInv
  <2>8. RecordInv'
    BY <2>2, <2>5, EmptySeq, FS_EmptySet DEF RecordInv
  <2>9. QED  BY <2>4, <2>6, <2>7, <2>8 DEF AuditInv
<1>2. CASE Propose
  <2> DEFINE c == First(todo)
  <2>1. /\ stage = "propose" /\ todo # {} /\ stage' = "schema"
        /\ record' = [coord |-> c, transitions |-> <<"Proposed">>,
                      reason |-> "none"]
        /\ todo' = todo \ {c}
        /\ UNCHANGED <<windowOrdinal, batch, route, known, verdicts, records,
                       summary>>
    BY <1>2 DEF Propose
  <2>2. todo \subseteq Coords(batch) /\ Coords(batch) \in SUBSET (Nat \X Nat)
    BY <1>a, CoordsAreIndices DEF CoverInv, VerdictInv
  <2>3. c \in todo /\ \A d \in todo \ {c} : Before(c, d)
    BY <2>1, <2>2, FirstIsLeast
  <2> HIDE DEF c
  <2>4. AtHand = {} /\ AtHand' = {c} /\ Done' = Done
    BY <2>1 DEF AtHand, Done
  <2>5. StageInv'
    <3>1. record' = Rec(c, StageTransitions(stage'), "none")
      BY <2>1 DEF Rec, StageTransitions
    <3>2. c \in Coords(batch)'
      BY <2>1, <2>2, <2>3
    <3>3. QED  BY <1>a, <2>1, <3>1, <3>2 DEF StageInv, Stages
  <2>6. CoverInv'
    BY <1>a, <2>1, <2>3, <2>4 DEF CoverInv
  <2>7. OrderInv'
    BY <1>a, <2>1, <2>3, <2>4 DEF OrderInv
  <2>8. VerdictInv' /\ RecordInv' /\ SummaryInv'
    BY <1>a, <2>1, <2>4 DEF VerdictInv, RecordInv, SummaryInv
  <2>9. QED  BY <2>5, <2>6, <2>7, <2>8 DEF AuditInv
<1>3. CASE ValidateSchema
  <2> DEFINE c == record.coord
  <2>1. stage = "schema"
        /\ UNCHANGED <<windowOrdinal, batch, route, known, verdicts, todo, summary>>
    BY <1>3 DEF ValidateSchema
  <2>2. c \in Coords(batch) /\ c \in Coordinates
    BY <2>1, RecordTypes
  <2>3. ASSUME NEW x
        PROVE  Transition(record, <<x>>) = Rec(c, <<"Proposed", x>>, "none")
    BY <2>1, SchemaTransition
  <2>4. CASE /\ record' = Transition(record, <<"SchemaValidated">>)
             /\ stage' = "policy" /\ UNCHANGED records
    <3>1. StageTransitions("policy") = <<"Proposed", "SchemaValidated">>
      BY DEF StageTransitions
    <3>2. record' = Rec(c, StageTransitions(stage'), "none")
      BY <2>3, <2>4, <3>1
    <3>3. StageInv'
      BY <1>a, <2>1, <2>2, <2>4, <3>2 DEF StageInv, Stages
    <3>4. record'.coord = record.coord
      BY <3>2 DEF Rec
    <3>5. QED  BY <2>1, <2>4, <3>3, <3>4, StageKeeps
  <2>5. CASE PushRecord(Transition(record, <<"RejectedInvalidSchema">>))
    <3>1. <<"Proposed", "RejectedInvalidSchema">> \in Lifecycles /\ "none" \in Reasons
      BY DEF Lifecycles, Reasons
    <3> DEFINE r == Transition(record, <<"RejectedInvalidSchema">>)
    <3>2. r \in Records /\ r.coord = c
      BY <2>2, <2>3, <3>1, LegalRecord
    <3> HIDE DEF r
    <3>3. PushRecord(r)
      BY <2>5 DEF r
    <3>4. QED  BY <2>1, <3>2, <3>3, PushKeeps
  <2>6. QED  BY <1>3, <2>4, <2>5 DEF ValidateSchema
<1>4. CASE CheckPolicy
  <2> DEFINE c == record.coord
  <2>1. stage = "policy"
        /\ UNCHANGED <<windowOrdinal, batch, route, known, verdicts, todo, summary>>
    BY <1>4 DEF CheckPolicy
  <2>2. c \in Coords(batch) /\ c \in Coordinates
    BY <2>1, RecordTypes
  <2>a. ASSUME NEW x
        PROVE  Transition(record, <<"PolicyChecked", x>>)
                = Rec(c, <<"Proposed", "SchemaValidated", "PolicyChecked", x>>, "none")
    BY <2>1, PolicyTransition
  <2>3. c \in DOMAIN verdicts /\ verdicts[c] \in Verdicts
    <3>1. /\ IsBatch(batch) /\ route \in Routes /\ DOMAIN verdicts = Coords(batch)
          /\ verdicts[c] = EvaluateAction(batch[c[1]], c[2], route, known)
      BY <1>a, <2>2 DEF VerdictInv
    <3>2. EvaluateAction(batch[c[1]], c[2], route, known) \in Verdicts
      BY <2>2, <3>1, ApprovalRule
    <3>3. QED  BY <2>2, <3>1, <3>2
  <2>4. CASE /\ verdicts[c] = "Approved"
             /\ record' = Transition(record, <<"PolicyChecked", "Dispatched">>)
             /\ stage' = "execute" /\ UNCHANGED records
    <3>1. StageTransitions("execute")
            = <<"Proposed", "SchemaValidated", "PolicyChecked", "Dispatched">>
      BY DEF StageTransitions
    <3>2. record' = Rec(c, StageTransitions(stage'), "none")
      BY <2>a, <2>4, <3>1
    <3>3. record'.coord = c
      BY <3>2 DEF Rec
    <3>4. StageInv'
      BY <1>a, <2>1, <2>2, <2>4, <3>2, <3>3 DEF StageInv, Stages
    <3>5. QED  BY <2>1, <2>4, <3>3, <3>4, StageKeeps
  <2>5. CASE PushRecord([Transition(record, <<"PolicyChecked",
                                              DenialToTerminal(verdicts[c])>>)
                         EXCEPT !.reason = verdicts[c]])
    <3> DEFINE t == DenialToTerminal(verdicts[c])
               ts == <<"Proposed", "SchemaValidated", "PolicyChecked", t>>
               r == [Transition(record, <<"PolicyChecked", t>>)
                        EXCEPT !.reason = verdicts[c]]
    <3>1. t \in {"DeniedByCapability", "DeniedByPolicy"}
      BY DEF DenialToTerminal
    <3>2. ts \in Lifecycles
      BY <3>1 DEF Lifecycles
    <3>3. Transition(record, <<"PolicyChecked", t>>) = Rec(c, ts, "none")
      BY <2>a
    <3> HIDE DEF t, ts
    <3>4. r = Rec(c, ts, verdicts[c])
      BY <3>3 DEF Rec
    <3>5. verdicts[c] \in Reasons
      BY <2>3 DEF Reasons
    <3> HIDE DEF r
    <3>6. r \in Records /\ r.coord = record.coord
      BY <2>2, <3>2, <3>4, <3>5, LegalRecord
    <3>7. PushRecord(r)
      BY <2>5 DEF r, t
    <3>8. QED  BY <2>1, <3>6, <3>7, PushKeeps
  <2>6. QED  BY <1>4, <2>3, <2>4, <2>5 DEF CheckPolicy
<1>5. CASE Execute
  <2> DEFINE c == record.coord
  <2>1. stage = "execute"
        /\ UNCHANGED <<windowOrdinal, batch, route, known, verdicts, todo, summary>>
    BY <1>5 DEF Execute
  <2>2. PICK x \in {"Succeeded", "Failed"} : PushRecord(Transition(record, <<x>>))
    BY <1>5 DEF Execute
  <2> DEFINE r == Transition(record, <<x>>)
             ts == <<"Proposed", "SchemaValidated", "PolicyChecked", "Dispatched", x>>
  <2>3. c \in Coordinates
    BY <2>1, RecordTypes
  <2>5. r = Rec(c, ts, "none")
    BY <2>1, OutcomeTransition
  <2>6. ts \in Lifecycles /\ "none" \in Reasons
    BY DEF Lifecycles, Reasons
  <2> HIDE DEF ts
  <2>7. r \in Records /\ r.coord = record.coord
    BY <2>3, <2>5, <2>6, LegalRecord
  <2> HIDE DEF r
  <2>8. PushRecord(r)
    BY <2>2 DEF r
  <2>9. QED  BY <2>1, <2>7, <2>8, PushKeeps
<1>6. CASE EndWindow
  <2>1. /\ stage = "propose" /\ todo = {} /\ stage' = "idle"
        /\ windowOrdinal' = windowOrdinal + 1
        /\ UNCHANGED <<batch, route, known, verdicts, todo, record, records>>
        /\ summary' = [succeeded |-> CountTerminal({"Succeeded"}),
                       denied |-> CountTerminal({"RejectedInvalidSchema",
                                                 "DeniedByCapability",
                                                 "DeniedByPolicy"}),
                       failed |-> CountTerminal({"Failed"})]
    BY <1>6 DEF EndWindow
  <2>2. AtHand = {} /\ AtHand' = {} /\ Done' = Done
    BY <2>1 DEF AtHand, Done
  <2>3. VerdictInv' /\ StageInv'
    BY <1>a, <2>1 DEF VerdictInv, StageInv, Stages
  <2>4. CoverInv' /\ OrderInv' /\ RecordInv'
    BY <1>a, <2>1, <2>2 DEF CoverInv, OrderInv, RecordInv
  <2>5. SummaryInv'
    <3> DEFINE n == Len(records)
               S == {i \in 1..n : Terminal(records[i]) \in {"Succeeded"}}
               D == {i \in 1..n : Terminal(records[i]) \in
                        {"RejectedInvalidSchema", "DeniedByCapability",
                         "DeniedByPolicy"}}
               F == {i \in 1..n : Terminal(records[i]) \in {"Failed"}}
    <3>1. n \in Nat /\ DOMAIN records = 1..n /\ \A i \in 1..n : records[i] \in Records
      BY <1>a, LenProperties, ElementOfSeq DEF RecordInv
    <3>2. \A i \in 1..n : Terminal(records[i]) \in TerminalStates
      BY <3>1, LifecycleEnds DEF Records, Terminal
    <3> HIDE DEF n
    <3>3. /\ S \cup D = {i \in 1..n : Terminal(records[i]) # "Failed"}
          /\ (S \cup D) \cup F = 1..n
          /\ S \cap D = {} /\ (S \cup D) \cap F = {}
      BY <3>2 DEF TerminalStates
    <3>4. IsFiniteSet(1..n) /\ Cardinality(1..n) = n
      <4>1. 1 \in Int /\ n \in Int  BY <3>1
      <4>2. IsFiniteSet(1..n)
            /\ Cardinality(1..n) = IF 1 > n THEN 0 ELSE n - 1 + 1
        BY <4>1, FS_Interval
      <4>3. QED  BY <3>1, <4>2
    <3>5. /\ IsFiniteSet(S) /\ IsFiniteSet(D) /\ IsFiniteSet(F)
          /\ Cardinality(S) \in Nat /\ Cardinality(D) \in Nat
          /\ Cardinality(F) \in Nat
      BY <3>4, FS_Subset, FS_CardinalityType
    <3>6. /\ CountTerminal({"Succeeded"}) = Cardinality(S)
          /\ CountTerminal({"RejectedInvalidSchema", "DeniedByCapability",
                            "DeniedByPolicy"}) = Cardinality(D)
          /\ CountTerminal({"Failed"}) = Cardinality(F)
      BY <3>1 DEF CountTerminal
    <3> HIDE DEF S, D, F
    <3>7. /\ IsFiniteSet(S \cup D)
          /\ Cardinality(S \cup D) = Cardinality(S) + Cardinality(D)
      BY <3>3, <3>5, DisjointUnion
    <3>8. Cardinality((S \cup D) \cup F)
            = Cardinality(S) + Cardinality(D) + Cardinality(F)
      BY <3>3, <3>5, <3>7, DisjointUnion
    <3>9. Cardinality(S) + Cardinality(D) + Cardinality(F) = n
      BY <3>3, <3>4, <3>8
    <3>10. /\ summary'.succeeded = Cardinality(S) /\ summary'.denied = Cardinality(D)
           /\ summary'.failed = Cardinality(F)
      BY <2>1, <3>6
    <3>11. QED  BY <2>1, <3>9, <3>10 DEF SummaryInv, n
  <2>6. QED  BY <2>3, <2>4, <2>5 DEF AuditInv
<1>7. CASE Finished \/ UNCHANGED vars
  <2>1. UNCHANGED vars
    BY <1>7 DEF Finished
  <2>2. AtHand' = AtHand /\ Done' = Done
    BY <2>1 DEF vars, AtHand, Done
  <2>3. VerdictInv' /\ StageInv'
    BY <1>a, <2>1 DEF vars, VerdictInv, StageInv
  <2>4. CoverInv' /\ OrderInv' /\ RecordInv' /\ SummaryInv'
    BY <1>a, <2>1, <2>2 DEF vars, CoverInv, OrderInv, RecordInv, SummaryInv
  <2>5. QED  BY <2>3, <2>4 DEF AuditInv
<1>8. QED
  BY <1>1, <1>2, <1>3, <1>4, <1>5, <1>6, <1>7 DEF Next

\* The account of the window is kept by every behaviour.
THEOREM AuditInvariance == Spec => []AuditInv
<1>1. Init => AuditInv
  <2> SUFFICES ASSUME Init PROVE AuditInv
    OBVIOUS
  <2>1. /\ batch = <<>> /\ verdicts = <<>> /\ route \in Routes /\ todo = {}
        /\ stage = "idle" /\ records = <<>> /\ windowOrdinal = 0
    BY DEF Init
  <2>2. IsBatch(batch) /\ Coords(batch) = {} /\ DOMAIN verdicts = {}
    BY <2>1 DEF IsBatch, IsVec, Coords
  <2>3. AtHand = {} /\ Done = {} /\ DOMAIN records = {}
    BY <2>1 DEF AtHand, Done
  <2>4. VerdictInv /\ StageInv /\ SummaryInv
    BY <2>1, <2>2 DEF VerdictInv, StageInv, Stages, SummaryInv
  <2>5. CoverInv /\ OrderInv
    BY <2>1, <2>2, <2>3 DEF CoverInv, OrderInv
  <2>6. RecordInv
    BY <2>1, <2>3, EmptySeq, FS_EmptySet DEF RecordInv
  <2>7. QED  BY <2>4, <2>5, <2>6 DEF AuditInv
<1>2. QED  BY <1>1, AuditStep, PTL DEF Spec

\* Whatever the backends propose, run() leaves one record per action, in loop
\* order and with a legal lifecycle (so decisions_by_coord never misses one),
\* and process_window's three counts add up to the actions of the batch.
THEOREM AuditIsComplete == Spec => []AuditComplete
<1>1. AuditInv => AuditComplete
  <2> SUFFICES ASSUME AuditInv PROVE AuditComplete
    OBVIOUS
  <2>1. CoverInv /\ OrderInv /\ RecordInv /\ SummaryInv
    BY DEF AuditInv
  <2>2. ASSUME NEW i \in DOMAIN records PROVE records[i].transitions \in Lifecycles
    <3>1. records[i] \in Records
      BY <2>1, <2>2, ElementOfSeq, LenProperties DEF RecordInv
    <3>2. QED  BY <3>1 DEF Records
  <2>3. ASSUME stage = "idle"
        PROVE  /\ Done = Coords(batch)
               /\ \A i, j \in DOMAIN records :
                    i < j => Before(records[i].coord, records[j].coord)
               /\ windowOrdinal > 0 =>
                    summary.succeeded + summary.denied + summary.failed
                        = Cardinality(Coords(batch))
    <3>1. AtHand = {} /\ todo = {}
      BY <2>1, <2>3 DEF AtHand, CoverInv
    <3>2. Done = Coords(batch)
      BY <2>1, <3>1 DEF CoverInv
    <3>3. Cardinality(Coords(batch)) = Len(records)
      BY <2>1, <3>2 DEF RecordInv
    <3>4. QED  BY <2>1, <2>3, <3>2, <3>3 DEF OrderInv, SummaryInv
  <2>4. QED  BY <2>2, <2>3 DEF AuditComplete, Done
<1>2. QED  BY <1>1, AuditInvariance, PTL

-----------------------------------------------------------------------------
(***************************************************************************)
(* Execution.  Only approved actions of the window reach the adapter.      *)
(***************************************************************************)
ExecInv ==
    /\ executed \in Seq(Coordinates)
    /\ \A i \in DOMAIN executed :
        executed[i] \in Coords(batch) /\ verdicts[executed[i]] = "Approved"

\* Each execution is of the record at hand, which the policy approved.
LEMMA ExecStep == AuditInv /\ ExecInv /\ [Next]_vars => ExecInv'
<1> SUFFICES ASSUME AuditInv, ExecInv, [Next]_vars PROVE ExecInv'
  OBVIOUS
<1>1. CASE BeginWindow
  <2>1. executed' = <<>> /\ DOMAIN executed' = {}
    BY <1>1 DEF BeginWindow
  <2>2. QED  BY <2>1, EmptySeq DEF ExecInv
<1>2. CASE Execute
  <2> DEFINE c == record.coord
             m == Len(executed)
  <2>1. /\ executed' = Append(executed, c) /\ stage = "execute"
        /\ batch' = batch /\ verdicts' = verdicts
    BY <1>2 DEF Execute, window
  <2>2. c \in Coordinates /\ c \in Coords(batch) /\ verdicts[c] = "Approved"
    BY <2>1, RecordTypes DEF AuditInv, StageInv
  <2> HIDE DEF c
  <2>3. executed \in Seq(Coordinates) /\ m \in Nat /\ DOMAIN executed = 1..m
    BY LenProperties DEF ExecInv
  <2>4. /\ executed' \in Seq(Coordinates) /\ Len(executed') = m + 1
        /\ \A i \in 1..m : executed'[i] = executed[i]
        /\ executed'[m + 1] = c
    BY <2>1, <2>2, <2>3, AppendProperties
  <2>5. DOMAIN executed' = 1..(m + 1)
    BY <2>4, LenProperties
  <2> HIDE DEF m
  <2>6. \A i \in 1..(m + 1) : i \in 1..m \/ i = m + 1
    BY <2>3
  <2>7. QED  BY <2>1, <2>2, <2>3, <2>4, <2>5, <2>6 DEF ExecInv
<1>3. CASE UNCHANGED <<batch, verdicts, executed>>
  BY <1>3 DEF ExecInv
<1>4. QED
  BY <1>1, <1>2, <1>3 DEF Next, Propose, ValidateSchema, CheckPolicy, EndWindow,
                          Finished, vars, window

\* Only approved actions of the window's batch are executed.
LEMMA ExecInvariance == Spec => [](AuditInv /\ ExecInv)
<1>1. Init => ExecInv
  <2> SUFFICES ASSUME Init PROVE ExecInv
    OBVIOUS
  <2>1. executed = <<>> /\ DOMAIN executed = {}
    BY DEF Init
  <2>2. QED  BY <2>1, EmptySeq DEF ExecInv
<1>2. QED  BY <1>1, ExecStep, AuditInvariance, PTL DEF Spec

\* check_target holds for whatever reached the adapter: no package that the
\* window's context did not show is warmed, kept, released or fetched.
THEOREM NothingInvented == Spec => []NoInventedPackage
<1>1. AuditInv /\ ExecInv => NoInventedPackage
  <2> SUFFICES ASSUME AuditInv, ExecInv, NEW i \in DOMAIN executed,
                      ActionAt(batch, executed[i]).type # "NoOp",
                      ActionAt(batch, executed[i]).target[1] \in {"pkg", "bare"}
               PROVE  ActionAt(batch, executed[i]).target[2] \in known
    BY DEF NoInventedPackage
  <2> DEFINE c == executed[i]
             action == ActionAt(batch, c)
  <2>1. c \in Coords(batch) /\ verdicts[c] = "Approved"
    BY DEF ExecInv
  <2>2. /\ IsBatch(batch) /\ route \in Routes
        /\ EvaluateAction(batch[c[1]], c[2], route, known) = "Approved"
    BY <2>1 DEF AuditInv, VerdictInv
  <2>3. TargetAllowed(action, known)
    BY <2>1, <2>2, ApprovalRule
  <2>4. action.type \in ActionTypes
    BY <2>1, <2>2, CoordsAreIndices DEF ActionAt
  <2> HIDE DEF action
  <2>5. QED  BY <2>3, <2>4 DEF TargetAllowed, InContext, ActionTypes, action
<1>2. QED  BY <1>1, ExecInvariance, PTL


\* A record is dispatched together with its execution, or without one.
LEMMA PushMatches ==
    ASSUME RecordInv, ExecInv, ExecutionMatchesAudit, NEW r, r \in Records,
           records' = Append(records, r),
           \/ Dispatched(r) /\ executed' = Append(executed, r.coord)
           \/ ~Dispatched(r) /\ executed' = executed
    PROVE  ExecutionMatchesAudit'
<1> DEFINE n == Len(records)
           m == Len(executed)
           D(i) == {j \in 1..i : Dispatched(records[j])}
           E(i) == {j \in 1..i : Dispatched(records'[j])}
<1>1. /\ records \in Seq(Records) /\ n \in Nat /\ DOMAIN records = 1..n
      /\ executed \in Seq(Coordinates) /\ m \in Nat /\ DOMAIN executed = 1..m
      /\ r.coord \in Coordinates
  BY LenProperties DEF RecordInv, ExecInv, Records
<1>2. /\ records' \in Seq(Records) /\ Len(records') = n + 1
      /\ DOMAIN records' = 1..(n + 1)
      /\ \A i \in 1..n : records'[i] = records[i]
      /\ records'[n + 1] = r
  BY <1>1, AppendProperties, LenProperties
<1>3. /\ \A i : DispatchedUpTo(i) = Cardinality(D(i))
      /\ \A i : DispatchedUpTo(i)' = Cardinality(E(i))
  BY DEF DispatchedUpTo
<1>4. /\ m = Cardinality(D(n))
      /\ \A i \in 1..n : Dispatched(records[i]) =>
            executed[Cardinality(D(i))] = records[i].coord
  BY <1>1, <1>3 DEF ExecutionMatchesAudit
<1> HIDE DEF n, m
<1>5. \A i \in 1..n : E(i) = D(i)
  <2> SUFFICES ASSUME NEW i \in 1..n PROVE E(i) = D(i)
    OBVIOUS
  <2>1. \A j \in 1..i : j \in 1..n
    BY <1>1
  <2>2. QED  BY <1>2, <2>1
<1>6. E(n + 1) = IF Dispatched(r) THEN D(n) \cup {n + 1} ELSE D(n)
  <2>1. \A j : j \in 1..(n + 1) <=> j \in 1..n \/ j = n + 1
    BY <1>1
  <2>2. QED  BY <1>2, <2>1
<1>7. /\ IsFiniteSet(D(n)) /\ n + 1 \notin D(n)
  <2>1. IsFiniteSet(1..n)
    BY <1>1, FS_Interval
  <2>2. n + 1 \notin 1..n
    BY <1>1
  <2>3. QED  BY <2>1, <2>2, FS_Subset
<1>8. \A i \in 1..n : Dispatched(records[i]) => Cardinality(D(i)) \in 1..m
  <2> SUFFICES ASSUME NEW i \in 1..n, Dispatched(records[i])
               PROVE  Cardinality(D(i)) \in 1..m
    OBVIOUS
  <2>1. D(i) \subseteq D(n)
    <3>1. \A j \in 1..i : j \in 1..n
      BY <1>1
    <3>2. QED  BY <3>1
  <2>2. IsFiniteSet(D(i)) /\ Cardinality(D(i)) <= m
    BY <1>4, <1>7, <2>1, FS_Subset
  <2>3. i \in D(i)
    BY <1>1
  <2>4. Cardinality(D(i)) \in Nat /\ Cardinality(D(i)) # 0
    <3> HIDE DEF D
    <3>1. QED  BY <2>2, <2>3, FS_CardinalityType, FS_EmptySet
  <2>5. QED  BY <1>1, <2>2, <2>4
<1> HIDE DEF D, E
<1>9. CASE ~Dispatched(r) /\ executed' = executed
  <2>1. Len(executed') = Cardinality(E(n + 1))
    BY <1>4, <1>6, <1>9 DEF m
  <2>2. ASSUME NEW i \in 1..(n + 1), Dispatched(records'[i])
        PROVE  executed'[DispatchedUpTo(i)'] = records'[i].coord
    <3>1. i \in 1..n
      BY <1>1, <1>2, <1>9, <2>2
    <3>2. QED  BY <1>2, <1>3, <1>4, <1>5, <1>9, <2>2, <3>1
  <2>3. QED  BY <1>2, <1>3, <2>1, <2>2 DEF ExecutionMatchesAudit
<1>10. CASE Dispatched(r) /\ executed' = Append(executed, r.coord)
  <2>1. /\ Len(executed') = m + 1
        /\ \A i \in 1..m : executed'[i] = executed[i]
        /\ executed'[m + 1] = r.coord
    BY <1>1, <1>10, AppendProperties DEF m
  <2>2. Cardinality(E(n + 1)) = m + 1
    BY <1>4, <1>6, <1>7, <1>10, FS_AddElement
  <2>3. ASSUME NEW i \in 1..(n + 1), Dispatched(records'[i])
        PROVE  executed'[DispatchedUpTo(i)'] = records'[i].coord
    <3>1. CASE i \in 1..n
      BY <1>2, <1>3, <1>4, <1>5, <1>8, <2>1, <2>3, <3>1
    <3>2. CASE i = n + 1
      BY <1>2, <1>3, <2>1, <2>2, <3>2
    <3>3. QED  BY <1>1, <3>1, <3>2
  <2>4. QED  BY <1>2, <1>3, <2>1, <2>2, <2>3 DEF ExecutionMatchesAudit
<1>11. QED  BY <1>9, <1>10

\* What run() records on each path, and whether it was dispatched.
LEMMA MatchStep ==
    AuditInv /\ ExecInv /\ ExecutionMatchesAudit /\ [Next]_vars
        => ExecutionMatchesAudit'
<1> SUFFICES ASSUME AuditInv, ExecInv, ExecutionMatchesAudit, [Next]_vars
             PROVE  ExecutionMatchesAudit'
  OBVIOUS
<1>a. RecordInv
  BY DEF AuditInv
<1> DEFINE c == record.coord
<1>b. ASSUME NEW t \in Lifecycles, NEW x
      PROVE  Dispatched(Rec(c, t, x)) <=> Len(t) = 5
  BY LifecycleEnds DEF Dispatched, Rec
<1>1. CASE BeginWindow
  <2>1. records' = <<>> /\ executed' = <<>> /\ DOMAIN records' = {}
    BY <1>1 DEF BeginWindow
  <2>2. Len(records') = 0 /\ Len(executed') = 0
    BY <2>1
  <2>3. {i \in 1..0 : Dispatched(records'[i])} = {}
    OBVIOUS
  <2>4. QED  BY <2>1, <2>2, <2>3, FS_EmptySet DEF ExecutionMatchesAudit, DispatchedUpTo
<1>2. CASE ValidateSchema /\ ~UNCHANGED records
  <2>1. /\ stage = "schema" /\ executed' = executed
        /\ PushRecord(Transition(record, <<"RejectedInvalidSchema">>))
    BY <1>2 DEF ValidateSchema
  <2> DEFINE t == <<"Proposed", "RejectedInvalidSchema">>
  <2>2. t \in Lifecycles /\ Len(t) # 5 /\ "none" \in Reasons
    BY DEF Lifecycles, Reasons
  <2>3. records' = Append(records, Rec(c, t, "none"))
    BY <2>1, SchemaTransition DEF PushRecord
  <2>4. c \in Coordinates
    BY <2>1, RecordTypes
  <2> HIDE DEF t, c
  <2>5. Rec(c, t, "none") \in Records
    BY <2>2, <2>4, LegalRecord
  <2>6. ~Dispatched(Rec(c, t, "none"))
    BY <1>b, <2>2
  <2>7. QED  BY <1>a, <2>1, <2>3, <2>5, <2>6, PushMatches
<1>3. CASE CheckPolicy /\ ~UNCHANGED records
  <2>1. stage = "policy" /\ executed' = executed
    BY <1>3 DEF CheckPolicy
  <2>2. c \in Coords(batch) /\ c \in Coordinates
    BY <2>1, RecordTypes
  <2>3. c \in DOMAIN verdicts /\ verdicts[c] \in Verdicts
    <3>1. /\ IsBatch(batch) /\ route \in Routes /\ DOMAIN verdicts = Coords(batch)
          /\ verdicts[c] = EvaluateAction(batch[c[1]], c[2], route, known)
      BY <2>2 DEF AuditInv, VerdictInv
    <3>2. EvaluateAction(batch[c[1]], c[2], route, known) \in Verdicts
      BY <2>2, <3>1, ApprovalRule
    <3>3. QED  BY <2>2, <3>1, <3>2
  <2> DEFINE d == DenialToTerminal(verdicts[c])
             t == <<"Proposed", "SchemaValidated", "PolicyChecked", d>>
             x == verdicts[c]
  <2>4. PushRecord([Transition(record, <<"PolicyChecked", d>>) EXCEPT !.reason = x])
    BY <1>3, <2>3 DEF CheckPolicy
  <2>5. d \in {"DeniedByCapability", "DeniedByPolicy"}
    BY DEF DenialToTerminal
  <2>6. t \in Lifecycles /\ Len(t) # 5 /\ x \in Reasons
    BY <2>3, <2>5 DEF Lifecycles, Reasons
  <2>7. Transition(record, <<"PolicyChecked", d>>) = Rec(c, t, "none")
    BY <2>1, PolicyTransition
  <2> HIDE DEF c, d, t, x
  <2>8. [Rec(c, t, "none") EXCEPT !.reason = x] = Rec(c, t, x)
    BY DEF Rec
  <2>9. records' = Append(records, Rec(c, t, x))
    BY <2>4, <2>7, <2>8 DEF PushRecord
  <2>10. Rec(c, t, x) \in Records
    BY <2>2, <2>6, LegalRecord
  <2>11. ~Dispatched(Rec(c, t, x))
    BY <1>b, <2>6
  <2>12. QED  BY <1>a, <2>1, <2>9, <2>10, <2>11, PushMatches
<1>4. CASE Execute
  <2>1. stage = "execute" /\ executed' = Append(executed, c)
    BY <1>4 DEF Execute
  <2>2. PICK x \in {"Succeeded", "Failed"} : PushRecord(Transition(record, <<x>>))
    BY <1>4 DEF Execute
  <2> DEFINE t == <<"Proposed", "SchemaValidated", "PolicyChecked", "Dispatched", x>>
  <2>3. t \in Lifecycles /\ Len(t) = 5 /\ "none" \in Reasons
    BY DEF Lifecycles, Reasons
  <2>4. records' = Append(records, Rec(c, t, "none"))
    BY <2>1, <2>2, OutcomeTransition DEF PushRecord
  <2>5. c \in Coordinates
    BY <2>1, RecordTypes
  <2> HIDE DEF t, c
  <2>6. Rec(c, t, "none") \in Records /\ Rec(c, t, "none").coord = c
    BY <2>3, <2>5, LegalRecord
  <2>7. Dispatched(Rec(c, t, "none"))
    BY <1>b, <2>3
  <2> DEFINE r == Rec(c, t, "none")
  <2> HIDE DEF r
  <2>8. /\ r \in Records /\ records' = Append(records, r) /\ Dispatched(r)
        /\ executed' = Append(executed, r.coord)
    BY <2>1, <2>4, <2>6, <2>7 DEF r
  <2>9. QED  BY <1>a, <2>8, PushMatches
<1>5. CASE UNCHANGED <<records, executed>>
  BY <1>5 DEF ExecutionMatchesAudit, DispatchedUpTo
<1>6. QED
  BY <1>1, <1>2, <1>3, <1>4, <1>5
     DEF Next, Propose, ValidateSchema, CheckPolicy, EndWindow, Finished, vars, window

\* The adapter is called once for each record that says "Dispatched" and for no
\* other, in the order of the records: the audit is neither short of an
\* execution nor ahead of one.
THEOREM AuditedOnce == Spec => []ExecutionMatchesAudit
<1>1. Init => ExecutionMatchesAudit
  <2> SUFFICES ASSUME Init PROVE ExecutionMatchesAudit
    OBVIOUS
  <2>1. records = <<>> /\ executed = <<>> /\ DOMAIN records = {}
    BY DEF Init
  <2>2. Len(records) = 0 /\ Len(executed) = 0
    BY <2>1
  <2>3. {i \in 1..0 : Dispatched(records[i])} = {}
    OBVIOUS
  <2>4. QED  BY <2>1, <2>2, <2>3, FS_EmptySet DEF ExecutionMatchesAudit, DispatchedUpTo
<1>2. QED  BY <1>1, MatchStep, ExecInvariance, PTL DEF Spec

=============================================================================
