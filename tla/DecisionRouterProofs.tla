------------------------ MODULE DecisionRouterProofs ------------------------
(***************************************************************************)
(* Proofs about DecisionRouter, for every set of contexts, threshold,      *)
(* breaker window and duration.                                            *)
(***************************************************************************)
EXTENDS DecisionRouter, FiniteSetTheorems, SequenceTheorems, TLAPS

\* What a decision carries over into the next: a routed context is one that a
\* window had; a call under way was let through by the privacy gate; and a
\* no-op has left the breaker with no errors to count.
Pending ==
    /\ pc # "filling" => context \in Contexts
    /\ pc = "cloud" => ~(context.score > PrivacyThreshold)

AfterNoOp ==
    (Len(decided) # 0 /\ decided[Len(decided)].route = "FallbackNoOp")
        => errors = <<>>

IInv ==
    /\ TypeOK
    /\ Pending
    /\ AfterNoOp
    /\ SensitiveStaysLocal

\* A breaker without errors is closed.
LEMMA ClosedBreaker ==
    ASSUME errors = <<>>, BreakerThreshold \in Nat \ {0}
    PROVE  DetermineRoute # "FallbackNoOp"
<1>1. {i \in DOMAIN errors : errors[i] + BreakerWindow >= now} = {}
  OBVIOUS
<1>2. CountRecentErrors = 0
  BY <1>1, FS_EmptySet DEF CountRecentErrors
<1>3. QED
  BY <1>2 DEF DetermineRoute, CloudRouteOrFallback

\* A decision is appended to the history and leaves the others alone.
LEMMA Decided ==
    ASSUME TypeOK, Pending, pc # "filling", NEW route \in Routes,
           NEW asked \in Routes, NEW took \in Nat, Decide(route, asked, took)
    PROVE  /\ decided' \in Seq(Decisions)
           /\ Len(decided') = Len(decided) + 1
           /\ \A n \in 1..Len(decided) : decided'[n] = decided[n]
           /\ decided'[Len(decided')].route = route
           /\ decided'[Len(decided')].asked = asked
           /\ decided'[Len(decided')].context = context
           /\ decided'[Len(decided')].from = now
           /\ decided'[Len(decided')].to = now + took
           /\ now' = now + took /\ now' \in Nat
           /\ pc' = "filling" /\ context' = context
<1> DEFINE d == [context |-> context, route |-> route, asked |-> asked,
                 from |-> now, to |-> now + took]
<1>1. d \in Decisions
  BY DEF TypeOK, Pending, Decisions
<1>2. decided' = Append(decided, d) /\ decided \in Seq(Decisions)
  BY DEF Decide, TypeOK
<1>3. /\ d.route = route /\ d.asked = asked /\ d.context = context
      /\ d.from = now /\ d.to = now + took
  OBVIOUS
<1>4. now' = now + took /\ now' \in Nat /\ pc' = "filling" /\ context' = context
  BY DEF Decide, TypeOK
<1> HIDE DEF d
<1>5. /\ Append(decided, d) \in Seq(Decisions)
      /\ Len(Append(decided, d)) = Len(decided) + 1
      /\ \A n \in 1..Len(decided) : Append(decided, d)[n] = decided[n]
      /\ Append(decided, d)[Len(decided) + 1] = d
  BY <1>1, <1>2, AppendProperties
<1>6. QED
  BY <1>2, <1>3, <1>4, <1>5

\* A decision keeps the invariant when what it asked was allowed for the context
\* and a no-op leaves no errors behind.
LEMMA DecideKeeps ==
    ASSUME IInv, pc # "filling", NEW route \in Routes, NEW asked \in Routes,
           NEW took \in Nat, Decide(route, asked, took), errors' \in Seq(Nat),
           route = "FallbackNoOp" => errors' = <<>>,
           context.score > PrivacyThreshold =>
                asked \in {"RuleBased", "FallbackNoOp"}
    PROVE  IInv'
<1>1. TypeOK /\ Pending
  BY DEF IInv
<1>2. /\ decided' \in Seq(Decisions)
      /\ Len(decided') = Len(decided) + 1
      /\ \A n \in 1..Len(decided) : decided'[n] = decided[n]
      /\ decided'[Len(decided')].route = route
      /\ decided'[Len(decided')].asked = asked
      /\ decided'[Len(decided')].context = context
      /\ now' \in Nat /\ pc' = "filling" /\ context' = context
  BY <1>1, Decided
<1>3. TypeOK'
  BY <1>1, <1>2 DEF TypeOK
<1>4. Pending'
  BY <1>2 DEF Pending
<1>5. AfterNoOp'
  BY <1>2 DEF AfterNoOp
<1>6. SensitiveStaysLocal'
  <2>1. Len(decided) \in Nat /\ DOMAIN decided = 1..Len(decided)
        /\ DOMAIN decided' = 1..Len(decided')
    BY <1>1, <1>2, LenProperties DEF TypeOK
  <2>2. SUFFICES ASSUME NEW n \in DOMAIN decided',
                        decided'[n].context.score > PrivacyThreshold
                 PROVE  decided'[n].asked \in {"RuleBased", "FallbackNoOp"}
    BY DEF SensitiveStaysLocal
  <2>3. CASE n = Len(decided')
    BY <1>2, <2>2, <2>3
  <2>4. CASE n # Len(decided')
    <3>1. n \in 1..Len(decided)
      BY <1>2, <2>1, <2>2, <2>4
    <3>2. decided'[n] = decided[n] /\ n \in DOMAIN decided
      BY <1>2, <2>1, <3>1
    <3>3. QED
      BY <2>2, <3>2 DEF IInv, SensitiveStaysLocal
  <2>5. QED  BY <2>3, <2>4
<1>7. QED
  BY <1>3, <1>4, <1>5, <1>6 DEF IInv

\* Every step of the router keeps the inductive invariant.
LEMMA StepKeeps == IInv /\ [Next]_vars => IInv'
<1> SUFFICES ASSUME IInv, [Next]_vars PROVE IInv'
  OBVIOUS
<1>a. TypeOK /\ Pending /\ AfterNoOp /\ SensitiveStaysLocal
  BY DEF IInv
<1>b. <<>> \in Seq(Nat)
  BY EmptySeq
<1>1. CASE CloseWindow
  <2>1. TypeOK'
    BY <1>1, <1>a, RouterAssumption DEF CloseWindow, TypeOK
  <2>2. Pending'
    BY <1>1 DEF CloseWindow, Pending
  <2>3. AfterNoOp' /\ SensitiveStaysLocal'
    BY <1>1, <1>a DEF CloseWindow, AfterNoOp, SensitiveStaysLocal
  <2>4. QED
    BY <2>1, <2>2, <2>3 DEF IInv
<1>2. CASE DecideLocally
  <2>1. DetermineRoute \in Routes
    BY DEF DetermineRoute, CloudRouteOrFallback, Routes
  <2>2. context.score > PrivacyThreshold =>
            DetermineRoute \in {"RuleBased", "FallbackNoOp"}
    BY DEF DetermineRoute
  <2>3. QED
    BY <1>2, <1>b, <2>1, <2>2, DecideKeeps DEF DecideLocally
<1>3. CASE CallCloud
  <2>1. ~(context.score > PrivacyThreshold)
    BY <1>3 DEF CallCloud, DetermineRoute
  <2>2. TypeOK' /\ Pending'
    BY <1>3, <1>a, <2>1 DEF CallCloud, TypeOK, Pending
  <2>3. AfterNoOp' /\ SensitiveStaysLocal'
    BY <1>3, <1>a DEF CallCloud, AfterNoOp, SensitiveStaysLocal
  <2>4. QED
    BY <2>2, <2>3 DEF IInv
<1>4. CASE CloudAnswers
  <2>1. PICK took \in CallTimes : Decide("CloudLlm", "CloudLlm", took)
    BY <1>4 DEF CloudAnswers
  <2>2. took \in Nat /\ ~(context.score > PrivacyThreshold)
    BY <1>4, <1>a, RouterAssumption DEF CloudAnswers, Pending
  <2>3. QED
    BY <1>4, <1>b, <2>1, <2>2, DecideKeeps DEF CloudAnswers, Routes
<1>5. CASE CloudFails
  <2>1. PICK took \in CallTimes : /\ errors' = Append(errors, now + took)
                                  /\ Decide("RuleBased", "CloudLlm", took)
    BY <1>5 DEF CloudFails
  <2>2. took \in Nat /\ ~(context.score > PrivacyThreshold)
    BY <1>5, <1>a, RouterAssumption DEF CloudFails, Pending
  <2>3. errors' \in Seq(Nat)
    BY <1>a, <2>1, <2>2, AppendProperties DEF TypeOK
  <2>4. QED
    BY <1>5, <2>1, <2>2, <2>3, DecideKeeps DEF CloudFails, Routes
<1>6. CASE UNCHANGED vars
  BY <1>6, <1>a DEF vars, IInv, TypeOK, Pending, AfterNoOp, SensitiveStaysLocal
<1>7. QED
  BY <1>1, <1>2, <1>3, <1>4, <1>5, <1>6 DEF Next, Finished

\* The router's reachable states satisfy the inductive invariant.
THEOREM Invariance == Spec => []IInv
<1>1. Init => IInv
  <2>1. <<>> \in Seq(Nat) /\ <<>> \in Seq(Decisions) /\ Len(<<>>) = 0
    BY EmptySeq
  <2>2. QED
    BY <2>1 DEF Init, IInv, TypeOK, Pending, AfterNoOp, SensitiveStaysLocal
<1>2. QED
  BY <1>1, StepKeeps, PTL DEF Spec

\* determine_route keeps a window with more sensitive hints than the threshold
\* away from the cloud, however the breaker stands.
THEOREM Privacy == Spec => []SensitiveStaysLocal
<1>1. IInv => SensitiveStaysLocal
  BY DEF IInv
<1>2. QED  BY <1>1, Invariance, PTL

\* An open breaker costs one window at most, as long as its threshold is not
\* zero: the no-op that an open breaker causes counts as a success.
THEOREM OneWindowAtMost ==
    ASSUME BreakerThreshold \in Nat \ {0}
    PROVE  Spec => []NoLockOut
<1>1. Init => NoLockOut
  BY EmptySeq DEF Init, NoLockOut
<1>2. ASSUME IInv, NoLockOut, pc # "filling", NEW route \in Routes,
             NEW asked \in Routes, NEW took \in Nat, Decide(route, asked, took),
             route = "FallbackNoOp" => errors # <<>>
      PROVE  NoLockOut'
  <2>1. TypeOK /\ Pending
    BY <1>2 DEF IInv
  <2>2. /\ Len(decided') = Len(decided) + 1
        /\ \A n \in 1..Len(decided) : decided'[n] = decided[n]
        /\ decided'[Len(decided')].route = route
    BY <1>2, <2>1, Decided
  <2>3. Len(decided) \in Nat
    BY <2>1, LenProperties DEF TypeOK
  <2>4. SUFFICES ASSUME NEW n \in 2..Len(decided'),
                        decided'[n].route = "FallbackNoOp"
                 PROVE  decided'[n - 1].route # "FallbackNoOp"
    BY DEF NoLockOut
  <2>5. n - 1 \in 1..Len(decided) /\ decided'[n - 1] = decided[n - 1]
    BY <2>2, <2>3, <2>4
  <2>6. CASE n = Len(decided) + 1
    BY <1>2, <2>2, <2>3, <2>4, <2>5, <2>6 DEF IInv, AfterNoOp
  <2>7. CASE n # Len(decided) + 1
    <3>1. n \in 2..Len(decided) /\ decided'[n] = decided[n]
      BY <2>2, <2>3, <2>4, <2>7
    <3>2. QED
      BY <1>2, <2>4, <2>5, <3>1 DEF NoLockOut
  <2>8. QED  BY <2>6, <2>7
<1>3. IInv /\ NoLockOut /\ [Next]_vars => NoLockOut'
  <2> SUFFICES ASSUME IInv, NoLockOut, [Next]_vars PROVE NoLockOut'
    OBVIOUS
  <2>1. CASE UNCHANGED decided
    BY <2>1 DEF NoLockOut
  <2>2. CASE DecideLocally
    <3>1. DetermineRoute \in Routes
      BY DEF DetermineRoute, CloudRouteOrFallback, Routes
    <3>2. DetermineRoute = "FallbackNoOp" => errors # <<>>
      BY ClosedBreaker
    <3>3. QED
      BY <1>2, <2>2, <3>1, <3>2 DEF DecideLocally
  <2>3. CASE CloudAnswers \/ CloudFails
    <3>1. PICK took \in CallTimes, route \in {"CloudLlm", "RuleBased"} :
            Decide(route, "CloudLlm", took)
      BY <2>3 DEF CloudAnswers, CloudFails
    <3>2. took \in Nat /\ pc # "filling"
      BY <2>3, RouterAssumption DEF CloudAnswers, CloudFails
    <3>3. QED
      BY <1>2, <3>1, <3>2 DEF Routes
  <2>4. QED
    BY <2>1, <2>2, <2>3 DEF Next, CloseWindow, CallCloud, Finished, vars
<1>4. QED
  BY <1>1, <1>3, Invariance, PTL DEF Spec
-----------------------------------------------------------------------------
(***************************************************************************)
(* The breaker's promise.  Both halves rest on one fact about CircuitState *)
(* that the code never states: its timestamps are the ends of the cloud    *)
(* calls that failed in a row up to now, oldest first.                     *)
(***************************************************************************)
Sorted == \A i, j \in 1..Len(errors) : i <= j => errors[i] <= errors[j]

ErrorRun ==
    LET start == Len(decided) - Len(errors) IN
    /\ start >= 0
    /\ start > 0 => ~CloudFailed(decided[start])
    /\ \A i \in 1..Len(errors) :
        /\ CloudFailed(decided[start + i])
        /\ decided[start + i].to = errors[i]
        /\ errors[i] <= now

\* A cloud call under way was let through by the breaker, and nothing the
\* breaker looks at has changed since.
CallAllowed == pc = "cloud" => CountRecentErrors < BreakerThreshold

\* A call of the cloud right after BreakerThreshold failures in a row comes only
\* when the first of them has left the breaker window.
CallsWait ==
    \A n \in DOMAIN decided :
        LET first == n - BreakerThreshold IN
        (/\ first >= 1
         /\ decided[n].asked = "CloudLlm"
         /\ \A i \in first..(n - 1) : CloudFailed(decided[i]))
            => decided[n].from > decided[first].to + BreakerWindow

\* The no-op is asked only for the route of the same name.
NoOpsRouted ==
    \A n \in DOMAIN decided :
        GivenUp(decided[n]) => decided[n].route = "FallbackNoOp"

BreakerInv ==
    /\ Sorted
    /\ ErrorRun
    /\ CallAllowed
    /\ CallsWait
    /\ NoOpsRouted
    /\ NoOpOnlyAfterFailures

\* Of timestamps in order the recent ones are the last ones: at least k errors
\* are recent exactly when the k-th from the end is.
LEMMA RecentAreLast ==
    ASSUME TypeOK, Sorted
    PROVE  /\ CountRecentErrors \in 0..Len(errors)
           /\ \A k \in 1..Len(errors) :
                CountRecentErrors >= k
                    <=> errors[Len(errors) + 1 - k] + BreakerWindow >= now
<1> DEFINE e == Len(errors)
           R == {i \in DOMAIN errors : errors[i] + BreakerWindow >= now}
<1>1. /\ e \in Nat /\ DOMAIN errors = 1..e
      /\ \A i \in 1..e : errors[i] \in Nat
      /\ now \in Nat /\ BreakerWindow \in Nat
  BY LenProperties, ElementOfSeq, RouterAssumption DEF TypeOK
<1>2. \A l \in Nat : IsFiniteSet((l + 1)..e)
                     /\ (l <= e => Cardinality((l + 1)..e) = e - l)
  <2> SUFFICES ASSUME NEW l \in Nat
               PROVE  /\ IsFiniteSet((l + 1)..e)
                      /\ (l <= e => Cardinality((l + 1)..e) = e - l)
    OBVIOUS
  <2>1. l + 1 \in Int /\ e \in Int  BY <1>1
  <2>2. IsFiniteSet((l + 1)..e)
        /\ Cardinality((l + 1)..e) = IF l + 1 > e THEN 0 ELSE e - (l + 1) + 1
    BY <2>1, FS_Interval
  <2>3. l <= e => (IF l + 1 > e THEN 0 ELSE e - (l + 1) + 1) = e - l
    <3>1. \A b \in Nat :
            l <= b => (IF l + 1 > b THEN 0 ELSE b - (l + 1) + 1) = b - l
      OBVIOUS
    <3>2. QED  BY <1>1, <3>1
  <2>4. QED  BY <2>2, <2>3
<1>3. IsFiniteSet(1..e) /\ Cardinality(1..e) = e
  <2>1. 1..e = (0 + 1)..e  OBVIOUS
  <2>2. 0 \in Nat /\ 0 <= e /\ e - 0 = e  BY <1>1
  <2>3. QED  BY <1>2, <2>1, <2>2
<1>4. /\ CountRecentErrors = Cardinality(R) /\ IsFiniteSet(R)
      /\ Cardinality(R) \in Nat /\ Cardinality(R) <= e
  <2>1. R \subseteq 1..e  BY <1>1
  <2>2. IsFiniteSet(R) /\ Cardinality(R) <= Cardinality(1..e)
    BY <1>3, <2>1, FS_Subset
  <2>3. Cardinality(R) \in Nat  BY <2>2, FS_CardinalityType
  <2>4. QED  BY <1>3, <2>2, <2>3 DEF CountRecentErrors
<1> HIDE DEF R, e
<1>5. ASSUME NEW k \in 1..e
      PROVE  Cardinality(R) >= k <=> errors[e + 1 - k] + BreakerWindow >= now
  <2> DEFINE j == e + 1 - k
  <2>1. j \in 1..e /\ k \in Nat  BY <1>1
  <2>2. ASSUME errors[j] + BreakerWindow >= now
        PROVE  Cardinality(R) >= k
    <3>1. \A i \in j..e : i \in 1..e /\ errors[i] >= errors[j]
      BY <1>1, <2>1 DEF Sorted, e
    <3>2. j..e \subseteq R
      BY <1>1, <2>1, <2>2, <3>1 DEF R
    <3>3. e - k \in Nat /\ e - k <= e /\ (e - k) + 1 = j /\ e - (e - k) = k
      BY <1>1
    <3>4. Cardinality(j..e) = k
      BY <1>2, <3>3
    <3>5. Cardinality(j..e) <= Cardinality(R)
      BY <1>4, <3>2, FS_Subset
    <3>6. QED  BY <1>4, <3>4, <3>5
  <2>3. ASSUME ~(errors[j] + BreakerWindow >= now)
        PROVE  ~(Cardinality(R) >= k)
    <3>1. \A i \in 1..j : i \in 1..e /\ errors[i] <= errors[j]
      BY <1>1, <2>1 DEF Sorted, e
    <3>2. \A i \in 1..j : ~(errors[i] + BreakerWindow >= now)
      BY <1>1, <2>1, <2>3, <3>1
    <3>3. R \subseteq (j + 1)..e
      BY <1>1, <2>1, <3>2 DEF R
    <3>4. j \in Nat /\ j <= e /\ e - j = k - 1
      BY <1>1, <2>1
    <3>5. IsFiniteSet((j + 1)..e) /\ Cardinality((j + 1)..e) = k - 1
      BY <1>2, <3>4
    <3>6. Cardinality(R) <= Cardinality((j + 1)..e)
      BY <3>3, <3>5, FS_Subset
    <3>7. QED  BY <1>4, <2>1, <3>5, <3>6
  <2>4. QED  BY <2>2, <2>3
<1>6. QED  BY <1>1, <1>4, <1>5 DEF e

\* An open breaker has seen its threshold of failures in a row, all recent; a
\* closed one has forgotten, or not seen, the failure that would open it.
LEMMA BreakerSees ==
    ASSUME TypeOK, Sorted, ErrorRun
    PROVE  LET n == Len(decided) + 1
               first == n - BreakerThreshold
           IN  /\ CountRecentErrors >= BreakerThreshold =>
                    /\ n > BreakerThreshold
                    /\ \A i \in first..(n - 1) :
                        /\ CloudFailed(decided[i])
                        /\ now <= decided[i].to + BreakerWindow
               /\ (/\ first >= 1
                   /\ CountRecentErrors < BreakerThreshold
                   /\ \A i \in first..(n - 1) : CloudFailed(decided[i]))
                    => now > decided[first].to + BreakerWindow
<1> DEFINE m == Len(decided)
           e == Len(errors)
           T == BreakerThreshold
<1>1. /\ m \in Nat /\ e \in Nat /\ T \in Nat /\ BreakerWindow \in Nat
      /\ now \in Nat
      /\ \A i \in 1..e : errors[i] \in Nat
  BY LenProperties, ElementOfSeq, RouterAssumption DEF TypeOK
<1>2. /\ CountRecentErrors \in 0..e
      /\ \A k \in 1..e : CountRecentErrors >= k
                            <=> errors[e + 1 - k] + BreakerWindow >= now
  BY RecentAreLast
<1>3. /\ m - e >= 0
      /\ m - e > 0 => ~CloudFailed(decided[m - e])
      /\ \A i \in 1..e : /\ CloudFailed(decided[(m - e) + i])
                         /\ decided[(m - e) + i].to = errors[i]
  BY DEF ErrorRun
<1>s. \A i, j \in 1..e : i <= j => errors[i] <= errors[j]
  BY DEF Sorted
<1> HIDE DEF m, e
<1>4. ASSUME CountRecentErrors >= T
      PROVE  /\ m + 1 > T
             /\ \A i \in ((m + 1) - T)..((m + 1) - 1) :
                    CloudFailed(decided[i]) /\ now <= decided[i].to + BreakerWindow
  <2>1. T <= e  BY <1>1, <1>2, <1>4
  <2>2. m + 1 > T  BY <1>1, <1>3, <2>1
  <2>3. ASSUME NEW i \in ((m + 1) - T)..((m + 1) - 1)
        PROVE  CloudFailed(decided[i]) /\ now <= decided[i].to + BreakerWindow
    <3> DEFINE k == i - (m - e)
    <3>1. /\ k \in 1..e /\ (m - e) + k = i
          /\ T \in 1..e /\ e + 1 - T \in 1..e /\ e + 1 - T <= k
      BY <1>1, <1>3, <2>1
    <3>2. CloudFailed(decided[i]) /\ decided[i].to = errors[k]
      BY <1>3, <3>1
    <3>3. errors[e + 1 - T] + BreakerWindow >= now
      BY <1>2, <1>4, <3>1
    <3>4. errors[e + 1 - T] <= errors[k]
      BY <1>s, <3>1
    <3>5. errors[e + 1 - T] \in Nat /\ errors[k] \in Nat
      BY <1>1, <3>1
    <3> HIDE DEF k
    <3>6. now <= errors[k] + BreakerWindow
      BY <1>1, <3>3, <3>4, <3>5
    <3>7. QED  BY <3>2, <3>6
  <2>4. QED  BY <2>2, <2>3
<1>5. ASSUME (m + 1) - T >= 1, CountRecentErrors < T,
             \A i \in ((m + 1) - T)..((m + 1) - 1) : CloudFailed(decided[i])
      PROVE  now > decided[(m + 1) - T].to + BreakerWindow
  <2>1. T <= e
    <3>1. SUFFICES ASSUME e < T PROVE FALSE
      BY <1>1
    <3>2. m - e > 0 /\ m - e \in ((m + 1) - T)..((m + 1) - 1)
      BY <1>1, <1>5, <3>1
    <3>3. QED  BY <1>3, <1>5, <3>2
  <2>2. T # 0  BY <1>1, <1>2, <1>5
  <2>3. T \in 1..e /\ e + 1 - T \in 1..e /\ (m - e) + (e + 1 - T) = (m + 1) - T
    BY <1>1, <2>1, <2>2
  <2>4. decided[(m + 1) - T].to = errors[e + 1 - T]
    BY <1>3, <2>3
  <2>5. ~(CountRecentErrors >= T)
    BY <1>1, <1>2, <1>5
  <2>6. ~(errors[e + 1 - T] + BreakerWindow >= now)
    BY <1>2, <2>3, <2>5
  <2>7. errors[e + 1 - T] \in Nat  BY <1>1, <2>3
  <2>8. errors[e + 1 - T] + BreakerWindow < now
    BY <1>1, <2>6, <2>7
  <2>9. QED  BY <1>1, <2>4, <2>7, <2>8
<1>6. QED  BY <1>4, <1>5 DEF m

\* A decision keeps the breaker's invariant when it leaves the errors of the
\* failures in a row, the new one included, and respects the breaker.
LEMMA DecideKeepsBreaker ==
    ASSUME IInv, BreakerInv, pc # "filling", NEW route \in Routes,
           NEW asked \in Routes, NEW took \in Nat, Decide(route, asked, took),
           \/ /\ asked = "CloudLlm" /\ route # "CloudLlm"
              /\ errors' = Append(errors, now + took)
           \/ ~(asked = "CloudLlm" /\ route # "CloudLlm") /\ errors' = <<>>,
           asked = "CloudLlm" => CountRecentErrors < BreakerThreshold,
           route = "FallbackNoOp" => CountRecentErrors >= BreakerThreshold,
           asked = "FallbackNoOp" => route = "FallbackNoOp"
    PROVE  BreakerInv'
<1> DEFINE m == Len(decided)
           e == Len(errors)
           T == BreakerThreshold
           d == decided'[m + 1]
<1>1. TypeOK /\ Pending /\ Sorted /\ ErrorRun /\ CallsWait /\ NoOpsRouted
      /\ NoOpOnlyAfterFailures
  BY DEF IInv, BreakerInv
<1>2. /\ m \in Nat /\ e \in Nat /\ T \in Nat /\ now \in Nat
      /\ DOMAIN decided = 1..m
      /\ \A i \in 1..e : errors[i] \in Nat
  BY <1>1, LenProperties, ElementOfSeq, RouterAssumption DEF TypeOK
<1>3. /\ decided' \in Seq(Decisions)
      /\ Len(decided') = m + 1
      /\ \A n \in 1..m : decided'[n] = decided[n]
      /\ d.route = route /\ d.asked = asked
      /\ d.from = now /\ d.to = now + took
      /\ now' = now + took /\ pc' = "filling"
  BY <1>1, Decided
<1>4. DOMAIN decided' = 1..(m + 1)
  BY <1>3, LenProperties
<1>5. /\ m - e >= 0
      /\ m - e > 0 => ~CloudFailed(decided[m - e])
      /\ \A i \in 1..e : /\ CloudFailed(decided[(m - e) + i])
                         /\ decided[(m - e) + i].to = errors[i]
                         /\ errors[i] <= now
  BY <1>1 DEF ErrorRun
<1>6. \A i, j \in 1..e : i <= j => errors[i] <= errors[j]
  BY <1>1 DEF Sorted
<1>7. /\ T <= CountRecentErrors =>
            /\ m + 1 > T
            /\ \A i \in ((m + 1) - T)..((m + 1) - 1) :
                    CloudFailed(decided[i]) /\ now <= decided[i].to + BreakerWindow
      /\ (/\ (m + 1) - T >= 1
          /\ CountRecentErrors < T
          /\ \A i \in ((m + 1) - T)..((m + 1) - 1) : CloudFailed(decided[i]))
            => now > decided[(m + 1) - T].to + BreakerWindow
  BY <1>1, <1>2, BreakerSees
<1>8. CloudFailed(d) <=> (asked = "CloudLlm" /\ route # "CloudLlm")
  BY <1>3 DEF CloudFailed
<1> HIDE DEF m, e, d
<1>9. Sorted' /\ ErrorRun'
  <2>1. CASE ~CloudFailed(d) /\ errors' = <<>>
    <3>1. Len(errors') = 0
      BY <2>1, EmptySeq
    <3>2. Len(decided') - Len(errors') = m + 1
      BY <1>2, <1>3, <3>1
    <3>3. ErrorRun'
      BY <1>2, <2>1, <3>1, <3>2 DEF ErrorRun, d
    <3>4. Sorted'
      BY <3>1 DEF Sorted
    <3>5. QED  BY <3>3, <3>4
  <2>2. CASE CloudFailed(d) /\ errors' = Append(errors, now + took)
    <3>1. /\ Len(errors') = e + 1
          /\ \A i \in 1..e : errors'[i] = errors[i]
          /\ errors'[e + 1] = now + took
      <4>1. errors \in Seq(Nat) /\ now + took \in Nat
        BY <1>1, <1>2 DEF TypeOK
      <4>2. QED  BY <2>2, <4>1, AppendProperties DEF e
    <3>2. Len(decided') - Len(errors') = m - e
      BY <1>2, <1>3, <3>1
    <3>3. \A i \in 1..(e + 1) : i \in 1..e \/ i = e + 1
      BY <1>2
    <3>4. \A i \in 1..e : (m - e) + i \in 1..m
      BY <1>2, <1>5
    <3>5. (m - e) + (e + 1) = m + 1
      BY <1>2
    <3>6. ASSUME NEW i \in 1..(e + 1)
          PROVE  /\ CloudFailed(decided'[(m - e) + i])
                 /\ decided'[(m - e) + i].to = errors'[i]
                 /\ errors'[i] <= now'
      <4>1. CASE i \in 1..e
        <5>1. decided'[(m - e) + i] = decided[(m - e) + i] /\ errors'[i] = errors[i]
          BY <1>3, <3>1, <3>4, <4>1
        <5>2. errors[i] <= now' /\ errors[i] \in Nat
          BY <1>2, <1>3, <1>5, <4>1
        <5>3. QED  BY <1>5, <4>1, <5>1, <5>2
      <4>2. CASE i = e + 1
        BY <1>2, <1>3, <2>2, <3>1, <3>5, <4>2 DEF d
      <4>3. QED  BY <3>3, <4>1, <4>2
    <3>7. m - e > 0 => ~CloudFailed(decided'[m - e])
      <4>1. m - e > 0 => m - e \in 1..m
        BY <1>2
      <4>2. QED  BY <1>3, <1>5, <4>1
    <3>8. ErrorRun'
      BY <1>5, <3>1, <3>2, <3>6, <3>7 DEF ErrorRun
    <3>9. ASSUME NEW i \in 1..(e + 1), NEW j \in 1..(e + 1), i <= j
          PROVE  errors'[i] <= errors'[j]
      <4>1. CASE j \in 1..e
        BY <1>2, <1>6, <3>1, <3>9, <4>1
      <4>2. CASE j = e + 1 /\ i \in 1..e
        <5>1. errors'[i] = errors[i] /\ errors'[j] = now + took
          BY <3>1, <4>2
        <5>2. errors[i] <= now /\ errors[i] \in Nat
          BY <1>2, <1>5, <4>2
        <5>3. \A x \in Nat : x <= now => x <= now + took
          BY <1>2
        <5>4. QED  BY <5>1, <5>2, <5>3
      <4>3. CASE j = e + 1 /\ i = e + 1
        BY <1>2, <3>1, <4>3
      <4>4. QED  BY <3>3, <4>1, <4>2, <4>3
    <3>10. QED  BY <3>1, <3>8, <3>9 DEF Sorted
  <2>3. QED  BY <1>8, <2>1, <2>2
<1>10. CallsWait'
  <2> SUFFICES ASSUME NEW n \in DOMAIN decided', n - T >= 1,
                      decided'[n].asked = "CloudLlm",
                      \A i \in (n - T)..(n - 1) : CloudFailed(decided'[i])
               PROVE  decided'[n].from > decided'[n - T].to + BreakerWindow
    BY DEF CallsWait
  <2>1. n \in 1..(m + 1)  BY <1>4
  <2>2. \A i \in (n - T)..(n - 1) : i \in 1..m /\ decided'[i] = decided[i]
    BY <1>2, <1>3, <2>1
  <2>3. \A i \in (n - T)..(n - 1) : CloudFailed(decided[i])
    BY <2>2
  <2>4. CASE n \in 1..m
    <3>1. decided'[n] = decided[n] /\ decided'[n - T] = decided[n - T]
      <4>1. n - T \in 1..m  BY <1>2, <2>4
      <4>2. QED  BY <1>3, <2>4, <4>1
    <3>2. QED  BY <1>1, <1>2, <2>3, <2>4, <3>1 DEF CallsWait
  <2>5. CASE n = m + 1
    <3>1. CountRecentErrors < T
      BY <1>3, <2>5 DEF d
    <3>2. T # 0
      BY <1>1, <1>2, <3>1, RecentAreLast DEF e
    <3>3. n - T \in 1..m /\ decided'[n - T] = decided[n - T]
      BY <1>2, <1>3, <2>5, <3>2
    <3>4. now > decided[n - T].to + BreakerWindow
      BY <1>7, <2>3, <2>5, <3>1
    <3>5. QED  BY <1>3, <2>5, <3>3, <3>4 DEF d
  <2>6. QED  BY <1>2, <2>1, <2>4, <2>5
<1>11. NoOpOnlyAfterFailures'
  <2> SUFFICES ASSUME NEW n \in DOMAIN decided',
                      decided'[n].route = "FallbackNoOp"
               PROVE  /\ n > T
                      /\ \A i \in (n - T)..(n - 1) :
                          /\ CloudFailed(decided'[i])
                          /\ decided'[n].from <= decided'[i].to + BreakerWindow
    BY DEF NoOpOnlyAfterFailures
  <2>1. n \in 1..(m + 1)  BY <1>4
  <2>2. CASE n \in 1..m
    <3>1. decided'[n] = decided[n]
      BY <1>3, <2>2
    <3>2. /\ n > T
          /\ \A i \in (n - T)..(n - 1) :
                /\ CloudFailed(decided[i])
                /\ decided[n].from <= decided[i].to + BreakerWindow
      BY <1>1, <1>2, <2>2, <3>1 DEF NoOpOnlyAfterFailures
    <3>3. \A i \in (n - T)..(n - 1) : i \in 1..m /\ decided'[i] = decided[i]
      BY <1>2, <1>3, <2>2, <3>2
    <3>4. QED  BY <3>1, <3>2, <3>3
  <2>3. CASE n = m + 1
    <3>1. T <= CountRecentErrors
      <4>1. CountRecentErrors >= T
        BY <1>3, <2>3 DEF d
      <4>2. CountRecentErrors \in Nat
        BY <1>1, RecentAreLast DEF e
      <4>3. QED  BY <1>2, <4>1, <4>2
    <3>2. /\ n > T
          /\ \A i \in (n - T)..(n - 1) :
                /\ CloudFailed(decided[i])
                /\ now <= decided[i].to + BreakerWindow
      BY <1>7, <2>3, <3>1
    <3>3. \A i \in (n - T)..(n - 1) : i \in 1..m /\ decided'[i] = decided[i]
      BY <1>2, <1>3, <2>3, <3>2
    <3>4. decided'[n].from = now
      BY <1>3, <2>3 DEF d
    <3>5. QED  BY <3>2, <3>3, <3>4
  <2>4. QED  BY <1>2, <2>1, <2>2, <2>3
<1>12. CallAllowed'
  BY <1>3 DEF CallAllowed
<1>13. NoOpsRouted'
  <2> SUFFICES ASSUME NEW n \in DOMAIN decided', GivenUp(decided'[n])
               PROVE  decided'[n].route = "FallbackNoOp"
    BY DEF NoOpsRouted
  <2>1. n \in 1..(m + 1)  BY <1>4
  <2>2. CASE n = m + 1
    BY <1>3, <2>2 DEF GivenUp, d
  <2>3. CASE n # m + 1
    <3>1. n \in 1..m /\ n \in DOMAIN decided
      BY <1>2, <2>1, <2>3
    <3>2. QED  BY <1>1, <1>3, <3>1 DEF NoOpsRouted
  <2>4. QED  BY <2>2, <2>3
<1>14. QED  BY <1>9, <1>10, <1>11, <1>12, <1>13 DEF BreakerInv

\* The errors the breaker keeps are the trailing run of failed calls, and the
\* decisions it allowed and gave up respect that run.
THEOREM BreakerInvariance == Spec => []BreakerInv
<1>1. Init => BreakerInv
  BY EmptySeq DEF Init, BreakerInv, Sorted, ErrorRun, CallAllowed, CallsWait,
                  NoOpsRouted, NoOpOnlyAfterFailures
<1>2. IInv /\ BreakerInv /\ [Next]_vars => BreakerInv'
  <2> SUFFICES ASSUME IInv, BreakerInv, [Next]_vars PROVE BreakerInv'
    OBVIOUS
  <2>0. TypeOK /\ Sorted /\ ErrorRun /\ CallAllowed /\ CallsWait
        /\ NoOpsRouted /\ NoOpOnlyAfterFailures
    BY DEF IInv, BreakerInv
  <2>1. CASE CloseWindow
    <3>1. /\ UNCHANGED <<errors, decided>> /\ pc' = "routing"
          /\ now' \in Nat /\ now <= now'
      BY <2>0, <2>1, RouterAssumption DEF CloseWindow, TypeOK
    <3>2. \A i \in 1..Len(errors) : errors[i] \in Nat
      BY <2>0, ElementOfSeq DEF TypeOK
    <3>3. ErrorRun'
      BY <2>0, <3>1, <3>2 DEF ErrorRun, TypeOK
    <3>4. Sorted' /\ CallAllowed' /\ CallsWait' /\ NoOpsRouted'
          /\ NoOpOnlyAfterFailures'
      BY <2>0, <3>1 DEF Sorted, CallAllowed, CallsWait, NoOpsRouted,
                        NoOpOnlyAfterFailures
    <3>5. QED  BY <3>3, <3>4 DEF BreakerInv
  <2>2. CASE DecideLocally
    <3>1. DetermineRoute \in Routes /\ DetermineRoute # "CloudLlm"
      BY <2>2 DEF DecideLocally, DetermineRoute, CloudRouteOrFallback, Routes
    <3>2. DetermineRoute = "FallbackNoOp" => CountRecentErrors >= BreakerThreshold
      BY DEF DetermineRoute, CloudRouteOrFallback
    <3>3. /\ pc # "filling" /\ errors' = <<>>
          /\ Decide(DetermineRoute, DetermineRoute, 0)
      BY <2>2 DEF DecideLocally
    <3>4. 0 \in Nat  OBVIOUS
    <3>5. QED  BY <3>1, <3>2, <3>3, <3>4, DecideKeepsBreaker
  <2>3. CASE CallCloud
    <3>1. CountRecentErrors \in Nat /\ BreakerThreshold \in Nat
      <4>1. Len(errors) \in Nat
        BY <2>0, LenProperties DEF TypeOK
      <4>2. QED  BY <2>0, <4>1, RecentAreLast, RouterAssumption
    <3>2. CountRecentErrors < BreakerThreshold
      BY <2>3, <3>1 DEF CallCloud, DetermineRoute
    <3>3. UNCHANGED <<now, errors, decided>>
      BY <2>3 DEF CallCloud
    <3>4. CallAllowed'
      BY <3>2, <3>3 DEF CallAllowed, CountRecentErrors
    <3>5. Sorted' /\ ErrorRun' /\ CallsWait' /\ NoOpsRouted'
          /\ NoOpOnlyAfterFailures'
      BY <2>0, <3>3 DEF Sorted, ErrorRun, CallsWait, NoOpsRouted,
                        NoOpOnlyAfterFailures
    <3>6. QED  BY <3>4, <3>5 DEF BreakerInv
  <2>4. CASE CloudAnswers
    <3>1. PICK took \in CallTimes : Decide("CloudLlm", "CloudLlm", took)
      BY <2>4 DEF CloudAnswers
    <3>2. /\ took \in Nat /\ pc = "cloud" /\ errors' = <<>>
          /\ CountRecentErrors < BreakerThreshold
      BY <2>0, <2>4, RouterAssumption DEF CloudAnswers, CallAllowed
    <3>3. QED  BY <3>1, <3>2, DecideKeepsBreaker DEF Routes
  <2>5. CASE CloudFails
    <3>1. PICK took \in CallTimes : /\ errors' = Append(errors, now + took)
                                    /\ Decide("RuleBased", "CloudLlm", took)
      BY <2>5 DEF CloudFails
    <3>2. took \in Nat /\ pc = "cloud" /\ CountRecentErrors < BreakerThreshold
      BY <2>0, <2>5, RouterAssumption DEF CloudFails, CallAllowed
    <3>3. QED  BY <3>1, <3>2, DecideKeepsBreaker DEF Routes
  <2>6. CASE UNCHANGED vars
    <3>1. UNCHANGED <<now, errors, pc, decided>>
      BY <2>6 DEF vars
    <3>2. CallAllowed'
      BY <2>0, <3>1 DEF CallAllowed, CountRecentErrors
    <3>3. Sorted' /\ ErrorRun' /\ CallsWait' /\ NoOpsRouted'
          /\ NoOpOnlyAfterFailures'
      BY <2>0, <3>1 DEF Sorted, ErrorRun, CallsWait, NoOpsRouted,
                        NoOpOnlyAfterFailures
    <3>4. QED  BY <3>2, <3>3 DEF BreakerInv
  <2>7. QED
    BY <2>1, <2>2, <2>3, <2>4, <2>5, <2>6 DEF Next, Finished
<1>3. QED  BY <1>1, <1>2, Invariance, PTL DEF Spec

\* The invariant makes exactly one of BreakerThreshold + 1 windows in a row of an
\* outage a no-op: with none the cloud would be called too early, with two the
\* second would lack its failures.
LEMMA OneInTheRun == TypeOK /\ BreakerInv => BreakerPaces
<1> SUFFICES ASSUME TypeOK, BreakerInv PROVE BreakerPaces
  OBVIOUS
<1> DEFINE T == BreakerThreshold
<1>1. CallsWait /\ NoOpsRouted /\ NoOpOnlyAfterFailures
  BY DEF BreakerInv
<1>2. /\ Len(decided) \in Nat /\ DOMAIN decided = 1..Len(decided)
      /\ \A i \in DOMAIN decided : decided[i].from \in Nat /\ decided[i].to \in Nat
      /\ T \in Nat /\ BreakerWindow \in Nat
  <2>1. decided \in Seq(Decisions)
    BY DEF TypeOK
  <2>2. /\ Len(decided) \in Nat /\ DOMAIN decided = 1..Len(decided)
        /\ \A i \in 1..Len(decided) : decided[i] \in Decisions
    BY <2>1, LenProperties, ElementOfSeq
  <2>3. \A x \in Decisions : x.from \in Nat /\ x.to \in Nat
    BY DEF Decisions
  <2>4. QED  BY <2>2, <2>3, RouterAssumption
<1> SUFFICES ASSUME NEW n \in DOMAIN decided, NEW last, last = n + BreakerThreshold,
                    last <= Len(decided),
                    \A i \in n..(last - 1) :
                        CloudFailed(decided[i]) \/ GivenUp(decided[i]),
                    decided[last].asked = "CloudLlm" \/ GivenUp(decided[last]),
                    decided[last].from <= decided[n].to + BreakerWindow
             PROVE  Cardinality({i \in n..last : GivenUp(decided[i])}) = 1
  BY Zenon DEF BreakerPaces
<1> DEFINE G == {i \in n..last : GivenUp(decided[i])}
<1>3. /\ n..last \subseteq DOMAIN decided /\ n \in Nat /\ n >= 1
      /\ last \in DOMAIN decided /\ last \in n..last
      /\ \A i \in (last - T)..(last - 1) : i \in n..(last - 1) /\ i \in n..last
      /\ last - T = n
  BY <1>2
<1>4. PICK g \in n..last : GivenUp(decided[g])
  <2>1. SUFFICES ASSUME \A g \in n..last : ~GivenUp(decided[g]) PROVE FALSE
    OBVIOUS
  <2>2. decided[last].asked = "CloudLlm"
    BY <1>3, <2>1
  <2>3. \A i \in (last - T)..(last - 1) : CloudFailed(decided[i])
    BY <1>3, <2>1
  <2>4. decided[last].from > decided[last - T].to + BreakerWindow
    BY <1>1, <1>3, <2>2, <2>3 DEF CallsWait
  <2>5. QED  BY <1>2, <1>3, <2>4
<1>5. ASSUME NEW a \in G, NEW b \in G, a < b PROVE FALSE
  <2>1. a \in DOMAIN decided /\ b \in DOMAIN decided
    BY <1>3
  <2>2. decided[b].route = "FallbackNoOp"
    BY <1>1, <2>1 DEF NoOpsRouted
  <2>3. \A i \in (b - T)..(b - 1) : CloudFailed(decided[i])
    BY <1>1, <2>1, <2>2 DEF NoOpOnlyAfterFailures
  <2>4. a \in (b - T)..(b - 1)
    BY <1>2, <1>3, <1>5
  <2>5. QED  BY <2>3, <2>4 DEF CloudFailed, GivenUp
<1>6. G = {g}
  <2>1. g \in G  BY <1>4
  <2>2. \A a \in G : a = g
    <3> SUFFICES ASSUME NEW a \in G, a # g PROVE FALSE
      OBVIOUS
    <3>1. a \in Int /\ g \in Int /\ (a < g \/ g < a)
      BY <1>2, <1>3
    <3> HIDE DEF G
    <3>2. QED  BY <1>5, <2>1, <3>1
  <2>3. QED  BY <2>1, <2>2
<1>7. QED  BY <1>6, FS_Singleton

\* While the cloud fails, exactly one of BreakerThreshold + 1 windows in a row that
\* fall within a breaker window is given up: determine_route opens the breaker
\* every time, and the no-op's success closes it for the very next window.
THEOREM OneGivenUpPerRun == Spec => []BreakerPaces
<1>1. IInv /\ BreakerInv => BreakerPaces
  BY OneInTheRun DEF IInv
<1>2. QED  BY <1>1, Invariance, BreakerInvariance, PTL

\* determine_route gives a window up only right after BreakerThreshold failures
\* in a row, all of them within the breaker window.
THEOREM NoOpIsEarned == Spec => []NoOpOnlyAfterFailures
<1>1. BreakerInv => NoOpOnlyAfterFailures
  BY DEF BreakerInv
<1>2. QED  BY <1>1, BreakerInvariance, PTL
=============================================================================
