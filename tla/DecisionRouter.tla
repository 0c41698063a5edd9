--------------------------- MODULE DecisionRouter ---------------------------
(***************************************************************************)
(* DecisionRouter: which backend decides a window, and the circuit breaker *)
(* that takes the cloud backend out of use after repeated errors.          *)
(*                                                                         *)
(* A context is reduced to what the router reads of it: [score] counts the *)
(* VerificationCode and FinancialContext hints of its notifications,       *)
(* [transitions] its app transitions, [actionable] tells whether some      *)
(* event is a low-risk local signal, [hints] counts distinct hints.  Time  *)
(* passes while windows fill and while the cloud backend is called; the    *)
(* local backends are deterministic, instantaneous and never fail.         *)
(***************************************************************************)
EXTENDS Naturals, Sequences, FiniteSets

CONSTANTS
    Contexts,           \* contexts a window may have
    Cloud,              \* "ready" or "absent": whether cloud_llm is there
    PrivacyThreshold,   \* privacy_score_threshold
    BreakerThreshold,   \* circuit_breaker_threshold
    BreakerWindow,      \* circuit_breaker_window_secs
    Gaps,               \* time from the end of a decision to the next window
    CallTimes,          \* how long a cloud call may take
    MaxWindows          \* bound on the windows decided

ASSUME RouterAssumption ==
    /\ Contexts \subseteq [score : Nat, transitions : Nat,
                           actionable : {"yes", "no"}, hints : Nat]
    /\ Cloud \in {"ready", "absent"}
    /\ PrivacyThreshold \in Nat
    /\ BreakerThreshold \in Nat
    /\ BreakerWindow \in Nat
    /\ Gaps \subseteq Nat
    /\ CallTimes \subseteq Nat
    /\ MaxWindows \in Nat

VARIABLES
    now,      \* Instant::now()
    errors,   \* CircuitState.errors: timestamps
    pc,       \* "filling" a window, "routing" it, in a "cloud" call
    context,  \* the window being decided
    decided   \* history of the decisions: [context, route, asked, from, to]

vars == <<now, errors, pc, context, decided>>

\* DecisionRoute, without the Mock of tests and offline runs, and what is kept of
\* each decision: the backend asked, the route of the result, start and end.
Routes == {"RuleBased", "LocalEvaluator", "CloudLlm", "FallbackNoOp"}
Decisions ==
    [context : Contexts, route : Routes, asked : Routes, from : Nat, to : Nat]

NoContext == [score |-> 0, transitions |-> 0, actionable |-> "no", hints |-> 0]

Init ==
    /\ now = 0
    /\ errors = <<>>
    /\ pc = "filling"
    /\ context = NoContext
    /\ decided = <<>>

\* Defect variant: errors are counted whatever their age.
CountRecentErrors_All == Len(errors)

\* count_recent_errors, with an inclusive cutoff.  On the Unix targets an
\* Instant may lie before the boot, so the cutoff always exists.
CountRecentErrors ==
    Cardinality({i \in DOMAIN errors : errors[i] + BreakerWindow >= now})

\* cloud_route_or_fallback.
CloudRouteOrFallback == IF Cloud = "ready" THEN "CloudLlm" ELSE "LocalEvaluator"

\* Defect variants: > instead of >= in the breaker's test; the privacy gate
\* comes after the test for complexity.
DetermineRoute_TripsLate ==
    IF CountRecentErrors > BreakerThreshold THEN "FallbackNoOp"
    ELSE IF context.score > PrivacyThreshold THEN "RuleBased"
    ELSE IF context.actionable = "yes" THEN "LocalEvaluator"
    ELSE IF context.hints <= 1 THEN "RuleBased"
    ELSE CloudRouteOrFallback

DetermineRoute_PrivacyLast ==
    IF CountRecentErrors >= BreakerThreshold THEN "FallbackNoOp"
    ELSE IF context.actionable = "yes" THEN "LocalEvaluator"
    ELSE IF context.hints > 1 THEN CloudRouteOrFallback
    ELSE "RuleBased"

\* determine_route.
DetermineRoute ==
    IF CountRecentErrors >= BreakerThreshold THEN "FallbackNoOp"
    ELSE IF context.score > PrivacyThreshold THEN "RuleBased"
    ELSE IF context.actionable = "yes" THEN "LocalEvaluator"
    ELSE IF context.hints <= 1 THEN "RuleBased"
    ELSE CloudRouteOrFallback

-----------------------------------------------------------------------------
\* A window fills and closes.
CloseWindow ==
    /\ pc = "filling"
    /\ Len(decided) < MaxWindows
    /\ \E c \in Contexts, gap \in Gaps : context' = c /\ now' = now + gap
    /\ pc' = "routing"
    /\ UNCHANGED <<errors, decided>>

\* The decision of the route in "route", for the backend that was "asked".
Decide(route, asked, took) ==
    /\ decided' = Append(decided, [context |-> context, route |-> route,
                                   asked |-> asked, from |-> now, to |-> now + took])
    /\ now' = now + took
    /\ pc' = "filling"
    /\ UNCHANGED context

\* Defect variant: the error the no-op result carries for the audit is taken
\* for a failure of the backend.
DecideLocally_FallbackFails ==
    /\ pc = "routing"
    /\ DetermineRoute # "CloudLlm"
    /\ errors' = IF DetermineRoute = "FallbackNoOp" THEN Append(errors, now) ELSE <<>>
    /\ Decide(DetermineRoute, DetermineRoute, 0)

\* A local backend or the no-op answers: a success, which clears the errors.
DecideLocally ==
    /\ pc = "routing"
    /\ DetermineRoute # "CloudLlm"
    /\ errors' = <<>>
    /\ Decide(DetermineRoute, DetermineRoute, 0)

CallCloud ==
    /\ pc = "routing"
    /\ DetermineRoute = "CloudLlm"
    /\ pc' = "cloud"
    /\ UNCHANGED <<now, errors, context, decided>>

CloudAnswers ==
    /\ pc = "cloud"
    /\ errors' = <<>>
    /\ \E took \in CallTimes : Decide("CloudLlm", "CloudLlm", took)

\* The request, its status, its JSON or its intents are in error: the window
\* is decided by the rules, and the error is recorded when the call is over.
CloudFails ==
    /\ pc = "cloud"
    /\ \E took \in CallTimes :
        /\ errors' = Append(errors, now + took)
        /\ Decide("RuleBased", "CloudLlm", took)

\* The bound on windows is reached.
Finished == pc = "filling" /\ Len(decided) = MaxWindows /\ UNCHANGED vars

Next ==
    CloseWindow \/ DecideLocally \/ CallCloud \/ CloudAnswers \/ CloudFails
        \/ Finished

Spec == Init /\ [][Next]_vars

-----------------------------------------------------------------------------
(***************************************************************************)
(* Properties.                                                             *)
(***************************************************************************)

\* Types; what is decided is a context some window had, never the empty one
\* the router starts with.
TypeOK ==
    /\ now \in Nat
    /\ errors \in Seq(Nat)
    /\ pc \in {"filling", "routing", "cloud"}
    /\ context \in Contexts \cup {NoContext}
    /\ decided \in Seq(Decisions)

CloudFailed(d) == d.asked = "CloudLlm" /\ d.route # "CloudLlm"
GivenUp(d) == d.asked = "FallbackNoOp"

\* The pace of an outage: while every cloud call fails and no window comes late,
\* exactly one of BreakerThreshold + 1 windows in a row is given up.  The no-op is
\* a success and clears the errors, so the next window calls the cloud again,
\* inside BreakerWindow: the breaker spares it that one window and no more.
BreakerPaces ==
    \A n \in DOMAIN decided :
        LET last == n + BreakerThreshold IN
        (/\ last <= Len(decided)
         /\ \A i \in n..(last - 1) : CloudFailed(decided[i]) \/ GivenUp(decided[i])
         /\ decided[last].asked = "CloudLlm" \/ GivenUp(decided[last])
         /\ decided[last].from <= decided[n].to + BreakerWindow)
            => Cardinality({i \in n..last : GivenUp(decided[i])}) = 1

\* An open breaker costs one window at most: two windows in a row are never
\* given up, whatever error the no-op carries for the audit.
NoLockOut ==
    \A n \in 2..Len(decided) :
        decided[n].route = "FallbackNoOp" => decided[n - 1].route # "FallbackNoOp"

\* A window with more sensitive hints than the threshold is never sent to the
\* cloud, and never decided by the local evaluator either.
SensitiveStaysLocal ==
    \A n \in DOMAIN decided :
        decided[n].context.score > PrivacyThreshold
            => decided[n].asked \in {"RuleBased", "FallbackNoOp"}

\* A window is given up only after BreakerThreshold failures in a row.
NoOpOnlyAfterFailures ==
    \A n \in DOMAIN decided :
        decided[n].route = "FallbackNoOp" =>
            /\ n > BreakerThreshold
            /\ \A i \in (n - BreakerThreshold)..(n - 1) :
                /\ CloudFailed(decided[i])
                /\ decided[n].from <= decided[i].to + BreakerWindow

\* RFC 0001: the breaker opens after N timeouts in a row, so the cloud is not
\* called after BreakerThreshold failures in a row.
FailuresTrip ==
    \A n \in DOMAIN decided :
        (/\ n > BreakerThreshold
         /\ \A i \in (n - BreakerThreshold)..(n - 1) : CloudFailed(decided[i]))
            => decided[n].asked # "CloudLlm"

=============================================================================
