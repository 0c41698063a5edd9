---------------------------- MODULE DecisionRules ----------------------------
(***************************************************************************)
(* What the router makes of a closed window, and what policy makes of the  *)
(* intents it gets: the functions the daemon (DecisionFlow) and the replay *)
(* of a trace (TraceReplay) share.                                         *)
(***************************************************************************)
EXTENDS LocalBackends, PolicyEngine

CONSTANT PrivacyThreshold   \* privacy_score_threshold (3)

ASSUME RulesAssumption == PrivacyThreshold \in Nat

ConfidenceFloor == 30    \* min_confidence (0.30)

Notifications(c) == EventsOf(c, "Notification")
SensitiveHints == {"VerificationCode", "FinancialContext"}

\* compute_privacy_score: sensitive hints, repeated ones included.
PrivacyScore(c) ==
    LET hints(i) == c.events[i].hints
        sensitive(i) == Cardinality({k \in DOMAIN hints(i) : hints(i)[k] \in SensitiveHints})
    IN  MapThenSumSet(sensitive, {i \in DOMAIN c.events : c.events[i].type = "Notification"})

\* has_local_actionable_signal.
LocalActionable(c) ==
    \/ EventsOf(c, "FileActivity") # {}
    \/ ForegroundsOf(c) # <<>>
    \/ \E e \in Notifications(c) : ToSet(e.hints) \cap AttachmentHints # {}

\* count_unique_semantic_hint_types.
UniqueHints(c) == Cardinality(UNION {ToSet(e.hints) : e \in Notifications(c)})

\* determine_route, for a breaker that has tripped or not.
RouteOf(c, cloud, tripped) ==
    IF tripped THEN "FallbackNoOp"
    ELSE IF PrivacyScore(c) > PrivacyThreshold THEN "RuleBased"
    ELSE IF LocalActionable(c) THEN "LocalEvaluator"
    ELSE IF UniqueHints(c) <= 1 THEN "RuleBased"
    ELSE IF cloud = "Ready" THEN "CloudLlm" ELSE "LocalEvaluator"

\* The actions of a batch, by intent_ordinal and action_ordinal.
CoordsOf(intents) == UNION {{<<i, n>> : n \in DOMAIN intents[i].actions} : i \in DOMAIN intents}

\* The intent as the policy engine looks at it.
Judged(intent) ==
    [risk |-> intent.risk, confident |-> intent.confidence >= ConfidenceFloor,
     actions |-> intent.actions]

\* evaluate_batch_with_context for the n-th action of the i-th intent.
Evaluate(context, route, intents, coord) ==
    EvaluateAction(Judged(intents[coord[1]]), coord[2], route, KnownTargets(context))

\* The lifecycle looks at the schema first.
Settle(context, route, intents, coord) ==
    LET intent == Judged(intents[coord[1]]) IN
    IF ~SchemaValid(intent, intent.actions[coord[2]]) THEN "InvalidSchema"
    ELSE Evaluate(context, route, intents, coord)

Terminal(reason, fails) ==
    IF reason = "InvalidSchema" THEN "RejectedInvalidSchema"
    ELSE IF reason # "Approved" THEN DenialToTerminal(reason)
    ELSE IF fails THEN "Failed" ELSE "Succeeded"
=============================================================================
