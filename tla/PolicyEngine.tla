---------------------------- MODULE PolicyEngine ----------------------------
(***************************************************************************)
(* PolicyEngine: what it decides of one suggested action, and the schema   *)
(* test the lifecycle applies before it.                                   *)
(*                                                                         *)
(* An intent is [risk, confident, actions]; a suggested action is          *)
(* [type, target, urgency].  A target is a pair <<form, name>>: forms are  *)
(* the prefixes and literals the policy tells apart, and the name matters  *)
(* to it for "pkg:" and bare targets only, where it is a package.          *)
(* Confidence is kept as whether it reaches the floor.                     *)
(***************************************************************************)
EXTENDS Naturals, Sequences, FiniteSets

CONSTANTS
    MaxActions,     \* max_actions_per_batch (5)
    MaxAutoRisk,    \* max_auto_risk ("Low")
    Blocked         \* action types hit by blocked_actions

RiskRank(risk) == CASE risk = "Low" -> 0 [] risk = "Medium" -> 1 [] risk = "High" -> 2

ActionTypes ==
    {"PreWarmProcess", "PrefetchFile", "KeepAlive", "ReleaseMemory", "NoOp"}
Forms == {"none", "empty", "own", "notif", "work", "cache", "volatile", "url",
          "pkg", "bare"}
Urgencies == {"Immediate", "IdleTime", "Deferred"}
DenialReasons ==
    {"RiskExceedsConfig", "RiskExceedsCapability", "ConfidenceTooLow",
     "ActionTypeBlocked", "ActionUrgencyDeferred", "ActionCapabilityDenied",
     "TargetNotInContext", "BatchActionCapExceeded"}
Verdicts == DenialReasons \cup {"Approved"}
ASSUME PolicyAssumption ==
    /\ MaxActions \in Nat
    /\ MaxAutoRisk \in {"Low", "Medium", "High"}

-----------------------------------------------------------------------------
(***************************************************************************)
(* CapabilityLevel::for_route.                                             *)
(***************************************************************************)

MaxRisk(route) == IF route = "CloudLlm" THEN "Medium" ELSE "Low"

AllowedActions(route) ==
    CASE route = "RuleBased" -> {"NoOp", "ReleaseMemory", "KeepAlive"}
      [] route = "FallbackNoOp" -> {"NoOp"}
      [] OTHER -> ActionTypes

-----------------------------------------------------------------------------
(***************************************************************************)
(* PolicyEngine.                                                           *)
(***************************************************************************)

\* A package named by the target ("pkg:p" or the bare name) was seen.
InContext(target, known) == target[1] \in {"pkg", "bare"} /\ target[2] \in known

\* Defect variant: a prefixed package is taken on trust.
TargetAllowed_PkgTrusted(action, known) ==
    LET form == action.target[1] IN
    CASE action.type = "NoOp" -> TRUE
      [] action.type = "PreWarmProcess" ->
            form \in {"own", "notif", "pkg"} \/ InContext(action.target, known)
      [] action.type = "KeepAlive" ->
            form \in {"none", "work", "pkg"} \/ InContext(action.target, known)
      [] action.type = "ReleaseMemory" ->
            form \in {"none", "cache", "pkg"} \/ InContext(action.target, known)
      [] action.type = "PrefetchFile" ->
            form \in {"none", "url", "pkg"} \/ InContext(action.target, known)

\* check_target with is_allowed_prewarm_target and is_allowed_low_risk_target.
TargetAllowed(action, known) ==
    LET form == action.target[1] IN
    CASE action.type = "NoOp" -> TRUE
      [] action.type = "PreWarmProcess" ->
            form \in {"own", "notif"} \/ InContext(action.target, known)
      [] action.type = "KeepAlive" ->
            form \in {"none", "work"} \/ InContext(action.target, known)
      [] action.type = "ReleaseMemory" ->
            form \in {"none", "cache"} \/ InContext(action.target, known)
      [] action.type = "PrefetchFile" ->
            form \in {"none", "url"} \/ InContext(action.target, known)

\* The per-action filters after the cap, in the order they are applied.
FilterAction(action, route, known) ==
    IF action.type \in Blocked THEN "ActionTypeBlocked"
    ELSE IF action.urgency = "Deferred" THEN "ActionUrgencyDeferred"
    ELSE IF action.type \notin AllowedActions(route) THEN "ActionCapabilityDenied"
    ELSE IF ~TargetAllowed(action, known) THEN "TargetNotInContext"
    ELSE "Approved"

\* approved_count after the first n actions of the intent.
ApprovedCount(intent, route, known) ==
    LET count[n \in 0..Len(intent.actions)] ==
            IF n = 0 THEN 0
            ELSE IF /\ count[n - 1] < MaxActions
                    /\ FilterAction(intent.actions[n], route, known) = "Approved"
                 THEN count[n - 1] + 1
                 ELSE count[n - 1]
    IN  count

\* Defect variant: > instead of >= in the test against the cap.
EvaluateAction_CapOffByOne(intent, n, route, known) ==
    IF RiskRank(intent.risk) > RiskRank(MaxRisk(route)) THEN "RiskExceedsCapability"
    ELSE IF RiskRank(intent.risk) > RiskRank(MaxAutoRisk) THEN "RiskExceedsConfig"
    ELSE IF ~intent.confident THEN "ConfidenceTooLow"
    ELSE IF ApprovedCount(intent, route, known)[n - 1] > MaxActions
         THEN "BatchActionCapExceeded"
    ELSE FilterAction(intent.actions[n], route, known)

\* evaluate_intent: the verdict on the n-th action of an intent.
EvaluateAction(intent, n, route, known) ==
    IF RiskRank(intent.risk) > RiskRank(MaxRisk(route)) THEN "RiskExceedsCapability"
    ELSE IF RiskRank(intent.risk) > RiskRank(MaxAutoRisk) THEN "RiskExceedsConfig"
    ELSE IF ~intent.confident THEN "ConfidenceTooLow"
    ELSE IF ApprovedCount(intent, route, known)[n - 1] >= MaxActions
         THEN "BatchActionCapExceeded"
    ELSE FilterAction(intent.actions[n], route, known)

\* validate_schema; only NoOp is PureRead.
SchemaValid(intent, action) ==
    /\ action.type = "PreWarmProcess" => action.target[1] \notin {"none", "empty"}
    /\ ~(action.type = "NoOp" /\ intent.risk = "High")

DenialToTerminal(reason) ==
    IF reason \in {"RiskExceedsCapability", "ActionCapabilityDenied"}
    THEN "DeniedByCapability" ELSE "DeniedByPolicy"
=============================================================================
