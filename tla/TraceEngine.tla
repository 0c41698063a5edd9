----------------------------- MODULE TraceEngine -----------------------------
(***************************************************************************)
(* DefaultTraceEngine: what the pipeline does with the raw events of a     *)
(* golden trace, compared layer by layer with what the trace expects.      *)
(*                                                                         *)
(* A golden trace is [raws, tiers, sanitized, batch, executed], a batch is *)
(* [model, intents], an executed action is [type, target, at, success,     *)
(* error].  Divergences are sets: the code's vectors are in the order of   *)
(* the indices.                                                            *)
(***************************************************************************)
EXTENDS DecisionRules

\* sanitized_eq: all but the event's id and time.
SanitizedEq(a, b) == [a EXCEPT !.at = 0] = [b EXCEPT !.at = 0]

\* executed_eq: all but the time.
ExecutedEq(a, b) == [a EXCEPT !.at = 0] = [b EXCEPT !.at = 0]

\* Defect variant: zip, and nothing about the rest of the longer vector.
Unpaired_Ignored(expected, actual) == {}

\* The indices only one of the two vectors has.
Unpaired(expected, actual) ==
    (DOMAIN expected \ DOMAIN actual) \cup (DOMAIN actual \ DOMAIN expected)

\* Events without a tier of their own are taken for PublicApi.
SanitizationDivergences(golden) ==
    LET tier(i) == IF i \in DOMAIN golden.tiers THEN golden.tiers[i] ELSE "PublicApi"
        actual == [i \in DOMAIN golden.raws |->
                    SanitizeWithTier([raw |-> golden.raws[i], tier |-> tier(i)])]
        expected == golden.sanitized
    IN  {i \in DOMAIN expected \cap DOMAIN actual : ~SanitizedEq(expected[i], actual[i])}
        \cup Unpaired(expected, actual)

ExecutionDivergences(expected, actual) ==
    {i \in DOMAIN expected \cap DOMAIN actual : ~ExecutedEq(expected[i], actual[i])}
    \cup Unpaired(expected, actual)

\* intent_diff: the first field that differs, or "none".
IntentDiff(e, a) ==
    IF <<e.type, e.subject>> # <<a.type, a.subject>> THEN "intent_type"
    ELSE IF e.risk # a.risk THEN "risk_level"
    ELSE IF e.confidence # a.confidence THEN "confidence"
    ELSE IF Len(e.actions) # Len(a.actions) THEN "suggested_actions count"
    ELSE IF e.actions # a.actions THEN "suggested_actions"
    ELSE "none"

\* intent_divergences; the two about the whole batch carry index 0.
IntentDivergences(expected, actual) ==
    {<<0, "model">> : m \in {expected.model} \ {actual.model}}
    \cup {<<0, "count">> : n \in {Len(expected.intents)} \ {Len(actual.intents)}}
    \cup {<<i, IntentDiff(expected.intents[i], actual.intents[i])>> :
            i \in {i \in DOMAIN expected.intents \cap DOMAIN actual.intents :
                    IntentDiff(expected.intents[i], actual.intents[i]) # "none"}}

Report(sanitization, policy, execution) ==
    [sanitization |-> sanitization, policy |-> policy, execution |-> execution]

\* TraceValidator::validate.
Validate(golden, batch, executed) ==
    Report(SanitizationDivergences(golden),
           IntentDivergences(golden.batch, batch),
           ExecutionDivergences(golden.executed, executed))

\* all_match, for a validation of all three layers.
AllMatch(report) == report = Report({}, {}, {})
=============================================================================
