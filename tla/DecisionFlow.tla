---------------------------- MODULE DecisionFlow ----------------------------
(***************************************************************************)
(* One window after another from the ingress to the feedback: events are   *)
(* sanitized, a window becomes a context, a backend turns context and      *)
(* memory into intents, policy and adapter settle their actions, and the   *)
(* outcomes come back as the memory of the next windows.                   *)
(*                                                                         *)
(* Composes PrivacyAirGap, LocalBackends, CloudBackend and DecisionRules.  *)
(* The breaker's clock (DecisionRouter), the audit (ActionGovernance), the *)
(* predictor (NextApp) and the rest of the memory (ModelMemory) are in     *)
(* modules of their own; here the breaker may be open whenever there is a  *)
(* cloud, and the predictor comes to one of the constant Predictions.      *)
(***************************************************************************)
EXTENDS CloudBackend, DecisionRules

CONSTANTS
    Envs,               \* environments the daemon may be started in
    Envelopes,          \* what the apps' collectors may hand over
    InternalEvents,     \* raw events of the daemon's own collectors
    Replies,            \* replies of the cloud endpoint
    Predictions,        \* rankings of the predictive backend; {} without a model
    RecentLimit,        \* recent_limit of the memory (5)
    Histories,          \* recent feedback a memory file may hold at the start
    MaxEvents           \* bounds on the events of the first, second, ... window

\* The packages a raw event names.
RawPackages(raw) ==
    CASE raw.kind \in {"AppTransition", "NotificationPosted", "NotificationInteraction"} ->
            {raw.package}
      [] raw.kind = "ProcStateChange" -> raw.package
      [] OTHER -> {}

\* What the intents of the evaluator may be about.
RawEvents == {envelope.raw : envelope \in Envelopes} \cup InternalEvents
Subjects ==
    {"", "inter_app_interaction"} \cup DOMAIN FallbackUrl
        \cup (UNION {RawPackages(raw) : raw \in RawEvents})

IsRanking(ranking) ==
    /\ ranking \in Seq({ranking[i] : i \in DOMAIN ranking})
    /\ \A i \in DOMAIN ranking : ranking[i].score \in Int

ASSUME FlowAssumption ==
    /\ RecentLimit \in Nat \ {0}
    /\ MaxEvents \in Seq(Nat)
    /\ \A raw \in RawEvents : IsRawEvent(raw)
    /\ NameOrder \in Seq(ToSet(NameOrder)) /\ Subjects \subseteq ToSet(NameOrder)
    /\ \A ranking \in Predictions : IsRanking(ranking)

VARIABLES
    phase,      \* "collect", "decide", "govern", "observe", "failed"
    cloud,      \* CloudBackendState of the router
    ingested,   \* the raw events behind the open window
    events,     \* buffer of the WindowAggregator
    context,    \* the closed window: a set with at most one context
    result,     \* the decision: a set with at most one [route, intents, failed]
    records,    \* the settled actions: [coord, key, terminal, reason]
    memory,     \* [recent, foreground, notifying]
    windows     \* windows observed

vars == <<phase, cloud, ingested, events, context, result, records, memory, windows>>

\* run(): a summarizer that cannot be configured ends the daemon, a cloud
\* backend that cannot be configured does not.
Init ==
    /\ \E env \in Envs :
        /\ cloud = CloudState(env)
        /\ phase = IF SummarizerState(env) = "Error" THEN "failed" ELSE "collect"
    /\ ingested = <<>>
    /\ events = <<>>
    /\ context = {}
    /\ result = {}
    /\ records = {}
    /\ \E history \in Histories :
        memory = [recent |-> history, foreground |-> {}, notifying |-> {}]
    /\ windows = 0

-----------------------------------------------------------------------------
\* The event passes the air-gap and is pushed into the window.
Push(event) ==
    /\ phase = "collect"
    /\ windows < Len(MaxEvents)
    /\ Len(events) < MaxEvents[windows + 1]
    /\ ingested' = Append(ingested, event)
    /\ events' = Append(events, SanitizeWithTier(event))
    /\ UNCHANGED <<phase, cloud, context, result, records, memory, windows>>

IngestEnvelope == \E envelope \in Envelopes : \E event \in Accept(envelope) : Push(event)

IngestInternal == \E raw \in InternalEvents : Push(AcceptInternal(raw))

\* The deadline passes over a window that is not empty.
CloseWindow ==
    /\ phase = "collect"
    /\ events # <<>>
    /\ context' = {StructuredContext(events)}
    /\ phase' = "decide"
    /\ UNCHANGED <<cloud, ingested, events, result, records, memory, windows>>

-----------------------------------------------------------------------------
Decided(route, intents, failed) ==
    /\ result' = {[route |-> route, intents |-> intents, failed |-> failed]}
    /\ phase' = "govern"
    /\ UNCHANGED <<cloud, ingested, events, context, records, memory, windows>>

\* The breaker counts errors of the cloud backend alone.
MayTrip == IF cloud = "Ready" THEN BOOLEAN ELSE {FALSE}
TheContext == Some(context)
ModelInput == [context |-> TheContext, feedback |-> memory.recent,
               profile |-> [foreground |-> memory.foreground,
                            notifying |-> memory.notifying]]

DecideLocally ==
    /\ phase = "decide"
    /\ \E tripped \in MayTrip :
        LET route == RouteOf(TheContext, cloud, tripped) IN
        \/ route = "FallbackNoOp" /\ Decided(route, FallbackNoOp, FALSE)
        \/ route = "RuleBased" /\ Decided(route, GenerateIntents(TheContext), FALSE)
        \/ /\ route = "LocalEvaluator"
           /\ Predictions = {}
           /\ Decided(route, EvaluateIntents(ModelInput), FALSE)
        \/ /\ route = "LocalEvaluator"
           /\ \E ranking \in Predictions :
                Decided(route, MergeResults(EvaluateIntents(ModelInput),
                                PredictedIntents(ranking, KnownTargets(TheContext))), FALSE)

\* A reply that cannot be used is replaced by the rules' intents.
AskCloud ==
    /\ phase = "decide"
    /\ RouteOf(TheContext, cloud, FALSE) = "CloudLlm"
    /\ \E reply \in Replies :
        \/ \E intents \in RequestIntents(reply) : Decided("CloudLlm", intents, FALSE)
        \/ /\ RequestIntents(reply) = {}
           /\ Decided("RuleBased", GenerateIntents(TheContext), TRUE)

-----------------------------------------------------------------------------
(***************************************************************************)
(* Policy, adapter and memory.                                             *)
(***************************************************************************)

Decision == Some(result)
VerdictOn(coord) == Settle(TheContext, Decision.route, Decision.intents, coord)

\* evaluate_batch_with_context and run: every action is settled, and the
\* adapter fails on any of the approved ones.
Govern ==
    /\ phase = "govern"
    /\ LET coords == CoordsOf(Decision.intents)
           action(c) == Decision.intents[c[1]].actions[c[2]]
       IN  \E fails \in SUBSET {c \in coords : VerdictOn(c) = "Approved"} :
            records' = {[coord |-> c, key |-> FeedbackKey(action(c)),
                         reason |-> VerdictOn(c),
                         terminal |-> Terminal(VerdictOn(c), c \in fails)] : c \in coords}
    /\ phase' = "observe"
    /\ UNCHANGED <<cloud, ingested, events, context, result, memory, windows>>

KeepLast(s, n) == IF Len(s) > n THEN SubSeq(s, Len(s) - n + 1, Len(s)) ELSE s

\* observe_window.  A package leaves the momentum scores only after dozens of
\* windows, and the profile's limit of 8 is beyond the packages here.
Observe ==
    /\ phase = "observe"
    /\ memory' = [recent |-> KeepLast(Append(memory.recent,
                        {[key |-> r.key, terminal |-> r.terminal] : r \in records}),
                                      RecentLimit),
                  foreground |-> memory.foreground \cup ToSet(TheContext.summary.foreground),
                  notifying |-> memory.notifying \cup ToSet(TheContext.summary.notified)]
    /\ windows' = windows + 1
    /\ phase' = "collect"
    /\ ingested' = <<>>
    /\ events' = <<>>
    /\ context' = {}
    /\ result' = {}
    /\ records' = {}
    /\ UNCHANGED cloud

Next ==
    \/ IngestEnvelope \/ IngestInternal \/ CloseWindow
    \/ DecideLocally \/ AskCloud
    \/ Govern \/ Observe

Spec == Init /\ [][Next]_vars

-----------------------------------------------------------------------------
(***************************************************************************)
(* Properties.                                                             *)
(***************************************************************************)

\* The same raw event with other private content.
Altered(raw) ==
    CASE raw.kind = "NotificationPosted" ->
            [raw EXCEPT !.title.wording = "other", !.text.wording = "other",
                        !.group = {"other"}]
      [] raw.kind = "NotificationInteraction" -> [raw EXCEPT !.key = "other"]
      [] raw.kind = "FileSystemAccess" -> [raw EXCEPT !.path.name = "other"]
      [] raw.kind = "BinderTransaction" -> [raw EXCEPT !.payload = "other"]
      [] OTHER -> raw

\* Nothing behind the air-gap depends on what a notification says beyond its
\* hints, on its group and key, on a file's name or on a parcel: windows that
\* differ in these alone give the same context (privacy_airgap.rs).
AirGapSeals ==
    /\ events = [i \in DOMAIN ingested |->
                    SanitizeWithTier([ingested[i] EXCEPT !.raw = Altered(@)])]
    /\ \A c \in context : c = StructuredContext(events)

LocalRoutes == {"RuleBased", "LocalEvaluator", "FallbackNoOp"}

\* What the local backends suggest is within their capability, their risk and
\* the window, as the comments in rule_based.rs and local_evaluator.rs claim:
\* the policy denies none of it except for a low confidence.
LocalApproved ==
    phase = "observe" /\ Decision.route \in LocalRoutes =>
        \A r \in records : r.reason \in {"Approved", "ConfidenceTooLow"}

\* No device penalty applies to the window, seen from the raw events.
Unconstrained ==
    \A i \in DOMAIN ingested :
        LET raw == ingested[i].raw IN
        /\ raw.kind = "SystemState" =>
                /\ raw.network \notin {"Cellular", "Offline"}
                /\ \A pct \in raw.battery : pct >= 20
        /\ raw.kind = "ScreenState" => raw.state = "Interactive"

\* A rejection lowers the confidence of the same action in later windows,
\* which may bring further rejections; but whatever the recent feedback holds,
\* a window without device penalties gets all its local actions approved.
NoSpiral ==
    phase = "observe" /\ Decision.route \in LocalRoutes /\ Unconstrained =>
        \A r \in records : r.reason = "Approved"

\* finalize_candidates by its result: at most five intents, ordered, one for
\* each type and subject, and no admissible candidate is better than what
\* stands for it, or than all of a full batch when nothing does.
EvaluatorRanked ==
    phase = "decide" /\ RouteOf(TheContext, cloud, FALSE) = "LocalEvaluator" =>
        LET batch == EvaluateIntents(ModelInput)
            signals == WindowSignals(TheContext)
            candidates == Admissible(Candidates(ModelInput, signals), signals)
            same(c, d) == c.type = d.type /\ c.subject = d.subject
        IN  /\ Len(batch) \in 1..MaxIntentsPerWindow
            /\ \A i, j \in DOMAIN batch : i < j =>
                    batch[i].confidence >= batch[j].confidence /\ ~same(batch[i], batch[j])
            /\ \A c \in candidates :
                    \/ \E i \in DOMAIN batch :
                            same(batch[i], c) /\ batch[i].confidence >= c.confidence
                    \/ /\ Len(batch) = MaxIntentsPerWindow
                       /\ \A i \in DOMAIN batch : batch[i].confidence >= c.confidence

\* Whatever a backend or a cloud reply suggests, an action that reaches the
\* adapter for a package is about a package that a raw event of this very
\* window named: the context neither loses nor invents one on the way from
\* the ingress to KnownTargets, and no other is executed upon.
ApprovedGrounded ==
    /\ \A c \in context :
        KnownTargets(c) = UNION {RawPackages(ingested[i].raw) : i \in DOMAIN ingested}
    /\ \A r \in records :
        r.reason = "Approved" /\ r.key[2][1] \in {"pkg", "bare"} /\ r.key[1] # "NoOp" =>
            \E i \in DOMAIN ingested : r.key[2][2] \in RawPackages(ingested[i].raw)

\* The translation resolves the prefetch targets a model may write, packages
\* included, to what the policy accepts: none is denied for its target.
PrefetchResolved ==
    \A r \in records :
        Decision.route = "CloudLlm" /\ r.key[1] = "PrefetchFile" =>
            r.reason # "TargetNotInContext"

\* Intent::confidence is documented as a number from 0.0 to 1.0.
ConfidenceInRange ==
    \A d \in result : \A i \in DOMAIN d.intents : d.intents[i].confidence \in 0..100
=============================================================================
