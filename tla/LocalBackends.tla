---------------------------- MODULE LocalBackends ----------------------------
(***************************************************************************)
(* The decision backends that need no network: RuleBasedBackend,           *)
(* LocalEvaluatorBackend with its prefetch targets, FallbackNoOpBackend,   *)
(* and the composite that joins the evaluator with the predictive backend. *)
(*                                                                         *)
(* An intent is [type, subject, confidence, risk, actions], where the      *)
(* subject is the package, extension category or context it is about.      *)
(* Confidences are the f32 values of the code in hundredths.  Actions and  *)
(* targets are those of PolicyEngine.  Rationale tags are left out.        *)
(***************************************************************************)
EXTENDS PrivacyAirGap, FiniteSetsExt

CONSTANTS
    PackageNames,   \* the packages that look like one: a dot, plain characters
    SiteOf,         \* what known_package_url makes of a package: its site or "none"
    NameOrder       \* subjects in the order of their strings

NoTarget == <<"none", "">>
Action(type, target, urgency) == [type |-> type, target |-> target, urgency |-> urgency]
NoOp == Action("NoOp", NoTarget, "IdleTime")

\* Defect variant: the target has lost its prefix.
Heartbeat_Unprefixed(urgency) ==
    Action("KeepAlive", <<"bare", "collector_heartbeat">>, urgency)

Heartbeat(urgency) == Action("KeepAlive", <<"work", "collector_heartbeat">>, urgency)
TrimCache == Action("ReleaseMemory", <<"cache", "prefetch">>, "Immediate")

Intent(type, subject, confidence, actions) ==
    [type |-> type, subject |-> subject, confidence |-> confidence, risk |-> "Low",
     actions |-> actions]

-----------------------------------------------------------------------------
(***************************************************************************)
(* FallbackNoOpBackend and RuleBasedBackend.                               *)
(***************************************************************************)

FallbackNoOp == <<Intent("Idle", "", 100, <<NoOp>>)>>

PressureRssMb == 1024
PressureSwapMb == 128

\* Defect variant: a missing reading counts as an empty battery.
LowBattery_MissingIsZero(battery) == battery = {} \/ \E pct \in battery : pct < 20

LowBattery(battery) == \E pct \in battery : pct < 20

EventsOf(context, type) == {e \in ToSet(context.events) : e.type = type}
IsForeground(e) == e.type = "AppTransition" /\ e.transition = "Foreground"
ForegroundsOf(context) == SelectSeq(context.events, IsForeground)

\* The first app that came to the foreground.
FirstForeground(context) ==
    LET shown == {i \in DOMAIN context.events : IsForeground(context.events[i])}
    IN  UNION {context.events[i].package : i \in {i \in shown : \A j \in shown : i <= j}}

IsHeavy(e) ==
    /\ e.type = "ProcessResource"
    /\ e.rssMb >= PressureRssMb \/ e.swapMb >= PressureSwapMb

\* The heaviest process over a threshold; of equals the first is kept.
MemoryPressure(context) ==
    LET events == context.events
        heavy == {i \in DOMAIN events : IsHeavy(events[i])}
        worst == {i \in heavy : \A j \in heavy :
                    \/ events[i].rssMb > events[j].rssMb
                    \/ events[i].rssMb = events[j].rssMb /\ i <= j}
    IN  {events[i] : i \in worst}

\* The heaviest process is trimmed, or all of them if it has no package.
TrimProcess(e) ==
    Action("ReleaseMemory", IF e.package = {} THEN NoTarget ELSE <<"bare", Some(e.package)>>,
           "Immediate")
Keep(type, package, confidence, urgency) ==
    Intent(type, package, confidence,
           <<Action("KeepAlive", <<"bare", package>>, urgency)>>)
Fires(test, intent) == IF test THEN <<intent>> ELSE <<>>

\* generate_intents: one intent for each rule that fires, in this order.  A
\* notification that mentions a file has put its app among the notified ones.
GenerateIntents(context) ==
    LET notified == context.summary.notified
        mention == \E e \in EventsOf(context, "Notification") : Contains(e.hints, "FileMention")
        foreground == FirstForeground(context)
        pressure == MemoryPressure(context)
        intents ==
            Fires(notified # <<>>,
                  Keep("OpenApp", Head(notified), IF mention THEN 70 ELSE 55,
                       IF mention THEN "Immediate" ELSE "IdleTime"))
            \o Fires(foreground # {}, Keep("SwitchToApp", Some(foreground), 80, "Immediate"))
            \o Fires(\E e \in EventsOf(context, "Screen") : e.state = "Interactive",
                     Intent("Idle", "", 60, <<Heartbeat("IdleTime")>>))
            \o Fires(\E e \in EventsOf(context, "SystemStatus") : LowBattery(e.battery),
                     Intent("Idle", "", 80, <<TrimCache>>))
            \o Fires(pressure # {}, Intent("Idle", "", 65, <<TrimProcess(Some(pressure))>>))
    IN  IF intents = <<>> THEN <<Intent("Idle", "", 50, <<NoOp>>)>> ELSE intents

-----------------------------------------------------------------------------
(***************************************************************************)
(* prefetch_target.rs.                                                     *)
(***************************************************************************)

LooksLikePackageName(name) == name \in PackageNames

\* known_package_url: two of the sites depend on the category.
KnownPackageUrl(site, category) ==
    CASE site = "lark" /\ category = "Document" -> "lark/docx"
      [] site = "drive" /\ category \in {"Image", "Video"} -> "photos"
      [] OTHER -> site

FallbackUrl ==
    [Document |-> "dummy.pdf", Image |-> "png", Video |-> "mov_bbb.mp4",
     Audio |-> "horse.mp3", Archive |-> "main.zip", Code |-> "README.md",
     Other |-> "json", Unknown |-> "json"]

\* default_prefetch_target, for an optional package.
DefaultPrefetchTarget(category, package) ==
    LET sites == {SiteOf[p] : p \in package} \ {"none"} IN
    <<"url", IF sites = {} THEN FallbackUrl[category]
             ELSE KnownPackageUrl(Some(sites), category)>>

-----------------------------------------------------------------------------
(***************************************************************************)
(* LocalEvaluatorBackend: what it knows of the window.                     *)
(***************************************************************************)

MaxIntentsPerWindow == 5
StrongCorrelationMs == 10000

\* WindowSignals::from_context.  The latest status of the summary is one of
\* the events, so that the disjunction over the events covers it.
WindowSignals(context) ==
    LET statuses == EventsOf(context, "SystemStatus")
        charging == \E s \in statuses : s.charging
    IN  [draining |-> ~charging /\ \E s \in statuses : LowBattery(s.battery),
         cellular |-> \E s \in statuses : s.network = "Cellular",
         offline |-> \E s \in statuses : s.network = "Offline",
         screenOff |-> \E e \in EventsOf(context, "Screen") : e.state # "Interactive"]

\* package_counts; a process is not counted.
PackageCount(context, package) ==
    Cardinality({i \in DOMAIN context.events :
        LET e == context.events[i] IN
        /\ package \in e.package
        /\ e.type # "ProcessResource"
        /\ e.type = "AppTransition" => e.transition = "Foreground"})

\* notification_timestamps and file_timestamps of a package.
TimesOf(context, type, package) ==
    {e.at : e \in {e \in EventsOf(context, type) : package \in e.package}}

\* recent_foreground_app: the latest by its own timestamp, of equals the last.
RecentForeground(context) ==
    LET fg == ForegroundsOf(context) IN
    UNION {fg[i].package : i \in
        {i \in DOMAIN fg : \A j \in DOMAIN fg :
            fg[j].at < fg[i].at \/ (fg[j].at = fg[i].at /\ j <= i)}}

\* The key under which an action is found in the recent feedback.
FeedbackKey(action) == <<action.type, action.target>>

\* recent_policy_rejections and recent_execution_failures, from feedback that
\* is a sequence of windows, each a set of outcomes [key, terminal].  A schema
\* error is an error too, and so counts twice.
RejectedKeys(feedback) ==
    {o.key : o \in {o \in UNION ToSet(feedback) :
        o.terminal \in {"RejectedInvalidSchema", "DeniedByCapability",
                        "DeniedByPolicy"}}}
FailedKeys(feedback) ==
    {o.key : o \in {o \in UNION ToSet(feedback) :
        o.terminal \in {"Failed", "RejectedInvalidSchema"}}}

-----------------------------------------------------------------------------
(***************************************************************************)
(* LocalEvaluatorBackend: scores.  A model input is                        *)
(* [context, profile, feedback].                                           *)
(***************************************************************************)

When(test, points) == IF test THEN points ELSE 0
Capped(points, cap) == IF points > cap THEN cap ELSE points

\* apply_package_boost with the recent-foreground boost, under the caps of
\* the groups "package" and "behavior".
PackageBoost(input, package, recent) ==
    Capped(When(PackageCount(input.context, package) >= 2, 4) + When(recent, 3), 8)
    + Capped(When(package \in input.profile.foreground, 3)
             + When(package \in input.profile.notifying, 3), 5)

\* The correlation boosts: the nearest other timestamp within the window.
CorrelationBoost(times, at) ==
    IF times = {} THEN 0
    ELSE IF \E t \in times : t - at \in -StrongCorrelationMs..StrongCorrelationMs
         THEN 6 ELSE 3

Clamp(x, low, high) == IF x < low THEN low ELSE IF x > high THEN high ELSE x

\* apply_window.
ApplyWindow(points, signals, visible) ==
    Clamp(points - When(signals.draining, 18) - When(signals.cellular, 6)
          - When(signals.offline, 20) - When(signals.screenOff /\ visible, 12), 0, 99)

\* apply_action_feedback, applied to the clamped score.
FeedbackPenalty(input, actions) ==
    LET hits(keys) == Cardinality({i \in DOMAIN actions :
                                    FeedbackKey(actions[i]) \in keys})
    IN  12 * hits(RejectedKeys(input.feedback)) + 8 * hits(FailedKeys(input.feedback))

Candidate(input, type, subject, points, actions) ==
    Intent(type, subject, points - FeedbackPenalty(input, actions), actions)

\* Behind the air-gap a file event has no package and is never hot, so that
\* its boosts do not come up in a window of the daemon.
FileCandidate(input, signals, e) ==
    LET p == Some(e.package)
        points == When(e.hot, 86) + When(~e.hot, 72)
            + (IF e.package = {} THEN 0
               ELSE PackageBoost(input, p, FALSE)
                    + CorrelationBoost(TimesOf(input.context, "Notification", p), e.at))
    IN  Candidate(input, "HandleFile", e.category, ApplyWindow(points, signals, FALSE),
                  <<Action("PrefetchFile",
                           DefaultPrefetchTarget(e.category, e.package), "IdleTime")>>)

AttachmentHints == {"FileMention", "ImageMention", "LinkAttachment"}

NotificationCandidate(input, signals, e) ==
    LET p == Some(e.package)
        points == When(e.ongoing, 66) + When(~e.ongoing, 74)
            + When(Contains(input.context.summary.foreground, p), 8)
            + When(Contains(e.hints, "LinkAttachment"), 3)
            + PackageBoost(input, p, FALSE)
            + CorrelationBoost(TimesOf(input.context, "FileActivity", p), e.at)
    IN  Candidate(input, "OpenApp", p, ApplyWindow(points, signals, TRUE),
                  <<Action("PreWarmProcess", <<"pkg", p>>, "Immediate")>>)

ForegroundCandidate(input, signals, e) ==
    LET p == Some(e.package)
        points == 78 + 4 + PackageBoost(input, p, p \in RecentForeground(input.context))
    IN  Candidate(input, "SwitchToApp", p, ApplyWindow(points, signals, TRUE),
                  <<Action("PreWarmProcess", <<"pkg", p>>, "Immediate"),
                    Heartbeat("Immediate")>>)

InterAppCandidate(input, signals) ==
    Candidate(input, "EnterContext", "inter_app_interaction",
              ApplyWindow(80, signals, FALSE),
              <<Action("PreWarmProcess", <<"own", "resources">>, "Immediate")>>)

\* The arms of the match on the event type.
CandidatesOf(input, signals, e) ==
    CASE e.type = "FileActivity" -> {FileCandidate(input, signals, e)}
      [] e.type = "Notification" /\ ToSet(e.hints) \cap AttachmentHints # {} ->
            {NotificationCandidate(input, signals, e)}
      [] e.type = "AppTransition" /\ e.transition = "Foreground" ->
            {ForegroundCandidate(input, signals, e)}
      [] e.type = "InterAppInteraction"
            /\ e.interaction \in {"ActivityLaunch", "ShareIntent"} ->
            {InterAppCandidate(input, signals)}
      [] OTHER -> {}

\* Their order plays no role: of candidates of one key and one confidence the
\* code keeps the first, and they are the same.
Candidates(input, signals) ==
    (UNION {CandidatesOf(input, signals, e) : e \in ToSet(input.context.events)})
    \cup (IF signals.draining THEN {Candidate(input, "Idle", "", 84, <<TrimCache>>)} ELSE {})

-----------------------------------------------------------------------------
(***************************************************************************)
(* LocalEvaluatorBackend: finalize_candidates.                             *)
(***************************************************************************)

\* is_policy_aware_action.
PolicyAware(action, signals) ==
    LET form == action.target[1] IN
    CASE action.type = "PrefetchFile" ->
            ~signals.draining /\ ~signals.offline /\ form = "url"
      [] action.type = "PreWarmProcess" ->
            /\ signals.screenOff => form \notin {"pkg", "notif"}
            /\ \/ form \in {"own", "notif"}
               \/ form = "pkg" /\ LooksLikePackageName(action.target[2])
      [] action.type = "KeepAlive" -> form \in {"none", "work"}
      [] action.type = "ReleaseMemory" -> form \in {"none", "cache"}
      [] action.type = "NoOp" -> form = "none"

\* candidate_key, and the order of its strings: intent keys begin with the
\* name of the type and go on with the subject.
CandidateKey(c) == <<c.type, c.subject, [i \in DOMAIN c.actions |-> FeedbackKey(c.actions[i])]>>
TypeOrder == <<"EnterContext", "HandleFile", "Idle", "CheckNotification", "OpenApp",
               "SwitchToApp">>
Rank(order, x) == CHOOSE i \in DOMAIN order : order[i] = x
KeyBefore(c, d) ==
    \/ Rank(TypeOrder, c.type) < Rank(TypeOrder, d.type)
    \/ c.type = d.type /\ Rank(NameOrder, c.subject) < Rank(NameOrder, d.subject)
RankedBefore(c, d) ==
    c.confidence > d.confidence \/ (c.confidence = d.confidence /\ KeyBefore(c, d))

\* The actions that are policy-aware, in their order.
Retained(actions, signals) ==
    LET kept[n \in 0..Len(actions)] ==
            IF n = 0 THEN <<>>
            ELSE IF PolicyAware(actions[n], signals) THEN Append(kept[n - 1], actions[n])
            ELSE kept[n - 1]
    IN  kept[Len(actions)]

\* The candidates that keep an action, each with the actions it keeps.
Admissible(candidates, signals) ==
    {c \in {[c EXCEPT !.actions = Retained(@, signals)] : c \in candidates} :
        c.actions # <<>>}

\* Defect variant: the test for the replacement the wrong way round.
Deduped_KeepsWorst(candidates) ==
    {c \in candidates : \A d \in candidates :
        CandidateKey(d) = CandidateKey(c) => c.confidence <= d.confidence}

\* For each key the candidate of the highest confidence.
Deduped(candidates) ==
    {c \in candidates : \A d \in candidates :
        CandidateKey(d) = CandidateKey(c) => c.confidence >= d.confidence}

\* The first n of a set of candidates in their order.
Place(c, candidates) == Cardinality({d \in candidates : RankedBefore(d, c)}) + 1
BestOf(candidates, n) ==
    [k \in 1..Capped(Cardinality(candidates), n) |->
        CHOOSE c \in candidates : Place(c, candidates) = k]

FinalizeCandidates(candidates, signals) ==
    BestOf(Deduped(Admissible(candidates, signals)), MaxIntentsPerWindow)

\* evaluate_intents.
EvaluateIntents(input) ==
    LET signals == WindowSignals(input.context)
        intents == FinalizeCandidates(Candidates(input, signals), signals)
    IN  IF intents = <<>> THEN <<Intent("Idle", "", 60, <<NoOp>>)>> ELSE intents

-----------------------------------------------------------------------------
(***************************************************************************)
(* CompositeLocalEvaluatorBackend::merge_results.                          *)
(***************************************************************************)

IsIdleNoOp(intent) ==
    intent.type = "Idle" /\ \A a \in ToSet(intent.actions) : a.type = "NoOp"

\* take_idle_noop takes the first one out.
FirstIdle(intents) ==
    {i \in DOMAIN intents :
        IsIdleNoOp(intents[i]) /\ \A j \in 1..(i - 1) : ~IsIdleNoOp(intents[j])}
WithoutIdle(intents) ==
    IF FirstIdle(intents) = {} THEN intents ELSE RemoveAt(intents, Some(FirstIdle(intents)))
IdleOf(intents) == {intents[i] : i \in FirstIdle(intents)}

MergeResults(heuristic, predictive) ==
    LET intents == WithoutIdle(heuristic) \o WithoutIdle(predictive)
    IN  IF intents = <<>> /\ IdleOf(heuristic) \cup IdleOf(predictive) # {}
        THEN <<UnwrapOr(IdleOf(heuristic), Some(IdleOf(predictive)))>>
        ELSE intents

-----------------------------------------------------------------------------
(***************************************************************************)
(* PredictiveLocalBackend: what it makes of a ranking of next apps, a      *)
(* sequence of [app, score].                                               *)
(***************************************************************************)

PolicyConfidenceFloor == 30

\* Defect variant: the score is passed on as the confidence.
PredictionToIntent_RawScore(prediction, known) ==
    IF prediction.app \in known
    THEN Intent("SwitchToApp", prediction.app, prediction.score,
                <<Action("PreWarmProcess", <<"pkg", prediction.app>>, "Immediate")>>)
    ELSE Intent("OpenApp", prediction.app, prediction.score, <<Heartbeat("Immediate")>>)

\* prediction_to_intent; known_packages is what KnownTargets is made of.
PredictionToIntent(prediction, known) ==
    LET confidence == Clamp(prediction.score, PolicyConfidenceFloor, 99)
    IN  IF prediction.app \in known
        THEN Intent("SwitchToApp", prediction.app, confidence,
                    <<Action("PreWarmProcess", <<"pkg", prediction.app>>, "Immediate")>>)
        ELSE Intent("OpenApp", prediction.app, confidence, <<Heartbeat("Immediate")>>)

\* evaluate_model_input from the ranking on.
PredictedIntents(ranking, known) ==
    IF ranking = <<>> THEN <<Intent("Idle", "", 50, <<NoOp>>)>>
    ELSE [i \in DOMAIN ranking |-> PredictionToIntent(ranking[i], known)]
=============================================================================
