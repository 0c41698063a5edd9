------------------------- MODULE DecisionFlowProofs -------------------------
(***************************************************************************)
(* Proofs about DecisionFlow, for all raw events, windows, replies and     *)
(* predictions: the privacy air-gap; the prefetch targets of a cloud       *)
(* reply; the packages of approved actions; the order of the evaluator's   *)
(* batch; the local backends against the policy.                           *)
(***************************************************************************)
EXTENDS DecisionFlow, WellFoundedInduction, SequenceTheorems, FiniteSetTheorems, TLAPS

-----------------------------------------------------------------------------
(***************************************************************************)
(* sanitize, kind by kind: what it makes of an event does not depend on    *)
(* the parts of it that are private.                                       *)
(***************************************************************************)

LEMMA NotificationSealed ==
    ASSUME NEW e, IsRawEvent(e), e.kind = "NotificationPosted"
    PROVE  Sanitize(Altered(e)) = Sanitize(e)
<1> DEFINE a == Altered(e)
<1>1. DOMAIN e = {"kind", "at", "package", "title", "text", "titleHint",
                  "textHint", "hints", "ongoing", "group"}
  BY DEF IsRawEvent, RawFields
<1>2. a = [e EXCEPT !.title.wording = "other", !.text.wording = "other",
                    !.group = {"other"}]
  BY DEF Altered
<1> HIDE DEF a
<1>3. /\ a.kind = e.kind /\ a.at = e.at /\ a.package = e.package
      /\ a.titleHint = e.titleHint /\ a.textHint = e.textHint
      /\ a.hints = e.hints /\ a.ongoing = e.ongoing
  BY <1>1, <1>2
<1>4. /\ a.title = [e.title EXCEPT !.wording = "other"]
      /\ a.text = [e.text EXCEPT !.wording = "other"]
  BY <1>1, <1>2
<1>5. /\ a.title.chars = e.title.chars /\ a.title.topics = e.title.topics
      /\ a.title.edge = e.title.edge
  BY <1>4 DEF IsRawEvent, IsText
<1>6. /\ a.text.chars = e.text.chars /\ a.text.topics = e.text.topics
      /\ a.text.edge = e.text.edge
  BY <1>4 DEF IsRawEvent, IsText
<1>7. AnalyzeText(a.title) = AnalyzeText(e.title) /\ AnalyzeText(a.text) = AnalyzeText(e.text)
  BY <1>5, <1>6 DEF AnalyzeText
<1>8. ExtractSemanticHints(a.title, a.text) = ExtractSemanticHints(e.title, e.text)
  BY <1>5, <1>6 DEF ExtractSemanticHints
<1>9. SanitizeNotification(a) = SanitizeNotification(e)
  BY <1>3, <1>7, <1>8 DEF SanitizeNotification, Notification
<1>10. Sanitize(a) = SanitizeNotification(a) /\ Sanitize(e) = SanitizeNotification(e)
  BY <1>3 DEF Sanitize
<1>11. QED  BY <1>9, <1>10 DEF a

LEMMA InteractionSealed ==
    ASSUME NEW e, IsRawEvent(e), e.kind = "NotificationInteraction"
    PROVE  Sanitize(Altered(e)) = Sanitize(e)
<1> DEFINE a == Altered(e)
<1>1. DOMAIN e = {"kind", "at", "package", "key"}
  BY DEF IsRawEvent, RawFields
<1>2. a = [e EXCEPT !.key = "other"]
  BY DEF Altered
<1> HIDE DEF a
<1>3. a.kind = e.kind /\ a.at = e.at /\ a.package = e.package
  BY <1>1, <1>2
<1>4. Sanitize(a) = SanitizeInteraction(a) /\ Sanitize(e) = SanitizeInteraction(e)
  BY <1>3 DEF Sanitize
<1>5. QED  BY <1>3, <1>4 DEF SanitizeInteraction, Notification, a

LEMMA FileSealed ==
    ASSUME NEW e, IsRawEvent(e), e.kind = "FileSystemAccess"
    PROVE  Sanitize(Altered(e)) = Sanitize(e)
<1> DEFINE a == Altered(e)
<1>1. DOMAIN e = {"kind", "at", "access", "path"} /\ DOMAIN e.path = {"name", "extension"}
  BY DEF IsRawEvent, RawFields
<1>2. a = [e EXCEPT !.path.name = "other"]
  BY DEF Altered
<1> HIDE DEF a
<1>3. /\ a.kind = e.kind /\ a.at = e.at /\ a.access = e.access
      /\ a.path = [e.path EXCEPT !.name = "other"]
  BY <1>1, <1>2
<1>4. a.path.extension = e.path.extension
  BY <1>1, <1>3
<1>5. ClassifyExtension(a.path) = ClassifyExtension(e.path)
  BY <1>4 DEF ClassifyExtension
<1>6. Sanitize(a) = SanitizeFs(a) /\ Sanitize(e) = SanitizeFs(e)
  BY <1>3 DEF Sanitize
<1>7. QED  BY <1>3, <1>5, <1>6 DEF SanitizeFs, a

LEMMA BinderSealed ==
    ASSUME NEW e, IsRawEvent(e), e.kind = "BinderTransaction"
    PROVE  Sanitize(Altered(e)) = Sanitize(e)
<1> DEFINE a == Altered(e)
<1>1. DOMAIN e = {"kind", "at", "service", "method", "payload"}
  BY DEF IsRawEvent, RawFields
<1>2. a = [e EXCEPT !.payload = "other"]
  BY DEF Altered
<1> HIDE DEF a
<1>3. a.kind = e.kind /\ a.at = e.at /\ a.service = e.service /\ a.method = e.method
  BY <1>1, <1>2
<1>4. Sanitize(a) = SanitizeBinder(a) /\ Sanitize(e) = SanitizeBinder(e)
  BY <1>3 DEF Sanitize
<1>5. QED  BY <1>3, <1>4 DEF SanitizeBinder, a

\* sanitize does not tell an event from the same event with other private content.
LEMMA Sealed ==
    ASSUME NEW e, IsRawEvent(e)
    PROVE  Sanitize(Altered(e)) = Sanitize(e)
<1>1. CASE e.kind \in {"NotificationPosted", "NotificationInteraction",
                       "FileSystemAccess", "BinderTransaction"}
  BY <1>1, NotificationSealed, InteractionSealed, FileSealed, BinderSealed
<1>2. CASE e.kind \notin {"NotificationPosted", "NotificationInteraction",
                          "FileSystemAccess", "BinderTransaction"}
  BY <1>2 DEF Altered
<1>3. QED  BY <1>1, <1>2

-----------------------------------------------------------------------------
(***************************************************************************)
(* The windows.                                                            *)
(***************************************************************************)

\* What the ingress may hand over.
Ingestible ==
    [raw : RawEvents,
     tier : {envelope.tier : envelope \in Envelopes} \cup {"Daemon"}]
Sanitized == {SanitizeWithTier(event) : event \in Ingestible}

\* A closed window is the window that was open, and was sanitized event by event.
FlowInv ==
    /\ ingested \in Seq(Ingestible)
    /\ events \in Seq(Sanitized) /\ Len(events) = Len(ingested)
    /\ \A i \in 1..Len(ingested) : events[i] = SanitizeWithTier(ingested[i])
    /\ phase = "collect" => context = {}
    /\ \A c \in context : c = StructuredContext(events)

\* The ingress passes raw events on, under the tier of their source.
LEMMA IngestibleShape ==
    ASSUME NEW event \in Ingestible
    PROVE  /\ IsRawEvent(event.raw)
           /\ event = [raw |-> event.raw, tier |-> event.tier]
<1>1. event.raw \in RawEvents
  BY DEF Ingestible
<1>2. IsRawEvent(event.raw)
  BY <1>1, FlowAssumption
<1>3. event = [raw |-> event.raw, tier |-> event.tier]
  BY DEF Ingestible
<1>4. QED  BY <1>2, <1>3

LEMMA PushKeeps ==
    ASSUME FlowInv, NEW event \in Ingestible, Push(event)
    PROVE  FlowInv'
<1> DEFINE e == SanitizeWithTier(event)
           n == Len(ingested)
<1>1. /\ phase = "collect" /\ phase' = phase /\ context' = context /\ context = {}
      /\ ingested' = Append(ingested, event) /\ events' = Append(events, e)
  BY DEF Push, FlowInv
<1>2. /\ ingested \in Seq(Ingestible) /\ events \in Seq(Sanitized) /\ Len(events) = n
      /\ n \in Nat /\ e \in Sanitized
      /\ \A i \in 1..n : events[i] = SanitizeWithTier(ingested[i])
  BY LenProperties DEF FlowInv, Sanitized
<1> HIDE DEF e
<1>3. /\ ingested' \in Seq(Ingestible) /\ Len(ingested') = n + 1
      /\ \A i \in 1..n : ingested'[i] = ingested[i]
      /\ ingested'[n + 1] = event
  BY <1>1, <1>2, AppendProperties
<1>4. /\ events' \in Seq(Sanitized) /\ Len(events') = n + 1
      /\ \A i \in 1..n : events'[i] = events[i]
      /\ events'[n + 1] = e
  BY <1>1, <1>2, AppendProperties
<1> HIDE DEF n
<1>5. \A i \in 1..(n + 1) : i \in 1..n \/ i = n + 1
  BY <1>2
<1>6. \A i \in 1..(n + 1) : events'[i] = SanitizeWithTier(ingested'[i])
  BY <1>2, <1>3, <1>4, <1>5 DEF e
<1>7. QED  BY <1>1, <1>3, <1>4, <1>6 DEF FlowInv

LEMMA FlowInit == Init => FlowInv
<1> SUFFICES ASSUME Init PROVE FlowInv
  OBVIOUS
<1>1. ingested = <<>> /\ events = <<>> /\ context = {}
  BY DEF Init
<1>2. <<>> \in Seq(Ingestible) /\ <<>> \in Seq(Sanitized) /\ Len(<<>>) = 0 /\ 1..0 = {}
  BY EmptySeq
<1>3. QED  BY <1>1, <1>2 DEF FlowInv

LEMMA FlowStep == FlowInv /\ [Next]_vars => FlowInv'
<1> SUFFICES ASSUME FlowInv, [Next]_vars PROVE FlowInv'
  OBVIOUS
<1>1. CASE IngestEnvelope
  <2>1. PICK envelope \in Envelopes : \E event \in Accept(envelope) : Push(event)
    BY <1>1 DEF IngestEnvelope
  <2>2. PICK event \in Accept(envelope) : Push(event)
    BY <2>1
  <2>3. event \in Ingestible
    BY <2>2 DEF Ingestible, RawEvents, Accept
  <2>4. QED  BY <2>2, <2>3, PushKeeps
<1>2. CASE IngestInternal
  <2>1. PICK raw \in InternalEvents : Push(AcceptInternal(raw))
    BY <1>2 DEF IngestInternal
  <2>2. AcceptInternal(raw) \in Ingestible
    BY DEF Ingestible, RawEvents, AcceptInternal
  <2>3. QED  BY <2>1, <2>2, PushKeeps
<1>3. CASE CloseWindow
  BY <1>3 DEF CloseWindow, FlowInv
<1>4. ASSUME UNCHANGED <<ingested, events, context>>, phase' # "collect"
      PROVE  FlowInv'
  BY <1>4 DEF FlowInv
<1>5. CASE DecideLocally \/ AskCloud
  <2>1. \E route, intents, failed : Decided(route, intents, failed)
    BY <1>5 DEF DecideLocally, AskCloud
  <2>2. QED  BY <1>4, <2>1 DEF Decided
<1>6. CASE Govern
  <2>1. UNCHANGED <<ingested, events, context>> /\ phase' = "observe"
    BY <1>6 DEF Govern
  <2>2. QED  BY <1>4, <2>1
<1>7. CASE Observe
  <2>1. ingested' = <<>> /\ events' = <<>> /\ context' = {}
    BY <1>7 DEF Observe
  <2>2. <<>> \in Seq(Ingestible) /\ <<>> \in Seq(Sanitized) /\ Len(<<>>) = 0 /\ 1..0 = {}
    BY EmptySeq
  <2>3. QED  BY <2>1, <2>2 DEF FlowInv
<1>8. CASE UNCHANGED vars
  BY <1>8 DEF vars, FlowInv
<1>9. QED  BY <1>1, <1>2, <1>3, <1>5, <1>6, <1>7, <1>8 DEF Next

\* The air-gap seals: the windows and their contexts are the same for raw events
\* that differ only in what a notification says, in its group or key, in a
\* file's name or in a parcel.
THEOREM AirGapIsSealed == Spec => []AirGapSeals
<1>1. Init => FlowInv
  BY FlowInit
<1>2. FlowInv /\ [Next]_vars => FlowInv'
  BY FlowStep
<1>3. FlowInv => AirGapSeals
  <2> SUFFICES ASSUME FlowInv PROVE AirGapSeals
    OBVIOUS
  <2> DEFINE n == Len(ingested)
             other(i) == [ingested[i] EXCEPT !.raw = Altered(@)]
  <2>1. /\ ingested \in Seq(Ingestible) /\ events \in Seq(Sanitized) /\ Len(events) = n
        /\ n \in Nat /\ DOMAIN ingested = 1..n /\ DOMAIN events = 1..n
        /\ \A i \in 1..n : events[i] = SanitizeWithTier(ingested[i])
        /\ \A i \in 1..n : ingested[i] \in Ingestible
    BY LenProperties, ElementOfSeq DEF FlowInv
  <2>2. ASSUME NEW i \in 1..n PROVE events[i] = SanitizeWithTier(other(i))
    <3>1. /\ IsRawEvent(ingested[i].raw)
          /\ ingested[i] = [raw |-> ingested[i].raw, tier |-> ingested[i].tier]
      BY <2>1, IngestibleShape
    <3>2. other(i).raw = Altered(ingested[i].raw) /\ other(i).tier = ingested[i].tier
      BY <3>1
    <3> HIDE DEF other
    <3>3. Sanitize(other(i).raw) = Sanitize(ingested[i].raw)
      BY <3>1, <3>2, Sealed
    <3>4. SanitizeWithTier(other(i)) = SanitizeWithTier(ingested[i])
      BY <3>2, <3>3 DEF SanitizeWithTier
    <3>5. QED  BY <2>1, <3>4
  <2>3. events = [i \in 1..n |-> events[i]]
    BY <2>1
  <2>4. events = [i \in DOMAIN ingested |-> SanitizeWithTier(other(i))]
    <3> HIDE DEF other
    <3>1. QED  BY <2>1, <2>2, <2>3
  <2>5. QED  BY <2>4 DEF AirGapSeals, FlowInv
<1>4. QED  BY <1>1, <1>2, <1>3, PTL DEF Spec

-----------------------------------------------------------------------------
(***************************************************************************)
(* The translation of the cloud's intents and the policy's target test.    *)
(***************************************************************************)

\* An option with a value unwraps to it.
LEMMA Unwrapped ==
    ASSUME NEW option, NEW default
    PROVE  UnwrapOr(option, default) \in option \cup {default}
<1>1. CASE option = {}
  BY <1>1 DEF UnwrapOr
<1>2. CASE option # {}
  <2>1. (CHOOSE x \in option : TRUE) \in option
    BY <1>2, Zenon
  <2>2. QED  BY <1>2, <2>1 DEF UnwrapOr, Some
<1>3. QED  BY <1>1, <1>2

\* default_prefetch_target writes URLs.
LEMMA DefaultIsUrl ==
    ASSUME NEW category, NEW package
    PROVE  DefaultPrefetchTarget(category, package)[1] = "url"
BY DEF DefaultPrefetchTarget

\* normalize_prefetch_target leaves a URL or nothing.
LEMMA PrefetchIsUrl ==
    ASSUME NEW target, NEW intent, NEW category
    PROVE  NormalizePrefetchTarget(target, PrefetchFallback(intent), category)[1]
                \in {"url", "none"}
<1> DEFINE kept == {<<"url", t[2]>> : t \in {t \in target : t[1] \in {"url", "http", "content"}}}
           package == {t[2] : t \in {t \in target :
                            t[1] = "pkg" \/ (t[1] = "bare" /\ LooksLikePackageName(t[2]))}}
           looked == IF package = {} THEN {}
                     ELSE {DefaultPrefetchTarget(c, package \cap DOMAIN SiteOf) : c \in category}
           default == UnwrapOr(PrefetchFallback(intent), NoTarget)
<1>1. \A x \in kept : x[1] = "url"
  OBVIOUS
<1>2. \A x \in looked : x[1] = "url"
  <2> HIDE DEF package
  <2>1. QED  BY DefaultIsUrl
<1>3. \A x \in PrefetchFallback(intent) : x[1] = "url"
  BY DefaultIsUrl DEF PrefetchFallback
<1>4. default[1] \in {"url", "none"}
  <2>1. default \in PrefetchFallback(intent) \cup {NoTarget}
    BY Unwrapped
  <2>2. NoTarget[1] = "none"
    BY DEF NoTarget
  <2> HIDE DEF default
  <2>3. QED  BY <1>3, <2>1, <2>2
<1>5. NormalizePrefetchTarget(target, PrefetchFallback(intent), category)
        = UnwrapOr(kept \cup looked, default)
  BY DEF NormalizePrefetchTarget
<1> HIDE DEF kept, looked, default
<1>6. UnwrapOr(kept \cup looked, default) \in (kept \cup looked) \cup {default}
  BY Unwrapped
<1>7. QED  BY <1>1, <1>2, <1>4, <1>5, <1>6

\* The prefetches of a batch are for URLs or for nothing in particular.
Resolved(intents) ==
    \A i \in DOMAIN intents : \A n \in DOMAIN intents[i].actions :
        intents[i].actions[n].type = "PrefetchFile" =>
            intents[i].actions[n].target[1] \in {"url", "none"}

LEMMA TranslationResolves ==
    ASSUME NEW reply, NEW intents \in RequestIntents(reply)
    PROVE  Resolved(intents)
<1>1. PICK output \in ParsedOutput(reply) : intents \in TranslateIntents(output)
  BY DEF RequestIntents
<1>2. ASSUME NEW action, NEW intent, TranslateAction(action, intent).type = "PrefetchFile"
      PROVE  TranslateAction(action, intent).target[1] \in {"url", "none"}
  <2>1. action.type = "PrefetchFile"
    BY <1>2 DEF TranslateAction, Action
  <2>2. TranslateAction(action, intent).target =
          NormalizePrefetchTarget(action.target, PrefetchFallback(intent),
                                  PrefetchCategory(intent))
    BY <2>1 DEF TranslateAction, Action
  <2>3. QED  BY <2>2, PrefetchIsUrl
<1>3. NoOp.type = "NoOp"
  BY DEF NoOp, Action
<1>4. ASSUME NEW intent, NEW n \in DOMAIN TranslateIntent(intent).actions,
             TranslateIntent(intent).actions[n].type = "PrefetchFile"
      PROVE  TranslateIntent(intent).actions[n].target[1] \in {"url", "none"}
  <2>1. TranslateIntent(intent).actions =
          IF intent.actions = <<>> THEN <<NoOp>>
          ELSE [i \in DOMAIN intent.actions |-> TranslateAction(intent.actions[i], intent)]
    BY DEF TranslateIntent
  <2>2. CASE intent.actions = <<>>
    <3>1. n = 1
      BY <1>4, <2>1, <2>2
    <3>2. QED  BY <1>3, <1>4, <2>1, <2>2, <3>1
  <2>3. CASE intent.actions # <<>>
    BY <1>2, <1>4, <2>1, <2>3
  <2>4. QED  BY <2>2, <2>3
<1>5. CASE intents = <<Intent("Idle", "", 50, <<NoOp>>)>>
  <2> DEFINE idle == Intent("Idle", "", 50, <<NoOp>>)
  <2>1. idle.actions = <<NoOp>>
    BY DEF Intent
  <2> HIDE DEF idle
  <2>2. intents = <<idle>>
    BY <1>5 DEF idle
  <2>3. \A i \in DOMAIN intents : intents[i].actions = <<NoOp>>
    BY <2>1, <2>2
  <2>4. QED  BY <1>3, <2>3 DEF Resolved
<1>6. CASE intents = [i \in DOMAIN output |-> TranslateIntent(output[i])]
  BY <1>4, <1>6 DEF Resolved
<1>7. QED  BY <1>1, <1>5, <1>6 DEF TranslateIntents

\* A resolved prefetch is not denied for its target.
LEMMA ResolvedIsAllowed ==
    ASSUME NEW c, NEW route, NEW intents, Resolved(intents),
           NEW i \in DOMAIN intents, NEW n \in DOMAIN intents[i].actions,
           intents[i].actions[n].type = "PrefetchFile"
    PROVE  Settle(c, route, intents, <<i, n>>) # "TargetNotInContext"
<1> DEFINE action == intents[i].actions[n]
           intent == Judged(intents[i])
           known == KnownTargets(c)
<1>1. intent.actions[n] = action /\ action.target[1] \in {"url", "none"}
  BY DEF Judged, Resolved
<1> HIDE DEF action, intent, known
<1>2. action.type = "PrefetchFile"
  BY DEF action
<1>3. TargetAllowed(action, known)
  BY <1>1, <1>2 DEF TargetAllowed
<1>4. FilterAction(action, route, known) # "TargetNotInContext"
  BY <1>3 DEF FilterAction
<1>5. EvaluateAction(intent, n, route, known) # "TargetNotInContext"
  BY <1>1, <1>4 DEF EvaluateAction
<1>6. Settle(c, route, intents, <<i, n>>) =
        IF ~SchemaValid(intent, intent.actions[n]) THEN "InvalidSchema"
        ELSE EvaluateAction(intent, n, route, known)
  BY DEF Settle, Evaluate, intent, known
<1>7. QED  BY <1>5, <1>6

\* A closed window waits for its decision, the decision for its verdicts.  What
\* the cloud decided is resolved, and so are the records of it.
ResolveInv ==
    /\ phase # "observe" => records = {}
    /\ phase \in {"govern", "observe"} =>
        \E d : result = {d} /\ (d.route = "CloudLlm" => Resolved(d.intents))
    /\ PrefetchResolved

LEMMA ResolveDecided ==
    ASSUME ResolveInv, phase = "decide", NEW route, NEW intents, NEW failed,
           Decided(route, intents, failed), route = "CloudLlm" => Resolved(intents)
    PROVE  ResolveInv'
<1> DEFINE d == [route |-> route, intents |-> intents, failed |-> failed]
<1>1. d.route = route /\ d.intents = intents
  OBVIOUS
<1>2. result' = {d} /\ phase' = "govern" /\ records' = records
  BY DEF Decided
<1> HIDE DEF d
<1>3. records' = {}
  BY <1>2 DEF ResolveInv
<1>4. QED  BY <1>1, <1>2, <1>3 DEF ResolveInv, PrefetchResolved

LEMMA ResolveGovern ==
    ASSUME ResolveInv, Govern
    PROVE  ResolveInv'
<1>1. phase = "govern" /\ phase' = "observe" /\ result' = result /\ context' = context
  BY DEF Govern
<1>2. PICK d : result = {d} /\ (d.route = "CloudLlm" => Resolved(d.intents))
  BY <1>1 DEF ResolveInv
<1>3. Decision = d /\ Decision' = d
  BY <1>1, <1>2 DEF Decision, Some
<1>4. ASSUME NEW r \in records', d.route = "CloudLlm", r.key[1] = "PrefetchFile"
      PROVE  r.reason # "TargetNotInContext"
  <2>1. \E c \in CoordsOf(d.intents) :
            /\ r.key = FeedbackKey(d.intents[c[1]].actions[c[2]])
            /\ r.reason = Settle(TheContext, d.route, d.intents, c)
    BY <1>3, <1>4 DEF Govern, VerdictOn
  <2>2. PICK c \in CoordsOf(d.intents) :
            /\ r.key = FeedbackKey(d.intents[c[1]].actions[c[2]])
            /\ r.reason = Settle(TheContext, d.route, d.intents, c)
    BY <2>1
  <2>3. PICK i \in DOMAIN d.intents : c \in {<<i, n>> : n \in DOMAIN d.intents[i].actions}
    BY DEF CoordsOf
  <2>4. PICK n \in DOMAIN d.intents[i].actions : c = <<i, n>>
    BY <2>3
  <2>5. d.intents[i].actions[n].type = "PrefetchFile"
    BY <1>4, <2>2, <2>4 DEF FeedbackKey
  <2>6. QED  BY <1>2, <1>4, <2>2, <2>4, <2>5, ResolvedIsAllowed
<1>5. QED  BY <1>1, <1>2, <1>3, <1>4 DEF ResolveInv, PrefetchResolved

\* Whatever the cloud replies, the policy denies none of the prefetches it asks
\* for because of their targets (translate.rs, policy_engine.rs).
THEOREM PrefetchIsResolved == Spec => []PrefetchResolved
<1>1. Init => ResolveInv
  BY DEF Init, ResolveInv, PrefetchResolved
<1>2. ResolveInv /\ [Next]_vars => ResolveInv'
  <2> SUFFICES ASSUME ResolveInv, [Next]_vars PROVE ResolveInv'
    OBVIOUS
  <2>1. ASSUME phase = "collect", phase' \in {"collect", "decide"}, records' = records
        PROVE  ResolveInv'
    BY <2>1 DEF ResolveInv, PrefetchResolved
  <2>2. CASE IngestEnvelope \/ IngestInternal
    <3>1. \E event : Push(event)
      BY <2>2 DEF IngestEnvelope, IngestInternal
    <3>2. QED  BY <2>1, <3>1 DEF Push
  <2>3. CASE CloseWindow
    <3>1. phase = "collect" /\ phase' = "decide" /\ records' = records
      BY <2>3 DEF CloseWindow
    <3>2. QED  BY <2>1, <3>1
  <2>4. CASE DecideLocally
    <3>1. PICK tripped \in MayTrip :
            \E route, intents : /\ route = RouteOf(TheContext, cloud, tripped)
                                /\ route # "CloudLlm"
                                /\ Decided(route, intents, FALSE)
      BY <2>4 DEF DecideLocally
    <3>2. phase = "decide"
      BY <2>4 DEF DecideLocally
    <3>3. QED  BY <3>1, <3>2, ResolveDecided
  <2>5. CASE AskCloud
    <3>1. phase = "decide"
      BY <2>5 DEF AskCloud
    <3>2. PICK reply \in Replies :
            \/ \E intents \in RequestIntents(reply) : Decided("CloudLlm", intents, FALSE)
            \/ Decided("RuleBased", GenerateIntents(TheContext), TRUE)
      BY <2>5 DEF AskCloud
    <3>3. CASE Decided("RuleBased", GenerateIntents(TheContext), TRUE)
      BY <3>1, <3>3, ResolveDecided
    <3>4. ASSUME NEW intents \in RequestIntents(reply), Decided("CloudLlm", intents, FALSE)
          PROVE  ResolveInv'
      BY <3>1, <3>4, TranslationResolves, ResolveDecided
    <3>5. QED  BY <3>2, <3>3, <3>4
  <2>6. CASE Govern
    BY <2>6, ResolveGovern
  <2>7. CASE Observe
    <3>1. phase' = "collect" /\ records' = {}
      BY <2>7 DEF Observe
    <3>2. QED  BY <3>1 DEF ResolveInv, PrefetchResolved
  <2>8. CASE UNCHANGED vars
    BY <2>8 DEF vars, ResolveInv, PrefetchResolved, Decision
  <2>9. QED  BY <2>2, <2>3, <2>4, <2>5, <2>6, <2>7, <2>8 DEF Next
<1>3. ResolveInv => PrefetchResolved
  BY DEF ResolveInv
<1>4. QED  BY <1>1, <1>2, <1>3, PTL DEF Spec

-----------------------------------------------------------------------------
(***************************************************************************)
(* build_summary, round by round.                                          *)
(***************************************************************************)

\* f holds the summaries after the first 0 to m events of s.
Rounds(f, m, s) ==
    f = [k \in 0..m |-> IF k = 0 THEN EmptySummary ELSE Summarise(f[k - 1], s[k])]

\* A set of naturals that is not empty has a least element.
LEMMA LeastNatural ==
    ASSUME NEW T \in SUBSET Nat, T # {}
    PROVE  \E x \in T : \A y \in T : x <= y
<1> DEFINE R == {ss \in Nat \X Nat : ss[1] < ss[2]}
<1>1. OpToRel(<, Nat) = R
  BY Zenon DEF OpToRel
<1>2. IsWellFoundedOn(R, Nat)
  BY <1>1, NatLessThanWellFounded, Zenon
<1>3. \A a, b \in Nat : a < b => <<a, b>> \in R
  OBVIOUS
<1> HIDE DEF R
<1>4. PICK x \in T : \A y \in T : ~(<<y, x>> \in R)
  BY <1>2, WFMin
<1>5. \A y \in T : ~(y < x)
  BY <1>3, <1>4
<1>6. \A y \in T : x <= y
  BY <1>5
<1>7. QED  BY <1>6

\* The rounds can be carried out one after the other, to the end of the window.
LEMMA RoundsExist ==
    ASSUME NEW s, Len(s) \in Nat
    PROVE  \E f : Rounds(f, Len(s), s)
<1> DEFINE stuck == {m \in 0..Len(s) : ~ \E f : Rounds(f, m, s)}
<1>1. SUFFICES stuck = {}
  <2>1. Len(s) \in 0..Len(s)
    OBVIOUS
  <2>2. QED  BY <1>1, <2>1
<1>2. SUFFICES ASSUME stuck # {} PROVE FALSE
  OBVIOUS
<1>3. PICK m \in stuck : \A x \in stuck : m <= x
  <2>1. stuck \in SUBSET Nat
    OBVIOUS
  <2> HIDE DEF stuck
  <2>2. QED  BY <1>2, <2>1, LeastNatural
<1>4. m \in 0..Len(s) /\ ~ \E f : Rounds(f, m, s)
  OBVIOUS
<1>5. CASE m = 0
  <2> DEFINE f == [k \in 0..0 |-> EmptySummary]
  <2>1. Rounds(f, 0, s)
    BY DEF Rounds
  <2>2. QED  BY <1>4, <1>5, <2>1
<1>6. CASE m # 0
  <2>1. m - 1 \in 0..Len(s) /\ ~(m <= m - 1)
    BY <1>4, <1>6
  <2>2. PICK f : Rounds(f, m - 1, s)
    BY <1>3, <2>1
  <2> DEFINE round(k, p) == IF k = 0 THEN EmptySummary ELSE Summarise(p, s[k])
             g == [k \in 0..m |-> IF k = m THEN round(m, f[m - 1]) ELSE f[k]]
  <2>3. f = [k \in 0..(m - 1) |-> round(k, f[k - 1])]
    BY <2>2 DEF Rounds
  <2> HIDE DEF round
  <2>4. ASSUME NEW k \in 0..m PROVE g[k] = round(k, g[k - 1])
    <3>1. CASE k = m
      <4>1. m - 1 \in 0..m /\ m - 1 # m
        BY <1>4, <1>6
      <4>2. g[m - 1] = f[m - 1] /\ g[m] = round(m, f[m - 1])
        BY <4>1
      <4>3. QED  BY <3>1, <4>2
    <3>2. CASE k # m /\ k # 0
      <4>1. k \in 0..(m - 1) /\ k - 1 \in 0..m /\ k - 1 # m
        BY <1>4, <3>2
      <4>2. g[k] = f[k] /\ g[k - 1] = f[k - 1] /\ f[k] = round(k, f[k - 1])
        BY <2>3, <3>2, <4>1
      <4>3. QED  BY <4>2
    <3>3. CASE k # m /\ k = 0
      <4>1. k \in 0..(m - 1)
        BY <1>4, <3>3
      <4>2. g[k] = f[k] /\ f[k] = round(k, f[k - 1])
        BY <2>3, <3>3, <4>1
      <4>3. QED  BY <3>3, <4>2 DEF round
    <3>4. QED  BY <3>1, <3>2, <3>3
  <2>5. g = [k \in 0..m |-> round(k, g[k - 1])]
    BY <2>4
  <2>6. Rounds(g, m, s)
    BY <2>5 DEF Rounds, round
  <2>7. QED  BY <1>4, <2>6
<1>7. QED  BY <1>5, <1>6

LEMMA BuiltByRounds ==
    ASSUME NEW s, Len(s) \in Nat
    PROVE  Rounds(Built(s), Len(s), s)
<1>1. Built(s) = CHOOSE f : Rounds(f, Len(s), s)
  BY DEF Built, Rounds
<1>2. QED  BY <1>1, RoundsExist, Zenon

\* What the loop needs to know of an event: a package where it takes one.
HasPackage(e) ==
    InForeground(e) \/ e.type = "Notification" => e.package # {}

\* push unless contained keeps to the packages of the window.
LEMMA PushedAmong ==
    ASSUME NEW P, NEW s \in Seq(P), NEW option, option \subseteq P, option # {}
    PROVE  Pushed(s, Some(option)) \in Seq(P)
<1>1. (CHOOSE x \in option : TRUE) \in option
  BY Zenon
<1>2. Some(option) \in P
  BY <1>1 DEF Some
<1>3. Append(s, Some(option)) \in Seq(P)
  BY <1>2, AppendProperties
<1>4. QED  BY <1>3 DEF Pushed

\* The summary of a window names packages of the window's events.
LEMMA SummaryAmong ==
    ASSUME NEW s, NEW P, Len(s) \in Nat,
           \A i \in 1..Len(s) : HasPackage(s[i]) /\ s[i].package \subseteq P
    PROVE  /\ BuildSummary(s).foreground \in Seq(P)
           /\ BuildSummary(s).notified \in Seq(P)
<1> DEFINE b == Built(s)
           good(n) == b[n].foreground \in Seq(P) /\ b[n].notified \in Seq(P)
           bad == {n \in 0..Len(s) : ~good(n)}
<1>1. b = [k \in 0..Len(s) |-> IF k = 0 THEN EmptySummary ELSE Summarise(b[k - 1], s[k])]
  BY BuiltByRounds DEF Rounds
<1> HIDE DEF b
<1>2. bad = {}
  <2>1. SUFFICES ASSUME bad # {} PROVE FALSE
    OBVIOUS
  <2>2. PICK m \in bad : \A x \in bad : m <= x
    <3>1. bad \in SUBSET Nat
      OBVIOUS
    <3> HIDE DEF bad
    <3>2. QED  BY <2>1, <3>1, LeastNatural
  <2>3. m \in 0..Len(s) /\ ~good(m)
    OBVIOUS
  <2>4. CASE m = 0
    <3>1. b[0] = EmptySummary
      BY <1>1, <2>3, <2>4
    <3>2. EmptySummary.foreground = <<>> /\ EmptySummary.notified = <<>>
      BY DEF EmptySummary
    <3>3. QED  BY <2>3, <2>4, <3>1, <3>2, EmptySeq
  <2>5. CASE m # 0
    <3>1. m - 1 \in 0..Len(s) /\ ~(m <= m - 1) /\ m \in 1..Len(s)
      BY <2>3, <2>5
    <3>2. good(m - 1)
      BY <2>2, <3>1
    <3> DEFINE q == b[m - 1]
               e == s[m]
    <3>3. b[m] = Summarise(q, e)
      BY <1>1, <2>3, <2>5
    <3>4. HasPackage(e) /\ e.package \subseteq P
      BY <3>1
    <3>5. q.foreground \in Seq(P) /\ q.notified \in Seq(P)
      BY <3>2
    <3> HIDE DEF q, e
    <3>6. /\ Summarise(q, e).foreground =
                IF InForeground(e) THEN Pushed(q.foreground, Some(e.package))
                ELSE q.foreground
          /\ Summarise(q, e).notified =
                IF e.type = "Notification" THEN Pushed(q.notified, Some(e.package))
                ELSE q.notified
      BY DEF Summarise
    <3>7. Summarise(q, e).foreground \in Seq(P)
      BY <3>4, <3>5, <3>6, PushedAmong DEF HasPackage
    <3>8. Summarise(q, e).notified \in Seq(P)
      BY <3>4, <3>5, <3>6, PushedAmong DEF HasPackage
    <3>9. QED  BY <2>3, <3>3, <3>7, <3>8
  <2>6. QED  BY <2>4, <2>5
<1>3. Len(s) \in 0..Len(s)
  OBVIOUS
<1>4. good(Len(s))
  BY <1>2, <1>3
<1>5. QED  BY <1>4 DEF BuildSummary, b

\* sanitize neither loses nor invents a package.
LEMMA PackagesKept ==
    ASSUME NEW event \in Ingestible
    PROVE  LET e == SanitizeWithTier(event) IN
           /\ e.app = RawPackages(event.raw) /\ e.package = RawPackages(event.raw)
           /\ HasPackage(e)
<1> DEFINE raw == event.raw
           clean == Sanitize(raw)
           e == SanitizeWithTier(event)
<1>1. IsRawEvent(raw)
  BY IngestibleShape
<1>2. raw.kind \in {"AppTransition", "BinderTransaction", "ProcStateChange",
                    "FileSystemAccess", "NotificationPosted", "NotificationInteraction",
                    "ScreenState", "SystemState"}
  BY <1>1 DEF IsRawEvent, RawFields
<1> HIDE DEF raw
<1>3. /\ clean.app = RawPackages(raw) /\ clean.package = RawPackages(raw)
      /\ clean.type \in {"AppTransition", "Notification"} => clean.package # {}
      /\ {"app", "package", "type"} \subseteq DOMAIN clean
  <2>1. CASE raw.kind = "AppTransition"
    BY <2>1 DEF Sanitize, SanitizeAppTransition, RawPackages
  <2>2. CASE raw.kind = "BinderTransaction"
    BY <2>2 DEF Sanitize, SanitizeBinder, RawPackages
  <2>3. CASE raw.kind = "ProcStateChange"
    BY <2>3 DEF Sanitize, SanitizeProc, RawPackages
  <2>4. CASE raw.kind = "FileSystemAccess"
    BY <2>4 DEF Sanitize, SanitizeFs, RawPackages
  <2>5. CASE raw.kind = "NotificationPosted"
    BY <2>5 DEF Sanitize, SanitizeNotification, Notification, RawPackages
  <2>6. CASE raw.kind = "NotificationInteraction"
    BY <2>6 DEF Sanitize, SanitizeInteraction, Notification, RawPackages
  <2>7. CASE raw.kind = "ScreenState"
    BY <2>7 DEF Sanitize, SanitizeScreen, RawPackages
  <2>8. CASE raw.kind = "SystemState"
    BY <2>8 DEF Sanitize, SanitizeSystem, RawPackages
  <2>9. QED  BY <1>2, <2>1, <2>2, <2>3, <2>4, <2>5, <2>6, <2>7, <2>8
<1>4. e = [clean EXCEPT !.tier = event.tier]
  BY DEF SanitizeWithTier, raw
<1> HIDE DEF clean, e
<1>5. e.app = clean.app /\ e.package = clean.package /\ e.type = clean.type
  BY <1>3, <1>4
<1>6. HasPackage(e)
  BY <1>3, <1>5 DEF HasPackage, InForeground
<1>7. QED  BY <1>3, <1>5, <1>6 DEF e, raw

\* The packages the raw events of the window name.
Named == UNION {RawPackages(ingested[i].raw) : i \in DOMAIN ingested}

\* KnownTargets::from_context of the window are these.
LEMMA KnownAreNamed ==
    ASSUME FlowInv
    PROVE  KnownTargets(StructuredContext(events)) = Named
<1> DEFINE n == Len(ingested)
           c == StructuredContext(events)
<1>1. /\ ingested \in Seq(Ingestible) /\ events \in Seq(Sanitized) /\ Len(events) = n
      /\ n \in Nat /\ DOMAIN ingested = 1..n /\ DOMAIN events = 1..n
      /\ \A i \in 1..n : events[i] = SanitizeWithTier(ingested[i])
      /\ \A i \in 1..n : ingested[i] \in Ingestible
  BY LenProperties, ElementOfSeq DEF FlowInv
<1>2. \A i \in 1..n : /\ events[i].app = RawPackages(ingested[i].raw)
                       /\ events[i].package = RawPackages(ingested[i].raw)
                       /\ HasPackage(events[i])
  BY <1>1, PackagesKept
<1>3. \A i \in 1..n : RawPackages(ingested[i].raw) \subseteq Named
  BY <1>1 DEF Named
<1>4. c.summary = BuildSummary(events) /\ c.events = events
  BY DEF StructuredContext
<1>5. /\ c.summary.foreground \in Seq(Named)
      /\ c.summary.notified \in Seq(Named)
  BY <1>1, <1>2, <1>3, <1>4, SummaryAmong
<1>6. ToSet(c.summary.foreground) \subseteq Named /\ ToSet(c.summary.notified) \subseteq Named
  BY <1>5, LenProperties, ElementOfSeq DEF ToSet
<1>7. ToSet(c.events) = {events[i] : i \in 1..n}
  BY <1>1, <1>4 DEF ToSet
<1> HIDE DEF c
<1>8. ASSUME NEW x \in KnownTargets(c) PROVE x \in Named
  <2>1. \/ x \in ToSet(c.summary.foreground) \cup ToSet(c.summary.notified)
        \/ \E e \in ToSet(c.events) : x \in e.app \/ x \in e.package
    BY <1>8 DEF KnownTargets
  <2>2. QED  BY <1>2, <1>3, <1>6, <1>7, <2>1
<1>9. ASSUME NEW x \in Named PROVE x \in KnownTargets(c)
  <2>1. PICK i \in 1..n : x \in RawPackages(ingested[i].raw)
    BY <1>1, <1>9 DEF Named
  <2>2. x \in events[i].app /\ events[i] \in ToSet(c.events)
    BY <1>2, <1>7, <2>1
  <2>3. x \in UNION {e.app : e \in ToSet(c.events)}
    BY <2>2
  <2>4. QED  BY <2>3 DEF KnownTargets
<1>10. QED  BY <1>8, <1>9 DEF c

\* What the policy approves for a package is for one it knows.
LEMMA ApprovedIsKnown ==
    ASSUME NEW c, NEW route, NEW intents, NEW coord,
           Settle(c, route, intents, coord) = "Approved",
           NEW action, action = intents[coord[1]].actions[coord[2]],
           action.type # "NoOp", action.target[1] \in {"pkg", "bare"}
    PROVE  action.target[2] \in KnownTargets(c)
<1> DEFINE intent == Judged(intents[coord[1]])
           known == KnownTargets(c)
<1>1. intent.actions[coord[2]] = action
  BY DEF Judged
<1>2. Settle(c, route, intents, coord) =
        IF ~SchemaValid(intent, intent.actions[coord[2]]) THEN "InvalidSchema"
        ELSE EvaluateAction(intent, coord[2], route, known)
  BY DEF Settle, Evaluate
<1> HIDE DEF intent, known
<1>3. EvaluateAction(intent, coord[2], route, known) = "Approved"
  BY <1>2
<1>4. FilterAction(action, route, known) = "Approved"
  BY <1>1, <1>3 DEF EvaluateAction
<1>5. action.type \in AllowedActions(route) /\ TargetAllowed(action, known)
  BY <1>4 DEF FilterAction
<1>6. action.type \in ActionTypes
  BY <1>5 DEF AllowedActions, ActionTypes
<1>7. InContext(action.target, known)
  BY <1>5, <1>6 DEF TargetAllowed, ActionTypes
<1>8. QED  BY <1>7 DEF InContext, known

\* A record is grounded if, approved for a package, it is for one of the window.
Grounded(r) ==
    r.reason = "Approved" /\ r.key[2][1] \in {"pkg", "bare"} /\ r.key[1] # "NoOp" =>
        r.key[2][2] \in Named

\* The decision and its records are of the window that is closed.
GroundInv ==
    /\ FlowInv
    /\ phase \in {"decide", "govern", "observe"} => context = {StructuredContext(events)}
    /\ phase # "observe" => records = {}
    /\ \A r \in records : Grounded(r)

LEMMA GroundGovern ==
    ASSUME GroundInv, Govern
    PROVE  \A r \in records' : Grounded(r)'
<1>1. phase = "govern" /\ ingested' = ingested
  BY DEF Govern
<1>2. Named' = Named
  BY <1>1 DEF Named
<1>3. TheContext = StructuredContext(events)
  BY <1>1 DEF GroundInv, TheContext, Some
<1>4. KnownTargets(TheContext) = Named
  BY <1>3, KnownAreNamed DEF GroundInv
<1>5. ASSUME NEW r \in records' PROVE Grounded(r)'
  <2>1. PICK c \in CoordsOf(Decision.intents) :
            /\ r.key = FeedbackKey(Decision.intents[c[1]].actions[c[2]])
            /\ r.reason = Settle(TheContext, Decision.route, Decision.intents, c)
    BY <1>5 DEF Govern, VerdictOn
  <2> DEFINE action == Decision.intents[c[1]].actions[c[2]]
  <2>2. r.key[1] = action.type /\ r.key[2] = action.target
    BY <2>1 DEF FeedbackKey
  <2> HIDE DEF action
  <2>3. ASSUME r.reason = "Approved", action.target[1] \in {"pkg", "bare"},
               action.type # "NoOp"
        PROVE  action.target[2] \in Named
    BY <1>4, <2>1, <2>3, ApprovedIsKnown DEF action
  <2>4. QED  BY <1>2, <2>2, <2>3 DEF Grounded
<1>6. QED  BY <1>5

LEMMA GroundStep == GroundInv /\ [Next]_vars => GroundInv'
<1> SUFFICES ASSUME GroundInv, [Next]_vars PROVE GroundInv'
  OBVIOUS
<1>1. FlowInv'
  BY FlowStep DEF GroundInv
<1>2. ASSUME phase' = "collect", records' = {} PROVE GroundInv'
  BY <1>1, <1>2 DEF GroundInv
<1>3. CASE IngestEnvelope \/ IngestInternal
  <2>1. \E event : Push(event)
    BY <1>3 DEF IngestEnvelope, IngestInternal
  <2>2. QED  BY <1>2, <2>1 DEF Push, GroundInv
<1>4. CASE CloseWindow
  BY <1>1, <1>4 DEF CloseWindow, GroundInv
<1>5. CASE DecideLocally \/ AskCloud
  <2>1. phase = "decide" /\ \E route, intents, failed : Decided(route, intents, failed)
    BY <1>5 DEF DecideLocally, AskCloud
  <2>2. /\ phase' = "govern" /\ context' = context /\ events' = events
        /\ records' = records
    BY <2>1 DEF Decided
  <2>3. QED  BY <1>1, <2>1, <2>2 DEF GroundInv
<1>6. CASE Govern
  <2>1. phase = "govern" /\ phase' = "observe" /\ context' = context /\ events' = events
    BY <1>6 DEF Govern
  <2>2. QED  BY <1>1, <1>6, <2>1, GroundGovern DEF GroundInv
<1>7. CASE Observe
  BY <1>2, <1>7 DEF Observe
<1>8. CASE UNCHANGED vars
  BY <1>1, <1>8 DEF vars, GroundInv, Grounded, Named
<1>9. QED  BY <1>3, <1>4, <1>5, <1>6, <1>7, <1>8 DEF Next

\* Whatever backends and cloud suggest, an approved action for a package is for
\* one that a raw event of the same window named, and the policy knows exactly
\* these (context_builder.rs, policy_engine.rs).
THEOREM ApprovalsAreGrounded == Spec => []ApprovedGrounded
<1>1. Init => GroundInv
  <2> SUFFICES ASSUME Init PROVE GroundInv
    OBVIOUS
  <2>1. FlowInv
    BY FlowInit
  <2>2. phase \in {"collect", "failed"} /\ records = {}
    BY DEF Init
  <2>3. QED  BY <2>1, <2>2 DEF GroundInv
<1>2. GroundInv /\ [Next]_vars => GroundInv'
  BY GroundStep
<1>3. GroundInv => ApprovedGrounded
  <2> SUFFICES ASSUME GroundInv PROVE ApprovedGrounded
    OBVIOUS
  <2>1. ASSUME NEW c \in context
        PROVE  KnownTargets(c) = UNION {RawPackages(ingested[i].raw) : i \in DOMAIN ingested}
    BY <2>1, KnownAreNamed DEF GroundInv, FlowInv, Named
  <2>2. ASSUME NEW r \in records, r.reason = "Approved",
               r.key[2][1] \in {"pkg", "bare"}, r.key[1] # "NoOp"
        PROVE  \E i \in DOMAIN ingested : r.key[2][2] \in RawPackages(ingested[i].raw)
    <3>1. r.key[2][2] \in Named
      BY <2>2 DEF GroundInv, Grounded
    <3>2. QED  BY <3>1 DEF Named
  <2>3. QED  BY <2>1, <2>2 DEF ApprovedGrounded
<1>4. QED  BY <1>1, <1>2, <1>3, PTL DEF Spec

-----------------------------------------------------------------------------
(***************************************************************************)
(* The rules and the fallback against the policy.                          *)
(***************************************************************************)

\* An intent the policy has nothing against: certain enough, of low risk, and
\* with one action within the capability of its route and a target it knows.
Sound(intent, route, known) ==
    /\ intent.risk = "Low" /\ intent.confidence \in Nat
    /\ intent.confidence >= ConfidenceFloor
    /\ \E a : /\ intent.actions = <<a>> /\ a.urgency # "Deferred"
              /\ a.type \in {"NoOp", "KeepAlive", "ReleaseMemory"}
              /\ a.type \in AllowedActions(route) /\ TargetAllowed(a, known)

\* The running count of an intent begins with zero.
LEMMA CountFromZero ==
    ASSUME NEW intent, NEW a, intent.actions = <<a>>, NEW route, NEW known
    PROVE  ApprovedCount(intent, route, known)[0] = 0
<1> DEFINE passes(n) == FilterAction(intent.actions[n], route, known) = "Approved"
           step(g) == [n \in 0..Len(intent.actions) |->
                        IF n = 0 THEN 0
                        ELSE IF g[n - 1] < MaxActions /\ passes(n) THEN g[n - 1] + 1
                        ELSE g[n - 1]]
           f == [n \in 0..1 |-> IF n = 0 THEN 0
                                ELSE IF 0 < MaxActions /\ passes(1) THEN 1 ELSE 0]
           count == ApprovedCount(intent, route, known)
<1>1. Len(intent.actions) = 1
  OBVIOUS
<1>2. count = CHOOSE g : g = step(g)
  BY DEF ApprovedCount
<1> HIDE DEF passes
<1>3. f = step(f)
  <2>1. \A n \in 0..1 : n = 0 \/ n = 1
    OBVIOUS
  <2>2. f[0] = 0 /\ f[1] = IF 0 < MaxActions /\ passes(1) THEN 1 ELSE 0
    OBVIOUS
  <2>3. step(f) = [n \in 0..1 |-> IF n = 0 THEN 0
                        ELSE IF f[n - 1] < MaxActions /\ passes(n) THEN f[n - 1] + 1
                        ELSE f[n - 1]]
    BY <1>1
  <2>4. \A n \in 0..1 : f[n] = step(f)[n]
    BY <2>1, <2>2, <2>3
  <2>5. QED  BY <2>3, <2>4
<1> HIDE DEF f, count
<1>4. count = step(count)
  <2> HIDE DEF step
  <2>1. QED  BY <1>2, <1>3, Zenon
<1>5. 0 \in 0..Len(intent.actions)
  BY <1>1
<1>6. step(count)[0] = 0
  BY <1>5
<1>7. QED  BY <1>4, <1>6 DEF count

LEMMA SoundIsApproved ==
    ASSUME MaxActions # 0, Blocked = {},
           NEW c, NEW route, NEW intents, NEW i \in DOMAIN intents,
           NEW n \in DOMAIN intents[i].actions, Sound(intents[i], route, KnownTargets(c))
    PROVE  Settle(c, route, intents, <<i, n>>) = "Approved"
<1> DEFINE intent == Judged(intents[i])
           known == KnownTargets(c)
<1>1. PICK a : /\ intents[i].actions = <<a>> /\ a.urgency # "Deferred"
               /\ a.type \in {"NoOp", "KeepAlive", "ReleaseMemory"}
               /\ a.type \in AllowedActions(route) /\ TargetAllowed(a, known)
  BY DEF Sound
<1>2. n = 1
  BY <1>1
<1>3. intent.actions = <<a>> /\ intent.actions[n] = a /\ intent.risk = "Low" /\ intent.confident
  <2>1. /\ intent.actions = intents[i].actions /\ intent.risk = intents[i].risk
        /\ intent.confident = (intents[i].confidence >= ConfidenceFloor)
    BY DEF Judged
  <2>2. intents[i].risk = "Low" /\ intents[i].confidence >= ConfidenceFloor
    BY DEF Sound
  <2> HIDE DEF intent
  <2>3. intent.confident
    BY <2>1, <2>2
  <2>4. QED  BY <1>1, <1>2, <2>1, <2>2, <2>3
<1>4. Settle(c, route, intents, <<i, n>>) =
        IF ~SchemaValid(intent, intent.actions[n]) THEN "InvalidSchema"
        ELSE EvaluateAction(intent, n, route, known)
  BY DEF Settle, Evaluate
<1> HIDE DEF intent, known
<1>5. SchemaValid(intent, a)
  BY <1>1, <1>3 DEF SchemaValid
<1>6. FilterAction(a, route, known) = "Approved"
  BY <1>1 DEF FilterAction
<1>7. ~(ApprovedCount(intent, route, known)[n - 1] >= MaxActions)
  <2>1. ApprovedCount(intent, route, known)[0] = 0
    BY <1>3, CountFromZero
  <2>2. n - 1 = 0
    BY <1>2
  <2>3. QED  BY <2>1, <2>2, PolicyAssumption
<1>8. /\ ~(RiskRank(intent.risk) > RiskRank(MaxRisk(route)))
      /\ ~(RiskRank(intent.risk) > RiskRank(MaxAutoRisk))
  BY <1>3, PolicyAssumption DEF RiskRank, MaxRisk
<1>9. EvaluateAction(intent, n, route, known) = "Approved"
  BY <1>3, <1>6, <1>7, <1>8 DEF EvaluateAction
<1>10. QED  BY <1>3, <1>4, <1>5, <1>9

LEMMA FallbackIsSound ==
    ASSUME NEW route, NEW known, NEW i \in DOMAIN FallbackNoOp,
           "NoOp" \in AllowedActions(route)
    PROVE  Sound(FallbackNoOp[i], route, known)
<1> DEFINE intent == Intent("Idle", "", 100, <<NoOp>>)
<1>1. intent.risk = "Low" /\ intent.confidence = 100 /\ intent.actions = <<NoOp>>
  BY DEF Intent
<1>2. NoOp.type = "NoOp" /\ NoOp.urgency = "IdleTime"
  BY DEF NoOp, Action
<1>3. FallbackNoOp = <<intent>>
  BY DEF FallbackNoOp
<1> HIDE DEF intent
<1>4. FallbackNoOp[i] = intent
  BY <1>3
<1>5. TargetAllowed(NoOp, known)
  BY <1>2 DEF TargetAllowed
<1>6. Sound(intent, route, known)
  BY <1>1, <1>2, <1>5 DEF Sound, ConfidenceFloor
<1>7. QED  BY <1>4, <1>6

\* The packages generate_intents takes from the window are known ones.
LEMMA RulePackages ==
    ASSUME FlowInv
    PROVE  LET c == StructuredContext(events) IN
           /\ c.summary.notified # <<>> => Head(c.summary.notified) \in Named
           /\ FirstForeground(c) \subseteq Named
           /\ \A e \in MemoryPressure(c) : e.package \subseteq Named
<1> DEFINE c == StructuredContext(events)
           n == Len(ingested)
<1>1. /\ ingested \in Seq(Ingestible) /\ events \in Seq(Sanitized) /\ Len(events) = n
      /\ n \in Nat /\ DOMAIN ingested = 1..n /\ DOMAIN events = 1..n
      /\ \A i \in 1..n : events[i] = SanitizeWithTier(ingested[i])
      /\ \A i \in 1..n : ingested[i] \in Ingestible
  BY LenProperties, ElementOfSeq DEF FlowInv
<1>2. \A i \in 1..n : /\ events[i].package = RawPackages(ingested[i].raw)
                       /\ HasPackage(events[i])
  BY <1>1, PackagesKept
<1>3. \A i \in 1..n : events[i].package \subseteq Named
  BY <1>1, <1>2 DEF Named
<1>4. c.summary = BuildSummary(events) /\ c.events = events
  BY DEF StructuredContext
<1>5. c.summary.notified \in Seq(Named)
  BY <1>1, <1>2, <1>3, <1>4, SummaryAmong
<1>6. c.summary.notified # <<>> => Head(c.summary.notified) \in Named
  BY <1>5, HeadTailProperties
<1> HIDE DEF c
<1>7. FirstForeground(c) \subseteq Named
  BY <1>1, <1>3, <1>4 DEF FirstForeground
<1>8. \A e \in MemoryPressure(c) : e.package \subseteq Named
  BY <1>1, <1>3, <1>4 DEF MemoryPressure
<1>9. QED  BY <1>6, <1>7, <1>8 DEF c

LEMMA FiresAmong ==
    ASSUME NEW S, NEW test \in BOOLEAN, NEW intent, test => intent \in S
    PROVE  Fires(test, intent) \in Seq(S)
<1>1. CASE test
  <2>1. <<intent>> \in Seq(S)
    BY <1>1
  <2>2. QED  BY <1>1, <2>1 DEF Fires
<1>2. CASE ~test
  BY <1>2, EmptySeq DEF Fires
<1>3. QED  BY <1>1, <1>2

\* What keeps an app or a process of the window is sound.
LEMMA KeepIsSound ==
    ASSUME NEW type, NEW package, NEW known, package \in known,
           NEW confidence \in 30..100, NEW urgency \in {"Immediate", "IdleTime"}
    PROVE  Sound(Keep(type, package, confidence, urgency), "RuleBased", known)
<1> DEFINE a == Action("KeepAlive", <<"bare", package>>, urgency)
           intent == Keep(type, package, confidence, urgency)
<1>1. intent.risk = "Low" /\ intent.confidence = confidence /\ intent.actions = <<a>>
  BY DEF Keep, Intent
<1>2. /\ a.type = "KeepAlive" /\ a.urgency = urgency /\ a.target[1] = "bare"
      /\ a.target[2] = package
  BY DEF Action
<1> HIDE DEF a, intent
<1>3. TargetAllowed(a, known)
  BY <1>2 DEF TargetAllowed, InContext
<1>4. Sound(intent, "RuleBased", known)
  BY <1>1, <1>2, <1>3 DEF Sound, ConfidenceFloor, AllowedActions
<1>5. QED  BY <1>4 DEF intent

LEMMA IdleIsSound ==
    ASSUME NEW a, NEW known, NEW confidence \in 30..100, a.urgency # "Deferred",
           a.type \in {"NoOp", "KeepAlive", "ReleaseMemory"}, TargetAllowed(a, known)
    PROVE  Sound(Intent("Idle", "", confidence, <<a>>), "RuleBased", known)
<1> DEFINE intent == Intent("Idle", "", confidence, <<a>>)
<1>1. intent.risk = "Low" /\ intent.confidence = confidence /\ intent.actions = <<a>>
  BY DEF Intent
<1> HIDE DEF intent
<1>2. Sound(intent, "RuleBased", known)
  BY <1>1 DEF Sound, ConfidenceFloor, AllowedActions
<1>3. QED  BY <1>2 DEF intent

\* The actions that are not about an app of the window.
LEMMA OwnActions ==
    ASSUME NEW known
    PROVE  /\ NoOp.type = "NoOp" /\ NoOp.urgency # "Deferred" /\ TargetAllowed(NoOp, known)
           /\ LET a == Heartbeat("IdleTime") IN
              a.type = "KeepAlive" /\ a.urgency # "Deferred" /\ TargetAllowed(a, known)
           /\ LET a == TrimCache IN
              a.type = "ReleaseMemory" /\ a.urgency # "Deferred" /\ TargetAllowed(a, known)
<1>1. NoOp.type = "NoOp" /\ NoOp.urgency = "IdleTime"
  BY DEF NoOp, Action
<1>2. TargetAllowed(NoOp, known)
  BY <1>1 DEF TargetAllowed
<1> DEFINE h == Heartbeat("IdleTime")
           t == TrimCache
<1>3. h.type = "KeepAlive" /\ h.urgency = "IdleTime" /\ h.target[1] = "work"
  BY DEF Heartbeat, Action
<1>4. t.type = "ReleaseMemory" /\ t.urgency = "Immediate" /\ t.target[1] = "cache"
  BY DEF TrimCache, Action
<1> HIDE DEF h, t
<1>5. TargetAllowed(h, known)
  BY <1>3 DEF TargetAllowed
<1>6. TargetAllowed(t, known)
  BY <1>4 DEF TargetAllowed
<1>7. QED  BY <1>1, <1>2, <1>3, <1>4, <1>5, <1>6 DEF h, t

LEMMA TrimIsAllowed ==
    ASSUME NEW e, NEW known, e.package \subseteq known
    PROVE  LET a == TrimProcess(e) IN
           a.type = "ReleaseMemory" /\ a.urgency # "Deferred" /\ TargetAllowed(a, known)
<1> DEFINE a == TrimProcess(e)
           target == IF e.package = {} THEN NoTarget ELSE <<"bare", Some(e.package)>>
<1>1. a.type = "ReleaseMemory" /\ a.urgency = "Immediate" /\ a.target = target
  BY DEF TrimProcess, Action
<1>2. target[1] = "none" \/ (target[1] = "bare" /\ target[2] \in known)
  <2>1. CASE e.package = {}
    BY <2>1 DEF NoTarget
  <2>2. CASE e.package # {}
    <3>1. (CHOOSE x \in e.package : TRUE) \in e.package
      BY <2>2, Zenon
    <3>2. Some(e.package) \in known
      BY <3>1 DEF Some
    <3>3. QED  BY <2>2, <3>2
  <2>3. QED  BY <2>1, <2>2
<1> HIDE DEF a, target
<1>3. TargetAllowed(a, known)
  BY <1>1, <1>2 DEF TargetAllowed, InContext
<1>4. QED  BY <1>1, <1>3 DEF a

\* Everything the rules suggest for a closed window is sound.
LEMMA RulesAreSound ==
    ASSUME FlowInv
    PROVE  LET intents == GenerateIntents(StructuredContext(events)) IN
           \A i \in DOMAIN intents : Sound(intents[i], "RuleBased", Named)
<1> DEFINE c == StructuredContext(events)
           notified == c.summary.notified
           mention == \E e \in EventsOf(c, "Notification") : Contains(e.hints, "FileMention")
           fg == FirstForeground(c)
           pressure == MemoryPressure(c)
           screen == \E e \in EventsOf(c, "Screen") : e.state = "Interactive"
           low == \E e \in EventsOf(c, "SystemStatus") : LowBattery(e.battery)
           k1 == Keep("OpenApp", Head(notified), IF mention THEN 70 ELSE 55,
                      IF mention THEN "Immediate" ELSE "IdleTime")
           k2 == Keep("SwitchToApp", Some(fg), 80, "Immediate")
           k3 == Intent("Idle", "", 60, <<Heartbeat("IdleTime")>>)
           k4 == Intent("Idle", "", 80, <<TrimCache>>)
           k5 == Intent("Idle", "", 65, <<TrimProcess(Some(pressure))>>)
           idle == Intent("Idle", "", 50, <<NoOp>>)
           f1 == Fires(notified # <<>>, k1)
           f2 == Fires(fg # {}, k2)
           f3 == Fires(screen, k3)
           f4 == Fires(low, k4)
           f5 == Fires(pressure # {}, k5)
           batch == f1 \o f2 \o f3 \o f4 \o f5
           S == {k \in {k1, k2, k3, k4, k5, idle} : Sound(k, "RuleBased", Named)}
<1>1. GenerateIntents(c) = IF batch = <<>> THEN <<idle>> ELSE batch
  BY DEF GenerateIntents
<1>2. /\ notified # <<>> => Head(notified) \in Named
      /\ fg \subseteq Named /\ \A e \in pressure : e.package \subseteq Named
  BY RulePackages
<1> HIDE DEF c, notified, mention, fg, pressure, screen, low
<1>3. notified # <<>> => Sound(k1, "RuleBased", Named)
  BY <1>2, KeepIsSound
<1>4. fg # {} => Sound(k2, "RuleBased", Named)
  <2>1. SUFFICES ASSUME fg # {} PROVE Sound(k2, "RuleBased", Named)
    OBVIOUS
  <2>2. (CHOOSE x \in fg : TRUE) \in fg
    BY <2>1, Zenon
  <2>3. Some(fg) \in Named
    BY <1>2, <2>2 DEF Some
  <2>4. QED  BY <2>3, KeepIsSound
<1>5. Sound(k3, "RuleBased", Named)
  <2> DEFINE a == Heartbeat("IdleTime")
  <2>1. a.type = "KeepAlive" /\ a.urgency # "Deferred" /\ TargetAllowed(a, Named)
    BY OwnActions
  <2>2. k3 = Intent("Idle", "", 60, <<a>>)
    OBVIOUS
  <2> HIDE DEF a, k3
  <2>3. 60 \in 30..100 /\ a.type \in {"NoOp", "KeepAlive", "ReleaseMemory"}
    BY <2>1
  <2>4. QED  BY <2>1, <2>2, <2>3, IdleIsSound, Zenon
<1>6. Sound(k4, "RuleBased", Named)
  <2> DEFINE a == TrimCache
  <2>1. a.type = "ReleaseMemory" /\ a.urgency # "Deferred" /\ TargetAllowed(a, Named)
    BY OwnActions
  <2>2. k4 = Intent("Idle", "", 80, <<a>>)
    OBVIOUS
  <2> HIDE DEF a, k4
  <2>3. 80 \in 30..100 /\ a.type \in {"NoOp", "KeepAlive", "ReleaseMemory"}
    BY <2>1
  <2>4. QED  BY <2>1, <2>2, <2>3, IdleIsSound, Zenon
<1>7. pressure # {} => Sound(k5, "RuleBased", Named)
  <2>1. SUFFICES ASSUME pressure # {} PROVE Sound(k5, "RuleBased", Named)
    OBVIOUS
  <2>2. (CHOOSE x \in pressure : TRUE) \in pressure
    BY <2>1, Zenon
  <2>3. Some(pressure).package \subseteq Named
    BY <1>2, <2>2 DEF Some
  <2> DEFINE a == TrimProcess(Some(pressure))
  <2>4. a.type = "ReleaseMemory" /\ a.urgency # "Deferred" /\ TargetAllowed(a, Named)
    BY <2>3, TrimIsAllowed
  <2>5. k5 = Intent("Idle", "", 65, <<a>>)
    OBVIOUS
  <2> HIDE DEF a, k5
  <2>6. 65 \in 30..100 /\ a.type \in {"NoOp", "KeepAlive", "ReleaseMemory"}
    BY <2>4
  <2>7. QED  BY <2>4, <2>5, <2>6, IdleIsSound, Zenon
<1>8. Sound(idle, "RuleBased", Named)
  <2> DEFINE a == NoOp
  <2>1. a.type = "NoOp" /\ a.urgency # "Deferred" /\ TargetAllowed(a, Named)
    BY OwnActions
  <2>2. idle = Intent("Idle", "", 50, <<a>>)
    OBVIOUS
  <2> HIDE DEF a, idle
  <2>3. 50 \in 30..100 /\ a.type \in {"NoOp", "KeepAlive", "ReleaseMemory"}
    BY <2>1
  <2>4. QED  BY <2>1, <2>2, <2>3, IdleIsSound, Zenon
<1> HIDE DEF k1, k2, k3, k4, k5, idle
<1>9. /\ f1 \in Seq(S) /\ f2 \in Seq(S) /\ f3 \in Seq(S) /\ f4 \in Seq(S) /\ f5 \in Seq(S)
      /\ idle \in S
  <2>1. screen \in BOOLEAN /\ low \in BOOLEAN
    BY DEF screen, low
  <2>2. f1 \in Seq(S)
    BY <1>3, FiresAmong
  <2>3. f2 \in Seq(S)
    BY <1>4, FiresAmong
  <2>4. f3 \in Seq(S)
    BY <1>5, <2>1, FiresAmong
  <2>5. f4 \in Seq(S)
    BY <1>6, <2>1, FiresAmong
  <2>6. f5 \in Seq(S)
    BY <1>7, FiresAmong
  <2>7. QED  BY <1>8, <2>2, <2>3, <2>4, <2>5, <2>6
<1>10. \A k \in S : Sound(k, "RuleBased", Named)
  OBVIOUS
<1> HIDE DEF f1, f2, f3, f4, f5, S
<1>11. batch \in Seq(S)
  BY <1>9, ConcatProperties
<1>12. <<idle>> \in Seq(S)
  BY <1>9
<1> HIDE DEF batch
<1>13. GenerateIntents(c) \in Seq(S)
  BY <1>1, <1>11, <1>12
<1>14. \A i \in DOMAIN GenerateIntents(c) : GenerateIntents(c)[i] \in S
  BY <1>13, LenProperties, ElementOfSeq
<1>15. QED  BY <1>10, <1>14 DEF c

RulesAndFallback == {"RuleBased", "FallbackNoOp"}

\* LocalApproved for the two of the local routes that weigh no confidence, in its
\* strongest form: everything they suggest is approved.
RulesApproved ==
    phase = "observe" /\ Decision.route \in RulesAndFallback =>
        \A r \in records : r.reason = "Approved"

\* What waits for the verdicts is sound for the window it was decided on.
SoundInv ==
    /\ GroundInv
    /\ phase \in {"govern", "observe"} =>
        \E d : /\ result = {d}
               /\ d.route \in RulesAndFallback =>
                    \A i \in DOMAIN d.intents : Sound(d.intents[i], d.route, Named)
    /\ RulesApproved

LEMMA SoundDecided ==
    ASSUME SoundInv, GroundInv', phase = "decide", NEW route, NEW intents, NEW failed,
           Decided(route, intents, failed),
           route \in RulesAndFallback =>
                \A i \in DOMAIN intents : Sound(intents[i], route, Named)
    PROVE  SoundInv'
<1> DEFINE d == [route |-> route, intents |-> intents, failed |-> failed]
<1>1. d.route = route /\ d.intents = intents
  OBVIOUS
<1>2. result' = {d} /\ phase' = "govern" /\ ingested' = ingested
  BY DEF Decided
<1>3. Named' = Named
  BY <1>2 DEF Named
<1> HIDE DEF d
<1>4. QED  BY <1>1, <1>2, <1>3 DEF SoundInv, RulesApproved

LEMMA SoundGovern ==
    ASSUME MaxActions # 0, Blocked = {}, SoundInv, GroundInv', Govern
    PROVE  SoundInv'
<1>1. phase = "govern" /\ phase' = "observe" /\ result' = result /\ ingested' = ingested
  BY DEF Govern
<1>2. PICK d : /\ result = {d}
               /\ d.route \in RulesAndFallback =>
                    \A i \in DOMAIN d.intents : Sound(d.intents[i], d.route, Named)
  BY <1>1 DEF SoundInv
<1>3. Decision = d /\ Decision' = d
  BY <1>1, <1>2 DEF Decision, Some
<1>4. Named' = Named
  BY <1>1 DEF Named
<1>5. KnownTargets(TheContext) = Named
  <2>1. TheContext = StructuredContext(events)
    BY <1>1 DEF SoundInv, GroundInv, TheContext, Some
  <2>2. QED  BY <2>1, KnownAreNamed DEF SoundInv, GroundInv
<1>6. ASSUME NEW r \in records', d.route \in RulesAndFallback
      PROVE  r.reason = "Approved"
  <2>1. PICK c \in CoordsOf(d.intents) : r.reason = Settle(TheContext, d.route, d.intents, c)
    BY <1>3, <1>6 DEF Govern, VerdictOn
  <2>2. PICK i \in DOMAIN d.intents : c \in {<<i, n>> : n \in DOMAIN d.intents[i].actions}
    BY DEF CoordsOf
  <2>3. PICK n \in DOMAIN d.intents[i].actions : c = <<i, n>>
    BY <2>2
  <2>4. Sound(d.intents[i], d.route, KnownTargets(TheContext))
    BY <1>2, <1>5, <1>6
  <2>5. QED  BY <2>1, <2>3, <2>4, SoundIsApproved
<1>7. QED  BY <1>1, <1>2, <1>3, <1>4, <1>6 DEF SoundInv, RulesApproved

\* Whatever the window holds, and also when they stand in for a cloud reply that
\* cannot be used, the rules and the fallback suggest only what the policy
\* approves, if it blocks no action type and allows one action: nothing beyond
\* their capability or risk, and no target outside the window (rule_based.rs).
THEOREM RulesAreApproved ==
    ASSUME MaxActions # 0, Blocked = {}
    PROVE  Spec => []RulesApproved
<1>1. Init => SoundInv
  <2> SUFFICES ASSUME Init PROVE SoundInv
    OBVIOUS
  <2>1. FlowInv
    BY FlowInit
  <2>2. phase \in {"collect", "failed"} /\ records = {}
    BY DEF Init
  <2>3. QED  BY <2>1, <2>2 DEF SoundInv, GroundInv, RulesApproved
<1>2. SoundInv /\ [Next]_vars => SoundInv'
  <2> SUFFICES ASSUME SoundInv, [Next]_vars PROVE SoundInv'
    OBVIOUS
  <2>1. GroundInv'
    BY GroundStep DEF SoundInv
  <2>2. ASSUME phase' \in {"collect", "decide"} PROVE SoundInv'
    BY <2>1, <2>2 DEF SoundInv, RulesApproved
  <2>3. CASE IngestEnvelope \/ IngestInternal
    <3>1. \E event : Push(event)
      BY <2>3 DEF IngestEnvelope, IngestInternal
    <3>2. QED  BY <2>2, <3>1 DEF Push
  <2>4. CASE CloseWindow
    BY <2>2, <2>4 DEF CloseWindow
  <2>5. ASSUME phase = "decide"
        PROVE  \A i \in DOMAIN GenerateIntents(TheContext) :
                    Sound(GenerateIntents(TheContext)[i], "RuleBased", Named)
    <3>1. TheContext = StructuredContext(events)
      BY <2>5 DEF SoundInv, GroundInv, TheContext, Some
    <3>2. FlowInv
      BY DEF SoundInv, GroundInv
    <3>3. QED  BY <3>1, <3>2, RulesAreSound
  <2>6. ASSUME phase = "decide", NEW failed,
               Decided("RuleBased", GenerateIntents(TheContext), failed)
        PROVE  SoundInv'
    BY <2>1, <2>5, <2>6, SoundDecided
  <2>7. ASSUME phase = "decide", NEW route, NEW intents, NEW failed,
               Decided(route, intents, failed), route \notin RulesAndFallback
        PROVE  SoundInv'
    BY <2>1, <2>7, SoundDecided
  <2>8. ASSUME phase = "decide", Decided("FallbackNoOp", FallbackNoOp, FALSE)
        PROVE  SoundInv'
    <3>1. "NoOp" \in AllowedActions("FallbackNoOp")
      BY DEF AllowedActions
    <3>2. QED  BY <2>1, <2>8, <3>1, FallbackIsSound, SoundDecided
  <2>9. CASE DecideLocally
    <3>1. phase = "decide"
      BY <2>9 DEF DecideLocally
    <3>2. \/ Decided("FallbackNoOp", FallbackNoOp, FALSE)
          \/ Decided("RuleBased", GenerateIntents(TheContext), FALSE)
          \/ \E intents : Decided("LocalEvaluator", intents, FALSE)
      BY <2>9 DEF DecideLocally
    <3>3. QED  BY <2>6, <2>7, <2>8, <3>1, <3>2 DEF RulesAndFallback
  <2>10. CASE AskCloud
    <3>1. phase = "decide"
      BY <2>10 DEF AskCloud
    <3>2. \/ \E intents : Decided("CloudLlm", intents, FALSE)
          \/ Decided("RuleBased", GenerateIntents(TheContext), TRUE)
      BY <2>10 DEF AskCloud
    <3>3. QED  BY <2>6, <2>7, <3>1, <3>2 DEF RulesAndFallback
  <2>11. CASE Govern
    BY <2>1, <2>11, SoundGovern
  <2>12. CASE Observe
    BY <2>2, <2>12 DEF Observe
  <2>13. CASE UNCHANGED vars
    BY <2>1, <2>13 DEF vars, SoundInv, RulesApproved, Decision, Named
  <2>14. QED  BY <2>3, <2>4, <2>9, <2>10, <2>11, <2>12, <2>13 DEF Next
<1>3. SoundInv => RulesApproved
  BY DEF SoundInv
<1>4. QED  BY <1>1, <1>2, <1>3, PTL DEF Spec

-----------------------------------------------------------------------------
(***************************************************************************)
(* The local evaluator: the candidates of a window.                        *)
(***************************************************************************)

\* retain on the one or two actions of a candidate.
LEMMA RetainedOne ==
    ASSUME NEW a, NEW signals
    PROVE  Retained(<<a>>, signals) = IF PolicyAware(a, signals) THEN <<a>> ELSE <<>>
<1> DEFINE s == <<a>>
           aware(n) == PolicyAware(s[n], signals)
           step(g) == [n \in 0..Len(s) |->
                        IF n = 0 THEN <<>>
                        ELSE IF aware(n) THEN Append(g[n - 1], s[n]) ELSE g[n - 1]]
           f == [n \in 0..1 |-> IF n = 0 THEN <<>> ELSE IF aware(1) THEN <<a>> ELSE <<>>]
           kept == CHOOSE g : g = step(g)
<1>1. Len(s) = 1 /\ s[1] = a /\ Append(<<>>, a) = <<a>>
  OBVIOUS
<1>2. Retained(s, signals) = kept[Len(s)]
  BY DEF Retained
<1>3. aware(1) = PolicyAware(a, signals)
  OBVIOUS
<1> HIDE DEF s, aware
<1>4. f = step(f)
  <2>1. \A n \in 0..1 : n = 0 \/ n = 1
    OBVIOUS
  <2>2. f[0] = <<>> /\ f[1] = IF aware(1) THEN <<a>> ELSE <<>>
    OBVIOUS
  <2>3. step(f) = [n \in 0..1 |->
                    IF n = 0 THEN <<>>
                    ELSE IF aware(n) THEN Append(f[n - 1], s[n]) ELSE f[n - 1]]
    BY <1>1
  <2>4. step(f)[0] = <<>>
    BY <2>3
  <2>5. step(f)[1] = IF aware(1) THEN Append(f[0], s[1]) ELSE f[0]
    BY <2>3
  <2>6. \A n \in 0..1 : f[n] = step(f)[n]
    <3> HIDE DEF f, step
    <3>1. QED  BY <1>1, <2>1, <2>2, <2>4, <2>5
  <2>7. QED  BY <2>3, <2>6
<1> HIDE DEF f
<1>5. kept = step(kept)
  <2> HIDE DEF step
  <2>1. QED  BY <1>4, Zenon
<1> HIDE DEF kept
<1>6. kept[0] = <<>> /\ kept[1] = IF aware(1) THEN Append(kept[0], s[1]) ELSE kept[0]
  BY <1>1, <1>5
<1>7. QED  BY <1>1, <1>2, <1>3, <1>6 DEF s

LEMMA RetainedTwo ==
    ASSUME NEW a, NEW b, NEW signals
    PROVE  Retained(<<a, b>>, signals) =
            IF PolicyAware(a, signals)
            THEN IF PolicyAware(b, signals) THEN <<a, b>> ELSE <<a>>
            ELSE IF PolicyAware(b, signals) THEN <<b>> ELSE <<>>
<1> DEFINE s == <<a, b>>
           aware(n) == PolicyAware(s[n], signals)
           step(g) == [n \in 0..Len(s) |->
                        IF n = 0 THEN <<>>
                        ELSE IF aware(n) THEN Append(g[n - 1], s[n]) ELSE g[n - 1]]
           one == IF aware(1) THEN <<a>> ELSE <<>>
           f == [n \in 0..2 |-> IF n = 0 THEN <<>> ELSE IF n = 1 THEN one
                                ELSE IF aware(2) THEN Append(one, b) ELSE one]
           kept == CHOOSE g : g = step(g)
<1>1. Len(s) = 2 /\ s[1] = a /\ s[2] = b /\ Append(<<>>, a) = <<a>>
      /\ Append(<<>>, b) = <<b>> /\ Append(<<a>>, b) = <<a, b>>
  <2>1. Len(s) = 2 /\ s[1] = a /\ s[2] = b
    OBVIOUS
  <2>2. Append(<<>>, a) = <<a>> /\ Append(<<>>, b) = <<b>>
    OBVIOUS
  <2>3. Append(<<a>>, b) = <<a, b>>
    <3>1. <<a>> \in Seq({a, b}) /\ <<a, b>> \in Seq({a, b}) /\ Len(<<a>>) = 1 /\ Len(<<a, b>>) = 2
      OBVIOUS
    <3>2. /\ Append(<<a>>, b) \in Seq({a, b}) /\ Len(Append(<<a>>, b)) = 2
          /\ Append(<<a>>, b)[1] = a /\ Append(<<a>>, b)[2] = b
      BY <3>1, AppendProperties
    <3>3. <<a, b>>[1] = a /\ <<a, b>>[2] = b
      OBVIOUS
    <3>4. \A i \in 1..2 : i = 1 \/ i = 2
      OBVIOUS
    <3>5. QED  BY <3>1, <3>2, <3>3, <3>4, SeqEqual
  <2>4. QED  BY <2>1, <2>2, <2>3
<1>2. Retained(s, signals) = kept[Len(s)]
  BY DEF Retained
<1>3. (aware(1) <=> PolicyAware(s[1], signals)) /\ (aware(2) <=> PolicyAware(s[2], signals))
  OBVIOUS
<1> HIDE DEF s, aware
<1>4. f = step(f)
  <2>1. \A n \in 0..2 : n = 0 \/ n = 1 \/ n = 2
    OBVIOUS
  <2>2. one = IF aware(1) THEN Append(<<>>, a) ELSE <<>>
    BY <1>1
  <2> HIDE DEF one
  <2>3. f[0] = <<>> /\ f[1] = one /\ f[2] = IF aware(2) THEN Append(one, b) ELSE one
    OBVIOUS
  <2>4. step(f) = [n \in 0..2 |->
                    IF n = 0 THEN <<>>
                    ELSE IF aware(n) THEN Append(f[n - 1], s[n]) ELSE f[n - 1]]
    BY <1>1
  <2>5. step(f)[0] = <<>>
    BY <2>4
  <2>6. step(f)[1] = IF aware(1) THEN Append(f[0], s[1]) ELSE f[0]
    BY <2>4
  <2>7. step(f)[2] = IF aware(2) THEN Append(f[1], s[2]) ELSE f[1]
    BY <2>4
  <2>8. \A n \in 0..2 : f[n] = step(f)[n]
    <3> HIDE DEF f, step
    <3>1. QED  BY <1>1, <2>1, <2>2, <2>3, <2>5, <2>6, <2>7
  <2>9. QED  BY <2>4, <2>8
<1> HIDE DEF f
<1>5. kept = step(kept)
  <2> HIDE DEF step
  <2>1. QED  BY <1>4, Zenon
<1> HIDE DEF kept
<1>6. /\ kept[0] = <<>>
      /\ kept[1] = IF aware(1) THEN Append(kept[0], s[1]) ELSE kept[0]
      /\ kept[2] = IF aware(2) THEN Append(kept[1], s[2]) ELSE kept[1]
  <2>1. step(kept)[0] = <<>>
    BY <1>1
  <2>2. step(kept)[1] = IF aware(1) THEN Append(kept[0], s[1]) ELSE kept[0]
    BY <1>1
  <2>3. step(kept)[2] = IF aware(2) THEN Append(kept[1], s[2]) ELSE kept[1]
    BY <1>1
  <2> HIDE DEF step
  <2>4. QED  BY <1>5, <2>1, <2>2, <2>3
<1>7. QED  BY <1>1, <1>2, <1>3, <1>6 DEF s

\* After its first action an intent has at most one approval.
LEMMA CountOfTwo ==
    ASSUME NEW intent, NEW a, NEW b, intent.actions = <<a, b>>, NEW route, NEW known
    PROVE  LET count == ApprovedCount(intent, route, known) IN
           count[0] = 0 /\ count[1] \in 0..1
<1> DEFINE passes(n) == FilterAction(intent.actions[n], route, known) = "Approved"
           step(g) == [n \in 0..Len(intent.actions) |->
                        IF n = 0 THEN 0
                        ELSE IF g[n - 1] < MaxActions /\ passes(n) THEN g[n - 1] + 1
                        ELSE g[n - 1]]
           one == IF 0 < MaxActions /\ passes(1) THEN 1 ELSE 0
           f == [n \in 0..2 |-> IF n = 0 THEN 0 ELSE IF n = 1 THEN one
                                ELSE IF one < MaxActions /\ passes(2) THEN one + 1 ELSE one]
           count == ApprovedCount(intent, route, known)
<1>1. Len(intent.actions) = 2
  OBVIOUS
<1>2. count = CHOOSE g : g = step(g)
  BY DEF ApprovedCount
<1> HIDE DEF passes
<1>3. f = step(f)
  <2>1. \A n \in 0..2 : n = 0 \/ n = 1 \/ n = 2
    OBVIOUS
  <2>2. one = IF 0 < MaxActions /\ passes(1) THEN 0 + 1 ELSE 0
    OBVIOUS
  <2> HIDE DEF one
  <2>3. /\ f[0] = 0 /\ f[1] = one
        /\ f[2] = IF one < MaxActions /\ passes(2) THEN one + 1 ELSE one
    OBVIOUS
  <2>4. step(f) = [n \in 0..2 |->
                    IF n = 0 THEN 0
                    ELSE IF f[n - 1] < MaxActions /\ passes(n) THEN f[n - 1] + 1
                    ELSE f[n - 1]]
    BY <1>1
  <2>5. /\ step(f)[0] = 0
        /\ step(f)[1] = IF f[0] < MaxActions /\ passes(1) THEN f[0] + 1 ELSE f[0]
        /\ step(f)[2] = IF f[1] < MaxActions /\ passes(2) THEN f[1] + 1 ELSE f[1]
    BY <2>4
  <2>6. \A n \in 0..2 : f[n] = step(f)[n]
    <3> HIDE DEF f, step
    <3>1. QED  BY <2>1, <2>2, <2>3, <2>5
  <2>7. QED  BY <2>4, <2>6
<1> HIDE DEF f, count
<1>4. count = step(count)
  <2> HIDE DEF step
  <2>1. QED  BY <1>2, <1>3, Zenon
<1>5. /\ count[0] = 0
      /\ count[1] = IF count[0] < MaxActions /\ passes(1) THEN count[0] + 1 ELSE count[0]
  BY <1>1, <1>4
<1>6. QED  BY <1>5 DEF count

\* An action the schema and the policy let through, on the route and in a
\* context of these packages.
Fine(a, route, known) ==
    /\ a.urgency # "Deferred" /\ a.type \in AllowedActions(route)
    /\ TargetAllowed(a, known)
    /\ a.type = "PreWarmProcess" => a.target[1] \notin {"none", "empty"}

\* An intent the policy has nothing against but, maybe, its confidence.
Suited(intent, route, known) ==
    /\ intent.risk = "Low" /\ intent.confidence \in Int
    /\ \/ \E a : intent.actions = <<a>> /\ Fine(a, route, known)
       \/ \E a, b : /\ intent.actions = <<a, b>>
                    /\ Fine(a, route, known) /\ Fine(b, route, known)

LEMMA SuitedIsApproved ==
    ASSUME MaxActions > 1, Blocked = {},
           NEW c, NEW route, NEW intents, NEW i \in DOMAIN intents,
           NEW n \in DOMAIN intents[i].actions, Suited(intents[i], route, KnownTargets(c))
    PROVE  /\ Settle(c, route, intents, <<i, n>>) \in {"Approved", "ConfidenceTooLow"}
           /\ intents[i].confidence >= ConfidenceFloor =>
                Settle(c, route, intents, <<i, n>>) = "Approved"
<1> DEFINE intent == Judged(intents[i])
           known == KnownTargets(c)
           acts == intents[i].actions
           verdict == Settle(c, route, intents, <<i, n>>)
           high == intents[i].confidence >= ConfidenceFloor
<1>1. /\ intent.actions = acts /\ intent.risk = intents[i].risk /\ (intent.confident <=> high)
      /\ intents[i].risk = "Low"
  BY DEF Judged, Suited
<1>2. verdict = IF ~SchemaValid(intent, intent.actions[n]) THEN "InvalidSchema"
                ELSE EvaluateAction(intent, n, route, known)
  BY DEF Settle, Evaluate
<1>3. /\ Fine(acts[n], route, known)
      /\ ~(ApprovedCount(intent, route, known)[n - 1] >= MaxActions)
  <2>1. CASE \E a : acts = <<a>> /\ Fine(a, route, known)
    <3>1. PICK a : acts = <<a>> /\ Fine(a, route, known)
      BY <2>1
    <3>2. n = 1 /\ acts[n] = a /\ n - 1 = 0
      BY <3>1
    <3> HIDE DEF intent, acts
    <3>3. ApprovedCount(intent, route, known)[0] = 0
      BY <1>1, <3>1, CountFromZero
    <3>4. QED  BY <3>1, <3>2, <3>3, PolicyAssumption
  <2>2. CASE \E a, b : acts = <<a, b>> /\ Fine(a, route, known) /\ Fine(b, route, known)
    <3>1. PICK a, b : acts = <<a, b>> /\ Fine(a, route, known) /\ Fine(b, route, known)
      BY <2>2
    <3>2. n \in {1, 2} /\ acts[n] \in {a, b} /\ n - 1 \in {0, 1}
      BY <3>1
    <3> HIDE DEF intent, acts
    <3>3. /\ ApprovedCount(intent, route, known)[0] = 0
          /\ ApprovedCount(intent, route, known)[1] \in 0..1
      BY <1>1, <3>1, CountOfTwo
    <3>4. QED  BY <3>1, <3>2, <3>3, PolicyAssumption
  <2>3. QED  BY <2>1, <2>2 DEF Suited
<1> HIDE DEF intent, known, acts, verdict, high
<1>4. SchemaValid(intent, acts[n])
  BY <1>1, <1>3 DEF SchemaValid, Fine
<1>5. FilterAction(acts[n], route, known) = "Approved"
  BY <1>3 DEF FilterAction, Fine
<1>6. /\ ~(RiskRank(intent.risk) > RiskRank(MaxRisk(route)))
      /\ ~(RiskRank(intent.risk) > RiskRank(MaxAutoRisk))
  BY <1>1, PolicyAssumption DEF RiskRank, MaxRisk
<1>7. EvaluateAction(intent, n, route, known) =
        IF ~intent.confident THEN "ConfidenceTooLow" ELSE "Approved"
  BY <1>1, <1>3, <1>5, <1>6 DEF EvaluateAction
<1>8. verdict = IF ~intent.confident THEN "ConfidenceTooLow" ELSE "Approved"
  BY <1>1, <1>2, <1>4, <1>7
<1>9. QED  BY <1>1, <1>8 DEF verdict, high

\* What the rules and the fallback suggest is suited, and confident enough.
LEMMA SoundIsSuited ==
    ASSUME NEW intent, NEW route, NEW known, Sound(intent, route, known)
    PROVE  Suited(intent, route, known) /\ intent.confidence >= ConfidenceFloor
<1>1. PICK a : /\ intent.actions = <<a>> /\ a.urgency # "Deferred"
               /\ a.type \in {"NoOp", "KeepAlive", "ReleaseMemory"}
               /\ a.type \in AllowedActions(route) /\ TargetAllowed(a, known)
  BY DEF Sound
<1>2. Fine(a, route, known)
  BY <1>1 DEF Fine
<1>3. QED  BY <1>1, <1>2 DEF Sound, Suited

\* sanitize: what the evaluator reads of a file, a status and a screen event.
LEMMA SanitizedShape ==
    ASSUME NEW event \in Ingestible
    PROVE  LET e == SanitizeWithTier(event) IN
           /\ e.type = "FileActivity" =>
                e.package = {} /\ ~e.hot /\ e.category \in DOMAIN FallbackUrl
           /\ e.type = "SystemStatus" =>
                /\ event.raw.kind = "SystemState"
                /\ e.battery = event.raw.battery /\ e.network = event.raw.network
           /\ e.type = "Screen" =>
                event.raw.kind = "ScreenState" /\ e.state = event.raw.state
<1> DEFINE raw == event.raw
           clean == Sanitize(raw)
           e == SanitizeWithTier(event)
<1>1. raw.kind \in {"AppTransition", "BinderTransaction", "ProcStateChange",
                    "FileSystemAccess", "NotificationPosted", "NotificationInteraction",
                    "ScreenState", "SystemState"}
  BY IngestibleShape DEF IsRawEvent, RawFields
<1>2. e = [clean EXCEPT !.tier = event.tier]
  BY DEF SanitizeWithTier
<1> HIDE DEF raw, e
<1>3. CASE raw.kind = "FileSystemAccess"
  <2>1. clean = SanitizeFs(raw)
    BY <1>3 DEF Sanitize
  <2>2. /\ e.type = "FileActivity" /\ e.package = {} /\ e.hot = FALSE
        /\ e.category = ClassifyExtension(raw.path)
    BY <1>2, <2>1 DEF SanitizeFs
  <2>3. ClassifyExtension(raw.path) \in DOMAIN FallbackUrl
    <3>1. DOMAIN FallbackUrl = {"Document", "Image", "Video", "Audio", "Archive", "Code",
                                "Other", "Unknown"}
      BY DEF FallbackUrl
    <3>2. \A x \in DOMAIN Extensions :
            Extensions[x] \in {"Document", "Image", "Video", "Audio", "Archive", "Code",
                               "Unknown"}
      BY DEF Extensions
    <3>3. QED  BY <3>1, <3>2 DEF ClassifyExtension
  <2>4. QED  BY <2>2, <2>3 DEF e, raw
<1>4. CASE raw.kind = "SystemState"
  <2>1. clean = SanitizeSystem(raw)
    BY <1>4 DEF Sanitize
  <2>2. e.type = "SystemStatus" /\ e.battery = raw.battery /\ e.network = raw.network
    BY <1>2, <2>1 DEF SanitizeSystem
  <2>3. QED  BY <1>4, <2>2 DEF e, raw
<1>5. CASE raw.kind = "ScreenState"
  <2>1. clean = SanitizeScreen(raw)
    BY <1>5 DEF Sanitize
  <2>2. e.type = "Screen" /\ e.state = raw.state
    BY <1>2, <2>1 DEF SanitizeScreen
  <2>3. QED  BY <1>5, <2>2 DEF e, raw
<1>6. CASE raw.kind \notin {"FileSystemAccess", "SystemState", "ScreenState"}
  <2>1. clean.type \in {"AppTransition", "InterAppInteraction", "ProcessResource",
                        "Notification"} /\ "type" \in DOMAIN clean
    BY <1>1, <1>6 DEF Sanitize, SanitizeAppTransition, SanitizeBinder, SanitizeProc,
        SanitizeNotification, SanitizeInteraction, Notification
  <2> HIDE DEF clean
  <2>2. e.type = clean.type
    BY <1>2, <2>1
  <2>3. QED  BY <2>1, <2>2 DEF e
<1>7. QED  BY <1>3, <1>4, <1>5, <1>6

\* apply_action_feedback takes at most 20 points for each action.
LEMMA PenaltyBounded ==
    ASSUME NEW input, NEW actions, NEW n \in Nat, DOMAIN actions = 1..n
    PROVE  FeedbackPenalty(input, actions) \in 0..(20 * n)
<1> DEFINE hits(keys) == Cardinality({i \in DOMAIN actions :
                                        FeedbackKey(actions[i]) \in keys})
<1>1. ASSUME NEW keys PROVE hits(keys) \in 0..n
  <2> DEFINE H == {i \in DOMAIN actions : FeedbackKey(actions[i]) \in keys}
  <2> DEFINE S == 1..n
  <2>1. IsFiniteSet(S) /\ Cardinality(S) = n
    BY FS_Interval
  <2>2. H \in SUBSET S
    OBVIOUS
  <2> HIDE DEF H, S
  <2>3. IsFiniteSet(H) /\ Cardinality(H) <= n
    BY <2>1, <2>2, FS_Subset
  <2>4. Cardinality(H) \in Nat
    BY <2>3, FS_CardinalityType
  <2>5. QED  BY <2>3, <2>4 DEF H
<1>2. FeedbackPenalty(input, actions) =
        12 * hits(RejectedKeys(input.feedback)) + 8 * hits(FailedKeys(input.feedback))
  BY DEF FeedbackPenalty
<1> HIDE DEF hits
<1>3. QED  BY <1>1, <1>2

\* No device penalty.
Calm(signals) ==
    ~signals.draining /\ ~signals.cellular /\ ~signals.offline /\ ~signals.screenOff

LEMMA WindowBounded ==
    ASSUME NEW points \in Int, NEW signals, NEW visible
    PROVE  /\ ApplyWindow(points, signals, visible) \in 0..99
           /\ \A k \in 0..99 : Calm(signals) /\ points >= k =>
                                    ApplyWindow(points, signals, visible) >= k
<1>1. /\ When(signals.draining, 18) \in {0, 18} /\ When(signals.cellular, 6) \in {0, 6}
      /\ When(signals.offline, 20) \in {0, 20}
      /\ When(signals.screenOff /\ visible, 12) \in {0, 12}
  BY DEF When
<1>2. Calm(signals) => /\ When(signals.draining, 18) = 0 /\ When(signals.cellular, 6) = 0
                       /\ When(signals.offline, 20) = 0
                       /\ When(signals.screenOff /\ visible, 12) = 0
  BY DEF When, Calm
<1>3. \A x \in Int : /\ Clamp(x, 0, 99) \in 0..99
                     /\ \A k \in 0..99 : x >= k => Clamp(x, 0, 99) >= k
  BY DEF Clamp
<1>4. QED  BY <1>1, <1>2, <1>3 DEF ApplyWindow

LEMMA BoostsAreNatural ==
    ASSUME NEW input, NEW package, NEW recent, NEW times, NEW at
    PROVE  /\ PackageBoost(input, package, recent) \in Nat
           /\ CorrelationBoost(times, at) \in Nat
<1>1. \A x \in Nat, y \in Nat : Capped(x, y) \in Nat
  BY DEF Capped
<1> DEFINE seen == When(PackageCount(input.context, package) >= 2, 4)
           now == When(recent, 3)
           shown == When(package \in input.profile.foreground, 3)
           notifying == When(package \in input.profile.notifying, 3)
<1>2. seen \in Nat /\ now \in Nat /\ shown \in Nat /\ notifying \in Nat
  BY DEF When
<1>3. PackageBoost(input, package, recent) \in Nat
  <2>1. PackageBoost(input, package, recent) =
            Capped(seen + now, 8) + Capped(shown + notifying, 5)
    BY DEF PackageBoost
  <2> HIDE DEF seen, now, shown, notifying
  <2>2. seen + now \in Nat /\ shown + notifying \in Nat /\ 8 \in Nat /\ 5 \in Nat
    BY <1>2
  <2>3. Capped(seen + now, 8) \in Nat /\ Capped(shown + notifying, 5) \in Nat
    BY <1>1, <2>2, Zenon
  <2>4. QED  BY <2>1, <2>3
<1>4. QED  BY <1>3 DEF CorrelationBoost

\* The actions of the candidates for a type and a subject.
ActionsFor(type, subject) ==
    CASE type = "HandleFile" ->
            <<Action("PrefetchFile", DefaultPrefetchTarget(subject, {}), "IdleTime")>>
      [] type = "OpenApp" -> <<Action("PreWarmProcess", <<"pkg", subject>>, "Immediate")>>
      [] type = "SwitchToApp" -> <<Action("PreWarmProcess", <<"pkg", subject>>, "Immediate"),
                                   Heartbeat("Immediate")>>
      [] type = "EnterContext" ->
            <<Action("PreWarmProcess", <<"own", "resources">>, "Immediate")>>
      [] type = "Idle" -> <<TrimCache>>
CandidateTypes == {"HandleFile", "OpenApp", "SwitchToApp", "EnterContext", "Idle"}

\* What is known of a candidate of a window that names these packages.
IsCandidate(c, known) ==
    /\ c.type \in CandidateTypes /\ c.subject \in Subjects
    /\ c.confidence \in Int /\ c.confidence <= 99
    /\ c = Intent(c.type, c.subject, c.confidence, ActionsFor(c.type, c.subject))
    /\ c.type \in {"OpenApp", "SwitchToApp"} => c.subject \in known

\* The arms of the match, one by one.
LEMMA CandidateOfEvent ==
    ASSUME NEW input, NEW signals, NEW event \in Ingestible,
           NEW c \in CandidatesOf(input, signals, SanitizeWithTier(event))
    PROVE  /\ IsCandidate(c, RawPackages(event.raw))
           /\ Calm(signals) => c.confidence >= ConfidenceFloor
<1> DEFINE e == SanitizeWithTier(event)
           known == RawPackages(event.raw)
           p == Some(e.package)
           good(d) == IsCandidate(d, known) /\ (Calm(signals) => d.confidence >= ConfidenceFloor)
<1>1. e.package = known /\ HasPackage(e)
  BY PackagesKept
<1>2. e.type = "FileActivity" => e.package = {} /\ ~e.hot /\ e.category \in DOMAIN FallbackUrl
  BY SanitizedShape
<1>3. \A x \in known : x \in Subjects
  <2>1. event.raw \in RawEvents
    BY DEF Ingestible
  <2>2. QED  BY <2>1 DEF Subjects
<1>4. known # {} => p \in known
  <2>1. known # {} => (CHOOSE x \in known : TRUE) \in known
    BY Zenon
  <2>2. QED  BY <1>1, <2>1 DEF Some
<1>5. c \in CandidatesOf(input, signals, e)
  OBVIOUS
<1> SUFFICES good(c)
  OBVIOUS
<1> HIDE DEF e, known, p
<1>6. ASSUME NEW type \in CandidateTypes, NEW subject \in Subjects, NEW points \in Int,
             NEW visible, NEW n \in {1, 2}, NEW d,
             type \in {"OpenApp", "SwitchToApp"} => subject \in known,
             points >= ConfidenceFloor + 20 * n, DOMAIN ActionsFor(type, subject) = 1..n,
             d = Candidate(input, type, subject, ApplyWindow(points, signals, visible),
                           ActionsFor(type, subject))
      PROVE  good(d)
  <2> DEFINE score == ApplyWindow(points, signals, visible)
             acts == ActionsFor(type, subject)
  <2>1. score \in 0..99
    BY WindowBounded
  <2>2. Calm(signals) => score >= ConfidenceFloor + 20 * n
    <3>1. ConfidenceFloor + 20 * n \in 0..99
      BY DEF ConfidenceFloor
    <3>2. QED  BY <1>6, <3>1, WindowBounded
  <2>3. d = Candidate(input, type, subject, score, acts) /\ DOMAIN acts = 1..n
    BY <1>6
  <2> HIDE DEF score, acts
  <2> DEFINE penalty == FeedbackPenalty(input, acts)
             x == score - penalty
  <2>4. /\ d = Intent(type, subject, x, acts)
        /\ x \in Int /\ x <= 99 /\ x >= score - 20 * n
    <3>1. n \in Nat
      OBVIOUS
    <3>2. penalty \in 0..(20 * n)
      BY <2>3, <3>1, PenaltyBounded
    <3>3. d = Intent(type, subject, x, acts)
      BY <2>3 DEF Candidate
    <3> HIDE DEF penalty
    <3>4. QED  BY <2>1, <3>2, <3>3
  <2> HIDE DEF x
  <2>5. d.type = type /\ d.subject = subject /\ d.confidence = x
    BY <2>4 DEF Intent
  <2>6. IsCandidate(d, known)
    BY <1>6, <2>4, <2>5 DEF IsCandidate, acts
  <2>7. Calm(signals) => x >= ConfidenceFloor
    BY <2>1, <2>2, <2>4 DEF ConfidenceFloor
  <2>8. QED  BY <2>5, <2>6, <2>7
<1> HIDE DEF good
<1>7. CASE e.type = "FileActivity"
  <2> DEFINE points == When(e.hot, 86) + When(~e.hot, 72) + 0
  <2>1. c = FileCandidate(input, signals, e)
    BY <1>5, <1>7 DEF CandidatesOf
  <2>2. points = 72
    BY <1>2, <1>7 DEF When
  <2>3. c = Candidate(input, "HandleFile", e.category, ApplyWindow(points, signals, FALSE),
                      ActionsFor("HandleFile", e.category))
    BY <1>2, <1>7, <2>1 DEF FileCandidate, ActionsFor
  <2>4. DOMAIN ActionsFor("HandleFile", e.category) = 1..1
    BY DEF ActionsFor
  <2>5. /\ e.category \in Subjects /\ "HandleFile" \in CandidateTypes
        /\ "HandleFile" \notin {"OpenApp", "SwitchToApp"} /\ 1 \in {1, 2}
    BY <1>2, <1>7 DEF Subjects, CandidateTypes
  <2> HIDE DEF points
  <2>6. points \in Int /\ points >= ConfidenceFloor + 20 * 1
    BY <2>2 DEF ConfidenceFloor
  <2>7. QED  BY <1>6, <2>3, <2>4, <2>5, <2>6, Zenon
<1>8. CASE e.type = "Notification" /\ c = NotificationCandidate(input, signals, e)
  <2> DEFINE base == When(e.ongoing, 66) + When(~e.ongoing, 74)
             shown == When(Contains(input.context.summary.foreground, p), 8)
             link == When(Contains(e.hints, "LinkAttachment"), 3)
             boost == PackageBoost(input, p, FALSE)
             near == CorrelationBoost(TimesOf(input.context, "FileActivity", p), e.at)
             points == base + shown + link + boost + near
  <2>1. p \in known /\ p \in Subjects
    BY <1>1, <1>3, <1>4, <1>8 DEF HasPackage
  <2>2. base \in {66, 74} /\ shown \in Nat /\ link \in Nat
    BY DEF When
  <2>3. boost \in Nat /\ near \in Nat
    BY BoostsAreNatural
  <2>4. c = Candidate(input, "OpenApp", p, ApplyWindow(points, signals, TRUE),
                      ActionsFor("OpenApp", p))
    BY <1>8 DEF NotificationCandidate, ActionsFor, p
  <2>5. DOMAIN ActionsFor("OpenApp", p) = 1..1
    BY DEF ActionsFor
  <2> HIDE DEF base, shown, link, boost, near
  <2>6. points \in Int /\ points >= ConfidenceFloor + 20 * 1
    BY <2>2, <2>3 DEF ConfidenceFloor
  <2> HIDE DEF points
  <2>7. "OpenApp" \in CandidateTypes /\ 1 \in {1, 2}
    BY DEF CandidateTypes
  <2>8. QED  BY <1>6, <2>1, <2>4, <2>5, <2>6, <2>7, Zenon
<1>9. CASE IsForeground(e) /\ c = ForegroundCandidate(input, signals, e)
  <2> DEFINE boost == PackageBoost(input, p, p \in RecentForeground(input.context))
             points == 78 + 4 + boost
  <2>1. p \in known /\ p \in Subjects
    BY <1>1, <1>3, <1>4, <1>9 DEF HasPackage, InForeground, IsForeground
  <2>2. boost \in Nat
    BY BoostsAreNatural
  <2>3. c = Candidate(input, "SwitchToApp", p, ApplyWindow(points, signals, TRUE),
                      ActionsFor("SwitchToApp", p))
    BY <1>9 DEF ForegroundCandidate, ActionsFor, p
  <2>4. DOMAIN ActionsFor("SwitchToApp", p) = 1..2
    BY DEF ActionsFor
  <2> HIDE DEF boost
  <2>5. points \in Int /\ points >= ConfidenceFloor + 20 * 2
    BY <2>2 DEF ConfidenceFloor
  <2> HIDE DEF points
  <2>6. "SwitchToApp" \in CandidateTypes /\ 2 \in {1, 2}
    BY DEF CandidateTypes
  <2>7. QED  BY <1>6, <2>1, <2>3, <2>4, <2>5, <2>6, Zenon
<1>10. CASE c = InterAppCandidate(input, signals)
  <2>1. c = Candidate(input, "EnterContext", "inter_app_interaction",
                      ApplyWindow(80, signals, FALSE),
                      ActionsFor("EnterContext", "inter_app_interaction"))
    BY <1>10 DEF InterAppCandidate, ActionsFor
  <2>2. DOMAIN ActionsFor("EnterContext", "inter_app_interaction") = 1..1
    BY DEF ActionsFor
  <2>3. /\ "inter_app_interaction" \in Subjects /\ "EnterContext" \in CandidateTypes
        /\ "EnterContext" \notin {"OpenApp", "SwitchToApp"} /\ 1 \in {1, 2} /\ 80 \in Int
    BY DEF Subjects, CandidateTypes
  <2>4. 80 >= ConfidenceFloor + 20 * 1
    BY DEF ConfidenceFloor
  <2>5. QED  BY <1>6, <2>1, <2>2, <2>3, <2>4, Zenon
<1>11. \/ e.type = "FileActivity"
       \/ e.type = "Notification" /\ c = NotificationCandidate(input, signals, e)
       \/ IsForeground(e) /\ c = ForegroundCandidate(input, signals, e)
       \/ c = InterAppCandidate(input, signals)
  BY <1>5 DEF CandidatesOf, IsForeground
<1>12. QED  BY <1>7, <1>8, <1>9, <1>10, <1>11, Zenon

\* The events of the window are the sanitized ones.
LEMMA EventOfWindow ==
    ASSUME FlowInv, NEW e \in ToSet(events)
    PROVE  \E i \in DOMAIN ingested :
                ingested[i] \in Ingestible /\ e = SanitizeWithTier(ingested[i])
<1>1. /\ ingested \in Seq(Ingestible) /\ DOMAIN ingested = 1..Len(ingested)
      /\ DOMAIN events = 1..Len(ingested)
      /\ \A i \in 1..Len(ingested) : events[i] = SanitizeWithTier(ingested[i])
  BY LenProperties DEF FlowInv
<1>2. PICK i \in DOMAIN events : e = events[i]
  BY DEF ToSet
<1>3. ingested[i] \in Ingestible
  BY <1>1, ElementOfSeq
<1>4. QED  BY <1>1, <1>2, <1>3

\* Every candidate of the evaluator, for any memory.
LEMMA CandidateOfWindow ==
    ASSUME FlowInv, NEW input, input.context.events = events, NEW signals,
           NEW c \in Candidates(input, signals)
    PROVE  /\ IsCandidate(c, Named)
           /\ Calm(signals) => c.confidence >= ConfidenceFloor
<1>1. CASE \E e \in ToSet(events) : c \in CandidatesOf(input, signals, e)
  <2>1. PICK e \in ToSet(events) : c \in CandidatesOf(input, signals, e)
    BY <1>1
  <2>2. PICK i \in DOMAIN ingested :
            ingested[i] \in Ingestible /\ e = SanitizeWithTier(ingested[i])
    BY EventOfWindow
  <2>3. /\ IsCandidate(c, RawPackages(ingested[i].raw))
        /\ Calm(signals) => c.confidence >= ConfidenceFloor
    BY <2>1, <2>2, CandidateOfEvent
  <2>4. RawPackages(ingested[i].raw) \subseteq Named
    BY DEF Named
  <2>5. QED  BY <2>3, <2>4 DEF IsCandidate
<1>2. CASE signals.draining /\ c = Candidate(input, "Idle", "", 84, <<TrimCache>>)
  <2> DEFINE acts == <<TrimCache>>
             penalty == FeedbackPenalty(input, acts)
             x == 84 - penalty
  <2>1. penalty \in 0..(20 * 1)
    <3>1. DOMAIN acts = 1..1 /\ 1 \in Nat
      OBVIOUS
    <3> HIDE DEF acts
    <3>2. QED  BY <3>1, PenaltyBounded
  <2>2. c = Intent("Idle", "", x, acts)
    BY <1>2 DEF Candidate
  <2>3. acts = ActionsFor("Idle", "")
    BY DEF ActionsFor
  <2>4. "Idle" \in CandidateTypes /\ "" \in Subjects
    BY DEF CandidateTypes, Subjects
  <2> HIDE DEF acts, penalty
  <2>5. x \in Int /\ x <= 99
    BY <2>1
  <2> HIDE DEF x
  <2>6. c.type = "Idle" /\ c.subject = "" /\ c.confidence = x
    BY <2>2 DEF Intent
  <2>7. QED  BY <1>2, <2>2, <2>3, <2>4, <2>5, <2>6 DEF IsCandidate, Calm
<1>3. \/ \E e \in ToSet(events) : c \in CandidatesOf(input, signals, e)
      \/ signals.draining /\ c = Candidate(input, "Idle", "", 84, <<TrimCache>>)
  BY DEF Candidates
<1>4. QED  BY <1>1, <1>2, <1>3

\* Seen from the raw events: a window without device penalties.
LEMMA UnconstrainedIsCalm ==
    ASSUME FlowInv, Unconstrained, NEW c, c.events = events
    PROVE  Calm(WindowSignals(c))
<1> DEFINE signals == WindowSignals(c)
<1>1. ASSUME NEW e \in EventsOf(c, "SystemStatus")
      PROVE  ~LowBattery(e.battery) /\ e.network \notin {"Cellular", "Offline"}
  <2>1. e \in ToSet(events) /\ e.type = "SystemStatus"
    BY DEF EventsOf
  <2>2. PICK i \in DOMAIN ingested :
            ingested[i] \in Ingestible /\ e = SanitizeWithTier(ingested[i])
    BY <2>1, EventOfWindow
  <2> DEFINE raw == ingested[i].raw
  <2>3. raw.kind = "SystemState" /\ e.battery = raw.battery /\ e.network = raw.network
    BY <2>1, <2>2, SanitizedShape
  <2>4. IsRawEvent(raw)
    BY <2>2, IngestibleShape
  <2>5. raw.battery \subseteq 0..255
    BY <2>3, <2>4 DEF IsRawEvent
  <2>6. raw.network \notin {"Cellular", "Offline"} /\ \A pct \in raw.battery : pct >= 20
    BY <2>3 DEF Unconstrained
  <2> HIDE DEF raw
  <2>7. QED  BY <2>3, <2>5, <2>6 DEF LowBattery
<1>2. ASSUME NEW e \in EventsOf(c, "Screen")
      PROVE  e.state = "Interactive"
  <2>1. e \in ToSet(events) /\ e.type = "Screen"
    BY DEF EventsOf
  <2>2. PICK i \in DOMAIN ingested :
            ingested[i] \in Ingestible /\ e = SanitizeWithTier(ingested[i])
    BY <2>1, EventOfWindow
  <2>3. ingested[i].raw.kind = "ScreenState" /\ e.state = ingested[i].raw.state
    BY <2>1, <2>2, SanitizedShape
  <2>4. QED  BY <2>3 DEF Unconstrained
<1>3. ~signals.draining /\ ~signals.cellular /\ ~signals.offline /\ ~signals.screenOff
  BY <1>1, <1>2 DEF WindowSignals
<1>4. QED  BY <1>3 DEF Calm

\* What is left of a candidate suits the evaluator's capability and the window.
LEMMA AdmissibleShape ==
    ASSUME NEW candidates, NEW signals, NEW known, NEW c \in Admissible(candidates, signals),
           \A d \in candidates : IsCandidate(d, known)
    PROVE  /\ Suited(c, "LocalEvaluator", known)
           /\ c.type \in CandidateTypes /\ c.subject \in Subjects /\ c.confidence <= 99
           /\ c = Intent(c.type, c.subject, c.confidence,
                         Retained(ActionsFor(c.type, c.subject), signals))
           /\ \E d \in candidates : d.confidence = c.confidence
<1>1. PICK d \in candidates :
        c = [d EXCEPT !.actions = Retained(@, signals)] /\ c.actions # <<>>
  BY DEF Admissible
<1> DEFINE acts == ActionsFor(d.type, d.subject)
           left == Retained(acts, signals)
<1>2. /\ d.type \in CandidateTypes /\ d.subject \in Subjects
      /\ d.confidence \in Int /\ d.confidence <= 99
      /\ d = Intent(d.type, d.subject, d.confidence, acts)
      /\ d.type \in {"OpenApp", "SwitchToApp"} => d.subject \in known
  BY DEF IsCandidate
<1>3. /\ c.type = d.type /\ c.subject = d.subject /\ c.confidence = d.confidence
      /\ c.actions = left /\ c.risk = "Low"
      /\ c = Intent(d.type, d.subject, d.confidence, left)
  <2> HIDE DEF acts
  <2>1. d.actions = acts
    BY <1>2 DEF Intent
  <2>2. c = [d EXCEPT !.actions = left]
    BY <1>1, <2>1
  <2> HIDE DEF left
  <2>3. QED  BY <1>2, <2>2 DEF Intent
<1>4. \/ \E a : left = <<a>> /\ Fine(a, "LocalEvaluator", known)
      \/ \E a, b : left = <<a, b>> /\ Fine(a, "LocalEvaluator", known)
                   /\ Fine(b, "LocalEvaluator", known)
  <2> DEFINE fine(a) == Fine(a, "LocalEvaluator", known)
  <2>1. ASSUME NEW a, acts = <<a>>, fine(a)
        PROVE  left = <<a>>
    BY <1>1, <1>3, <2>1, RetainedOne
  <2>2. ASSUME NEW a, NEW b, acts = <<a, b>>, fine(a), fine(b)
        PROVE  \/ left = <<a, b>>
               \/ left = <<a>>
               \/ left = <<b>>
    <3>1. Retained(<<a, b>>, signals) \in {<<a, b>>, <<a>>, <<b>>, <<>>}
      BY RetainedTwo
    <3>2. QED  BY <1>1, <1>3, <2>2, <3>1
  <2>3. AllowedActions("LocalEvaluator") = ActionTypes
    BY DEF AllowedActions
  <2>4. CASE d.type = "HandleFile"
    <3> DEFINE a == Action("PrefetchFile", DefaultPrefetchTarget(d.subject, {}), "IdleTime")
    <3>1. acts = <<a>>
      BY <2>4 DEF ActionsFor
    <3>2. DefaultPrefetchTarget(d.subject, {})[1] = "url"
      BY DefaultIsUrl
    <3>3. fine(a)
      BY <2>3, <3>2 DEF Fine, Action, TargetAllowed, ActionTypes
    <3>4. QED  BY <2>1, <3>1, <3>3
  <2>5. CASE d.type \in {"OpenApp", "SwitchToApp"}
    <3> DEFINE a == Action("PreWarmProcess", <<"pkg", d.subject>>, "Immediate")
               b == Heartbeat("Immediate")
    <3>1. acts = <<a>> \/ acts = <<a, b>>
      BY <2>5 DEF ActionsFor
    <3>2. fine(a)
      BY <1>2, <2>3, <2>5 DEF Fine, Action, TargetAllowed, InContext, ActionTypes
    <3>3. fine(b)
      BY <2>3 DEF Fine, Heartbeat, Action, TargetAllowed, ActionTypes
    <3> HIDE DEF a, b, fine, left, acts
    <3>4. \/ \E x : left = <<x>> /\ fine(x)
          \/ \E x, y : left = <<x, y>> /\ fine(x) /\ fine(y)
      BY <2>1, <2>2, <3>1, <3>2, <3>3, Zenon
    <3>5. QED  BY <3>4 DEF fine
  <2>6. CASE d.type = "EnterContext"
    <3> DEFINE a == Action("PreWarmProcess", <<"own", "resources">>, "Immediate")
    <3>1. acts = <<a>>
      BY <2>6 DEF ActionsFor
    <3>2. fine(a)
      BY <2>3 DEF Fine, Action, TargetAllowed, ActionTypes
    <3>3. QED  BY <2>1, <3>1, <3>2
  <2>7. CASE d.type = "Idle"
    <3>1. acts = <<TrimCache>>
      BY <2>7 DEF ActionsFor
    <3>2. fine(TrimCache)
      BY <2>3 DEF Fine, TrimCache, Action, TargetAllowed, ActionTypes
    <3>3. QED  BY <2>1, <3>1, <3>2
  <2>8. QED  BY <1>2, <2>4, <2>5, <2>6, <2>7 DEF CandidateTypes
<1> HIDE DEF left
<1>5. Suited(c, "LocalEvaluator", known)
  BY <1>2, <1>3, <1>4 DEF Suited
<1>6. QED  BY <1>2, <1>3, <1>5 DEF left, acts

-----------------------------------------------------------------------------
(***************************************************************************)
(* The local evaluator: the order of the batch.                            *)
(***************************************************************************)

LEMMA ImageFinite ==
    ASSUME NEW S, IsFiniteSet(S), NEW f, f = [x \in S |-> f[x]]
    PROVE  IsFiniteSet({f[x] : x \in S})
<1> DEFINE T == {f[x] : x \in S}
<1>1. f \in Surjection(S, T)
  BY DEF Surjection
<1> HIDE DEF T
<1>2. IsFiniteSet(T)
  BY <1>1, FS_Surjection
<1>3. QED  BY <1>2 DEF T

\* A window has finitely many candidates.
LEMMA CandidatesFinite ==
    ASSUME FlowInv, NEW input, input.context.events = events, NEW signals
    PROVE  IsFiniteSet(Admissible(Candidates(input, signals), signals))
<1> DEFINE n == Len(events)
           I == DOMAIN events
           f == [i \in I |-> CandidatesOf(input, signals, events[i])]
           F == {f[i] : i \in I}
           idle == IF signals.draining THEN {Candidate(input, "Idle", "", 84, <<TrimCache>>)}
                   ELSE {}
           C == Candidates(input, signals)
           g == [c \in C |-> [c EXCEPT !.actions = Retained(@, signals)]]
           G == {g[c] : c \in C}
<1>1. IsFiniteSet(I)
  <2>1. I = 1..n /\ n \in Nat
    BY LenProperties DEF FlowInv
  <2>2. QED  BY <2>1, FS_Interval
<1>2. IsFiniteSet(F)
  <2>1. f = [i \in I |-> f[i]]
    OBVIOUS
  <2> HIDE DEF f, I
  <2>2. QED  BY <1>1, <2>1, ImageFinite
<1>3. ASSUME NEW T \in F PROVE IsFiniteSet(T)
  <2>1. PICK i \in I : T = CandidatesOf(input, signals, events[i])
    OBVIOUS
  <2>2. T = {} \/ \E c : T = {c}
    BY <2>1 DEF CandidatesOf
  <2>3. QED  BY <2>2, FS_EmptySet, FS_Singleton
<1>4. IsFiniteSet(idle)
  BY FS_EmptySet, FS_Singleton
<1>5. C = (UNION F) \cup idle
  <2>1. UNION F = UNION {CandidatesOf(input, signals, e) : e \in ToSet(events)}
    <3>1. F = {CandidatesOf(input, signals, e) : e \in ToSet(events)}
      BY DEF ToSet
    <3>2. QED  BY <3>1, Zenon
  <2> HIDE DEF F
  <2>2. QED  BY <2>1 DEF Candidates
<1> HIDE DEF f, F, idle, C
<1>6. IsFiniteSet(UNION F)
  BY <1>2, <1>3, FS_UNION
<1>7. IsFiniteSet(C)
  BY <1>4, <1>5, <1>6, FS_Union
<1>8. IsFiniteSet(G)
  <2>1. g = [c \in C |-> g[c]]
    OBVIOUS
  <2> HIDE DEF g
  <2>2. QED  BY <1>7, <2>1, ImageFinite
<1>9. Admissible(C, signals) \in SUBSET G
  BY DEF Admissible
<1>10. QED
  <2> HIDE DEF G
  <2>1. IsFiniteSet(Admissible(C, signals))
    BY <1>8, <1>9, FS_Subset
  <2>2. QED  BY <2>1 DEF C

\* RankedBefore is a strict total order on the set.
Ordered(S) ==
    /\ \A c \in S : ~RankedBefore(c, c)
    /\ \A c, d, e \in S : RankedBefore(c, d) /\ RankedBefore(d, e) => RankedBefore(c, e)
    /\ \A c, d \in S : c # d => RankedBefore(c, d) \/ RankedBefore(d, c)

\* Sorting: each place is taken, by one candidate, in the order.
LEMMA PlacesTaken ==
    ASSUME NEW S, IsFiniteSet(S), Ordered(S)
    PROVE  /\ \A c \in S : Place(c, S) \in 1..Cardinality(S)
           /\ \A c, d \in S : RankedBefore(c, d) => Place(c, S) < Place(d, S)
           /\ \A k \in 1..Cardinality(S) : \E c \in S : Place(c, S) = k
<1> DEFINE n == Cardinality(S)
           before(c) == {d \in S : RankedBefore(d, c)}
<1>1. n \in Nat
  BY FS_CardinalityType
<1>2. \A c : Place(c, S) = Cardinality(before(c)) + 1
  BY DEF Place
<1>3. ASSUME NEW c, NEW T \in SUBSET S, before(c) \subseteq T
      PROVE  /\ IsFiniteSet(T) /\ Cardinality(before(c)) \in Nat /\ Cardinality(T) \in Nat
             /\ Cardinality(before(c)) <= Cardinality(T)
  <2>1. IsFiniteSet(T)
    BY FS_Subset
  <2>2. before(c) \in SUBSET T
    BY <1>3
  <2> HIDE DEF before
  <2>3. IsFiniteSet(before(c)) /\ Cardinality(before(c)) <= Cardinality(T)
    BY <2>1, <2>2, FS_Subset
  <2>4. QED  BY <2>1, <2>3, FS_CardinalityType
<1>4. ASSUME NEW c \in S PROVE Place(c, S) \in 1..n
  <2>1. before(c) \subseteq S \ {c}
    BY DEF Ordered
  <2>2. Cardinality(S \ {c}) = n - 1
    BY FS_RemoveElement
  <2>3. S \ {c} \in SUBSET S
    OBVIOUS
  <2> DEFINE T == S \ {c}
  <2> HIDE DEF T, before, n
  <2>4. Cardinality(before(c)) \in Nat /\ Cardinality(before(c)) <= Cardinality(T)
    BY <1>3, <2>1, <2>3 DEF T
  <2>5. Cardinality(T) = n - 1
    BY <2>2 DEF T
  <2>6. QED  BY <1>1, <1>2, <2>4, <2>5
<1>5. ASSUME NEW c \in S, NEW d \in S, RankedBefore(c, d)
      PROVE  Place(c, S) < Place(d, S)
  <2> DEFINE T == before(d) \ {c}
  <2>1. before(c) \subseteq T /\ T \in SUBSET S /\ c \in before(d) /\ before(d) \in SUBSET S
    BY <1>5 DEF Ordered
  <2>2. IsFiniteSet(before(d)) /\ Cardinality(before(d)) \in Nat
    BY <2>1, FS_Subset, FS_CardinalityType
  <2> HIDE DEF before
  <2>3. Cardinality(T) = Cardinality(before(d)) - 1
    BY <2>1, <2>2, FS_RemoveElement
  <2> HIDE DEF T
  <2>4. Cardinality(before(c)) \in Nat /\ Cardinality(before(c)) <= Cardinality(T)
    BY <1>3, <2>1
  <2>5. QED  BY <1>2, <2>2, <2>3, <2>4
<1>6. ASSUME NEW k \in 1..n PROVE \E c \in S : Place(c, S) = k
  <2> DEFINE I == 1..n
             f == [c \in S |-> Place(c, S)]
  <2>1. f \in Injection(S, I)
    <3>1. f \in [S -> I]
      BY <1>4
    <3>2. ASSUME NEW c \in S, NEW d \in S, f[c] = f[d] PROVE c = d
      <4>1. Place(c, S) = Place(d, S) /\ Place(c, S) \in Int
        BY <1>4, <3>2
      <4>2. ~RankedBefore(c, d) /\ ~RankedBefore(d, c)
        BY <1>5, <4>1
      <4>3. QED  BY <4>2 DEF Ordered
    <3> HIDE DEF f, I
    <3>3. QED  BY <3>1, <3>2 DEF Injection, IsInjective
  <2>2. IsFiniteSet(I) /\ Cardinality(I) = n
    BY <1>1, FS_Interval
  <2>3. f \in Surjection(S, I)
    <3> HIDE DEF f, I
    <3>1. QED  BY <2>1, <2>2, FS_Injection
  <2>4. PICK c \in S : f[c] = k
    <3>1. k \in I
      BY <1>6
    <3> HIDE DEF f, I
    <3>2. QED  BY <2>3, <3>1 DEF Surjection
  <2>5. QED  BY <2>4
<1>7. QED  BY <1>4, <1>5, <1>6

\* sort and truncate: the first candidates in their order, and who is left out
\* is behind all of a full batch.
LEMMA BestRanked ==
    ASSUME NEW S, IsFiniteSet(S), Ordered(S), NEW n \in Nat \ {0}
    PROVE  LET b == BestOf(S, n)
               m == Capped(Cardinality(S), n)
           IN  /\ m \in Nat /\ m <= n /\ (m = 0 <=> S = {})
               /\ b = [k \in 1..m |-> b[k]] /\ \A k \in 1..m : b[k] \in S
               /\ \A j, k \in 1..m : j < k => RankedBefore(b[j], b[k])
               /\ \A c \in S : \/ \E k \in 1..m : b[k] = c
                               \/ m = n /\ \A k \in 1..m : RankedBefore(b[k], c)
<1> DEFINE b == BestOf(S, n)
           size == Cardinality(S)
           m == Capped(size, n)
           at(c) == Place(c, S)
<1>1. size \in Nat /\ (size = 0 <=> S = {})
  BY FS_CardinalityType, FS_EmptySet
<1>2. /\ \A c \in S : at(c) \in 1..size
      /\ \A c, d \in S : RankedBefore(c, d) => at(c) < at(d)
      /\ \A k \in 1..size : \E c \in S : at(c) = k
  BY PlacesTaken
<1>3. b = [k \in 1..m |-> CHOOSE c \in S : at(c) = k]
  BY DEF BestOf
<1> HIDE DEF size, at, b
<1>4. m \in Nat /\ m <= n /\ m <= size /\ (m = 0 <=> size = 0) /\ (m = n \/ m = size)
  BY <1>1 DEF Capped
<1> HIDE DEF m
<1>5. ASSUME NEW k \in 1..m PROVE b[k] \in S /\ at(b[k]) = k
  <2>1. k \in 1..size
    BY <1>1, <1>4
  <2>2. \E c \in S : at(c) = k
    BY <1>2, <2>1
  <2>3. (CHOOSE c \in S : at(c) = k) \in S /\ at(CHOOSE c \in S : at(c) = k) = k
    BY <2>2, Zenon
  <2>4. QED  BY <1>3, <2>3
<1>6. ASSUME NEW c \in S, NEW d \in S, at(c) < at(d) PROVE RankedBefore(c, d)
  <2>1. at(c) \in Int /\ at(d) \in Int
    BY <1>1, <1>2
  <2>2. c # d /\ ~(at(d) < at(c))
    BY <1>6, <2>1
  <2>3. QED  BY <1>2, <2>2 DEF Ordered
<1>7. ASSUME NEW j \in 1..m, NEW k \in 1..m, j < k PROVE RankedBefore(b[j], b[k])
  BY <1>5, <1>6, <1>7
<1>8. ASSUME NEW c \in S
      PROVE  \/ \E k \in 1..m : b[k] = c
             \/ m = n /\ \A k \in 1..m : RankedBefore(b[k], c)
  <2>1. at(c) \in 1..size
    BY <1>2
  <2>2. CASE at(c) <= m
    <3>1. at(c) \in 1..m
      BY <1>1, <1>4, <2>1, <2>2
    <3>2. b[at(c)] \in S /\ at(b[at(c)]) = at(c)
      BY <1>5, <3>1
    <3>3. ~RankedBefore(b[at(c)], c) /\ ~RankedBefore(c, b[at(c)])
      BY <1>1, <1>2, <2>1, <3>2
    <3>4. b[at(c)] = c
      BY <3>2, <3>3 DEF Ordered
    <3>5. QED  BY <3>1, <3>4
  <2>3. CASE ~(at(c) <= m)
    <3>1. m = n /\ \A k \in 1..m : k < at(c)
      BY <1>1, <1>4, <2>1, <2>3
    <3>2. QED  BY <1>5, <1>6, <3>1
  <2>4. QED  BY <2>2, <2>3
<1>9. b = [k \in 1..m |-> b[k]]
  BY <1>3
<1>10. QED  BY <1>1, <1>4, <1>5, <1>7, <1>8, <1>9 DEF b, m, size

\* What finalize_candidates sorts.
Listed(A, signals) ==
    \A c \in A :
        /\ c.type \in CandidateTypes /\ c.subject \in Subjects
        /\ c.confidence \in Int /\ c.confidence <= 99
        /\ c = Intent(c.type, c.subject, c.confidence,
                      Retained(ActionsFor(c.type, c.subject), signals))

\* Candidates of one type and subject have one key, and the best of them stays.
LEMMA DedupedKeeps ==
    ASSUME NEW A, NEW signals, Listed(A, signals)
    PROVE  /\ \A c, d \in Deduped(A) : c.type = d.type /\ c.subject = d.subject => c = d
           /\ \A c \in A : \E d \in Deduped(A) :
                d.type = c.type /\ d.subject = c.subject /\ d.confidence >= c.confidence
<1> DEFINE same(c, d) == c.type = d.type /\ c.subject = d.subject
           key(c) == CandidateKey(c)
<1>1. ASSUME NEW c \in A, NEW d \in A PROVE key(d) = key(c) <=> same(c, d)
  <2>1. ASSUME same(c, d) PROVE key(d) = key(c)
    <3> DEFINE acts == Retained(ActionsFor(c.type, c.subject), signals)
    <3>1. c = Intent(c.type, c.subject, c.confidence, acts)
      BY DEF Listed
    <3>2. d = Intent(d.type, d.subject, d.confidence, acts)
      BY <2>1 DEF Listed
    <3> HIDE DEF acts
    <3>3. c.actions = acts /\ d.actions = acts
      BY <3>1, <3>2 DEF Intent
    <3>4. QED  BY <2>1, <3>3 DEF CandidateKey
  <2>2. ASSUME key(d) = key(c) PROVE same(c, d)
    BY <2>2 DEF CandidateKey
  <2>3. QED  BY <2>1, <2>2
<1> HIDE DEF key
<1>2. Deduped(A) = {c \in A : \A d \in A : key(d) = key(c) => c.confidence >= d.confidence}
  BY DEF Deduped, key
<1>3. ASSUME NEW c \in Deduped(A), NEW d \in Deduped(A), same(c, d) PROVE c = d
  <2>1. c \in A /\ d \in A /\ key(c) = key(d)
    BY <1>1, <1>2, <1>3
  <2>2. c.confidence >= d.confidence /\ d.confidence >= c.confidence
    BY <1>2, <2>1
  <2>3. c.confidence \in Int /\ d.confidence \in Int
    BY <2>1 DEF Listed
  <2>4. c.confidence = d.confidence
    BY <2>2, <2>3
  <2>5. QED  BY <1>3, <2>1, <2>4 DEF Listed
<1>4. ASSUME NEW c \in A
      PROVE  \E d \in Deduped(A) : same(d, c) /\ d.confidence >= c.confidence
  <2> DEFINE like == {d \in A : same(d, c)}
             T == {99 - d.confidence : d \in like}
  <2>1. \A d \in like : d.confidence \in Int /\ d.confidence <= 99
    BY DEF Listed
  <2>2. T \in SUBSET Nat
    BY <2>1
  <2>3. c \in like
    OBVIOUS
  <2>4. T # {}
    BY <2>3
  <2>5. PICK x \in T : \A y \in T : x <= y
    <3> HIDE DEF T
    <3>1. QED  BY <2>2, <2>4, LeastNatural
  <2>6. PICK d \in like : x = 99 - d.confidence
    OBVIOUS
  <2>7. \A e \in like : d.confidence >= e.confidence
    BY <2>1, <2>5, <2>6
  <2>8. d \in Deduped(A)
    BY <1>1, <1>2, <2>7
  <2>9. QED  BY <2>3, <2>7, <2>8
<1>5. QED  BY <1>3, <1>4

\* The order of the strings gives each subject a place of its own.
LEMMA RankOfNames ==
    ASSUME NEW x \in Subjects
    PROVE  Rank(NameOrder, x) \in Int /\ NameOrder[Rank(NameOrder, x)] = x
<1>1. x \in ToSet(NameOrder) /\ NameOrder \in Seq(ToSet(NameOrder))
  BY FlowAssumption
<1>2. \E i \in DOMAIN NameOrder : NameOrder[i] = x
  BY <1>1 DEF ToSet
<1>3. Rank(NameOrder, x) \in DOMAIN NameOrder /\ NameOrder[Rank(NameOrder, x)] = x
  BY <1>2, Zenon DEF Rank
<1>4. DOMAIN NameOrder = 1..Len(NameOrder) /\ Len(NameOrder) \in Nat
  BY <1>1, LenProperties
<1>5. QED  BY <1>3, <1>4

LEMMA RankOfTypes ==
    ASSUME NEW x \in CandidateTypes
    PROVE  Rank(TypeOrder, x) \in Int /\ TypeOrder[Rank(TypeOrder, x)] = x
<1>1. DOMAIN TypeOrder = 1..6
  BY DEF TypeOrder
<1>2. \E i \in DOMAIN TypeOrder : TypeOrder[i] = x
  <2>1. /\ TypeOrder[1] = "EnterContext" /\ TypeOrder[2] = "HandleFile" /\ TypeOrder[3] = "Idle"
        /\ TypeOrder[5] = "OpenApp" /\ TypeOrder[6] = "SwitchToApp"
    BY DEF TypeOrder
  <2>2. {1, 2, 3, 5, 6} \subseteq DOMAIN TypeOrder
    BY <1>1
  <2>3. QED  BY <2>1, <2>2 DEF CandidateTypes
<1>3. Rank(TypeOrder, x) \in DOMAIN TypeOrder /\ TypeOrder[Rank(TypeOrder, x)] = x
  BY <1>2, Zenon DEF Rank
<1>4. QED  BY <1>1, <1>3

LEMMA DedupedOrdered ==
    ASSUME NEW A, NEW signals, Listed(A, signals)
    PROVE  Ordered(Deduped(A))
<1> DEFINE S == Deduped(A)
           t(c) == Rank(TypeOrder, c.type)
           s(c) == Rank(NameOrder, c.subject)
<1>1. \A c, d \in S : c.type = d.type /\ c.subject = d.subject => c = d
  BY DedupedKeeps
<1>2. \A c \in S : c.type \in CandidateTypes /\ c.subject \in Subjects /\ c.confidence \in Int
  BY DEF Deduped, Listed
<1> HIDE DEF S
<1>3. \A c \in S : t(c) \in Int /\ s(c) \in Int
  BY <1>2, RankOfTypes, RankOfNames
<1>4. \A c, d \in S : t(c) = t(d) => c.type = d.type
  BY <1>2, RankOfTypes
<1>5. \A c, d \in S : s(c) = s(d) => c.subject = d.subject
  BY <1>2, RankOfNames
<1>6. \A c, d \in S : c.type = d.type => t(c) = t(d)
  OBVIOUS
<1>7. \A c, d : RankedBefore(c, d) <=>
        \/ c.confidence > d.confidence
        \/ /\ c.confidence = d.confidence
           /\ t(c) < t(d) \/ (c.type = d.type /\ s(c) < s(d))
  BY DEF RankedBefore, KeyBefore
<1> HIDE DEF t, s
<1>8. \A c \in S : ~RankedBefore(c, c)
  BY <1>2, <1>3, <1>7
<1>9. \A c, d, e \in S : RankedBefore(c, d) /\ RankedBefore(d, e) => RankedBefore(c, e)
  BY <1>2, <1>3, <1>6, <1>7
<1>10. \A c, d \in S : c # d => RankedBefore(c, d) \/ RankedBefore(d, c)
  BY <1>1, <1>2, <1>3, <1>4, <1>5, <1>7
<1>11. QED  BY <1>8, <1>9, <1>10 DEF Ordered, S

\* finalize_candidates by its result, for the evaluator's batch on an input.
RankedBatch(batch, candidates) ==
    LET same(c, d) == c.type = d.type /\ c.subject = d.subject
    IN  /\ Len(batch) \in 1..MaxIntentsPerWindow
        /\ \A i, j \in DOMAIN batch : i < j =>
                batch[i].confidence >= batch[j].confidence /\ ~same(batch[i], batch[j])
        /\ \A c \in candidates :
                \/ \E i \in DOMAIN batch :
                        same(batch[i], c) /\ batch[i].confidence >= c.confidence
                \/ /\ Len(batch) = MaxIntentsPerWindow
                   /\ \A i \in DOMAIN batch : batch[i].confidence >= c.confidence

\* What waits for the policy, on a route and in a window of these packages.
AllSuited(intents, route, known) ==
    \A i \in DOMAIN intents : Suited(intents[i], route, known)
AllConfident(intents) == \A i \in DOMAIN intents : intents[i].confidence >= ConfidenceFloor

LEMMA SeqOfItsElements ==
    ASSUME NEW X, NEW s \in Seq(X)
    PROVE  s \in Seq(ToSet(s))
<1>1. s \in [1..Len(s) -> ToSet(s)] /\ Len(s) \in Nat
  BY LenProperties, ElementOfSeq DEF ToSet
<1>2. QED  BY <1>1

\* A batch of the best of a non-empty list.
LEMMA FinalizedBatch ==
    ASSUME NEW A, IsFiniteSet(A), NEW signals, Listed(A, signals), A # {}
    PROVE  LET batch == BestOf(Deduped(A), MaxIntentsPerWindow) IN
           /\ batch # <<>> /\ RankedBatch(batch, A)
           /\ batch \in Seq(A)
<1> DEFINE S == Deduped(A)
           batch == BestOf(S, MaxIntentsPerWindow)
           m == Capped(Cardinality(S), MaxIntentsPerWindow)
           same(c, d) == c.type = d.type /\ c.subject = d.subject
<1>1. S \in SUBSET A
  BY DEF Deduped
<1>2. IsFiniteSet(S)
  BY <1>1, FS_Subset
<1>3. Ordered(S)
  BY DedupedOrdered
<1>4. /\ \A c, d \in S : same(c, d) => c = d
      /\ \A c \in A : \E d \in S : same(d, c) /\ d.confidence >= c.confidence
  BY DedupedKeeps
<1>5. \A c \in A : c.confidence \in Int
  BY DEF Listed
<1> HIDE DEF S
<1>6. MaxIntentsPerWindow \in Nat \ {0}
  BY DEF MaxIntentsPerWindow
<1>7. /\ m \in Nat /\ m <= MaxIntentsPerWindow /\ (m = 0 <=> S = {})
      /\ batch = [k \in 1..m |-> batch[k]] /\ \A k \in 1..m : batch[k] \in S
      /\ \A j, k \in 1..m : j < k => RankedBefore(batch[j], batch[k])
      /\ \A c \in S : \/ \E k \in 1..m : batch[k] = c
                      \/ /\ m = MaxIntentsPerWindow
                         /\ \A k \in 1..m : RankedBefore(batch[k], c)
  BY <1>2, <1>3, <1>6, BestRanked
<1> HIDE DEF batch, m
<1>8. DOMAIN batch = 1..m /\ Len(batch) = m
  <2>1. DOMAIN batch = 1..m
    BY <1>7
  <2>2. batch \in Seq(S)
    BY <1>7
  <2>3. Len(batch) \in Nat /\ DOMAIN batch = 1..Len(batch)
    BY <2>2, LenProperties
  <2>4. QED  BY <1>7, <2>1, <2>3
<1>9. S # {}
  BY <1>4
<1>10. batch # <<>> /\ Len(batch) \in 1..MaxIntentsPerWindow
  BY <1>6, <1>7, <1>8, <1>9
<1>11. ASSUME NEW c \in S, NEW d \in S, RankedBefore(c, d)
       PROVE  c.confidence >= d.confidence /\ ~same(c, d)
  <2>1. c.confidence \in Int /\ d.confidence \in Int
    BY <1>1, <1>5
  <2>2. c.confidence > d.confidence \/ c.confidence = d.confidence
    BY <1>11 DEF RankedBefore
  <2>3. c # d
    BY <1>3, <1>11 DEF Ordered
  <2>4. QED  BY <1>4, <2>1, <2>2, <2>3
<1>12. ASSUME NEW c \in A
       PROVE  \/ \E i \in DOMAIN batch :
                    same(batch[i], c) /\ batch[i].confidence >= c.confidence
              \/ /\ Len(batch) = MaxIntentsPerWindow
                 /\ \A i \in DOMAIN batch : batch[i].confidence >= c.confidence
  <2>1. PICK d \in S : same(d, c) /\ d.confidence >= c.confidence
    BY <1>4
  <2>2. CASE \E k \in 1..m : batch[k] = d
    BY <1>8, <2>1, <2>2
  <2>3. CASE m = MaxIntentsPerWindow /\ \A k \in 1..m : RankedBefore(batch[k], d)
    <3>1. ASSUME NEW k \in 1..m PROVE batch[k].confidence >= c.confidence
      <4>1. batch[k] \in S /\ batch[k].confidence >= d.confidence
        BY <1>7, <1>11, <2>3
      <4>2. batch[k].confidence \in Int /\ d.confidence \in Int /\ c.confidence \in Int
        BY <1>1, <1>5, <4>1
      <4>3. QED  BY <2>1, <4>1, <4>2
    <3>2. QED  BY <1>8, <2>3, <3>1
  <2>4. QED  BY <1>7, <2>2, <2>3
<1>13. \A i, j \in DOMAIN batch : i < j =>
            batch[i].confidence >= batch[j].confidence /\ ~same(batch[i], batch[j])
  BY <1>7, <1>8, <1>11
<1>14. RankedBatch(batch, A)
  BY <1>10, <1>12, <1>13 DEF RankedBatch
<1>15. batch \in Seq(A)
  BY <1>1, <1>7
<1>16. QED  BY <1>10, <1>14, <1>15 DEF batch, S

\* evaluate_intents on the window, for any memory.
LEMMA EvaluatorBatch ==
    ASSUME FlowInv, NEW input, input.context.events = events
    PROVE  LET batch == EvaluateIntents(input)
               signals == WindowSignals(input.context)
           IN  /\ batch \in Seq(ToSet(batch))
               /\ RankedBatch(batch, Admissible(Candidates(input, signals), signals))
               /\ AllSuited(batch, "LocalEvaluator", Named)
               /\ Calm(signals) => AllConfident(batch)
<1> DEFINE signals == WindowSignals(input.context)
           C == Candidates(input, signals)
           A == Admissible(C, signals)
           best == BestOf(Deduped(A), MaxIntentsPerWindow)
           idle == Intent("Idle", "", 60, <<NoOp>>)
           batch == EvaluateIntents(input)
<1>1. batch = IF best = <<>> THEN <<idle>> ELSE best
  BY DEF EvaluateIntents, FinalizeCandidates
<1> HIDE DEF signals, batch
<1>2. IsFiniteSet(A)
  BY CandidatesFinite
<1>3. \A c \in C : /\ IsCandidate(c, Named)
                   /\ Calm(signals) => c.confidence >= ConfidenceFloor
  BY CandidateOfWindow
<1> HIDE DEF C
<1>4. ASSUME NEW c \in A
      PROVE  /\ Suited(c, "LocalEvaluator", Named)
             /\ Calm(signals) => c.confidence >= ConfidenceFloor
             /\ c.type \in CandidateTypes /\ c.subject \in Subjects /\ c.confidence <= 99
             /\ c = Intent(c.type, c.subject, c.confidence,
                           Retained(ActionsFor(c.type, c.subject), signals))
  <2>1. /\ Suited(c, "LocalEvaluator", Named)
        /\ c.type \in CandidateTypes /\ c.subject \in Subjects /\ c.confidence <= 99
        /\ c = Intent(c.type, c.subject, c.confidence,
                      Retained(ActionsFor(c.type, c.subject), signals))
        /\ \E d \in C : d.confidence = c.confidence
    BY <1>3, AdmissibleShape
  <2>2. QED  BY <1>3, <2>1
<1> HIDE DEF A
<1>5. Listed(A, signals)
  BY <1>4 DEF Listed, Suited
<1>6. CASE A # {}
  <2>1. best # <<>> /\ RankedBatch(best, A) /\ best \in Seq(A)
    BY <1>2, <1>5, <1>6, FinalizedBatch
  <2> HIDE DEF best
  <2>2. batch = best
    BY <1>1, <2>1
  <2>3. \A i \in DOMAIN batch : batch[i] \in A
    BY <2>1, <2>2, LenProperties, ElementOfSeq
  <2>4. batch \in Seq(ToSet(batch))
    BY <2>1, <2>2, SeqOfItsElements
  <2>5. QED  BY <1>4, <2>1, <2>2, <2>3, <2>4 DEF AllSuited, AllConfident, batch, signals, A, C
<1>7. CASE A = {}
  <2>1. best = <<>>
    <3>1. Deduped(A) = {} /\ Cardinality({}) = 0
      BY <1>7, FS_EmptySet DEF Deduped
    <3>2. best = [k \in 1..Capped(0, MaxIntentsPerWindow) |->
                    CHOOSE c \in {} : Place(c, {}) = k]
      BY <3>1 DEF BestOf
    <3>3. Capped(0, MaxIntentsPerWindow) = 0
      BY DEF Capped, MaxIntentsPerWindow
    <3>4. QED  BY <3>2, <3>3
  <2>2. batch = <<idle>>
    BY <1>1, <2>1
  <2>3. idle.risk = "Low" /\ idle.confidence = 60 /\ idle.actions = <<NoOp>>
    BY DEF Intent
  <2>4. Fine(NoOp, "LocalEvaluator", Named)
    BY DEF Fine, NoOp, Action, TargetAllowed, AllowedActions, ActionTypes
  <2> HIDE DEF idle
  <2>5. Suited(idle, "LocalEvaluator", Named) /\ idle.confidence >= ConfidenceFloor
    BY <2>3, <2>4 DEF Suited, ConfidenceFloor
  <2>6. batch # <<>> /\ DOMAIN batch = 1..1 /\ Len(batch) = 1 /\ batch[1] = idle
    BY <2>2
  <2>7. \A i \in 1..1 : i = 1
    OBVIOUS
  <2>8. RankedBatch(batch, A)
    BY <1>7, <2>6, <2>7 DEF RankedBatch, MaxIntentsPerWindow
  <2>9. AllSuited(batch, "LocalEvaluator", Named) /\ AllConfident(batch)
    BY <2>5, <2>6, <2>7 DEF AllSuited, AllConfident
  <2>10. batch \in Seq(ToSet(batch))
    <3>1. batch \in Seq({idle})
      BY <2>2
    <3>2. QED  BY <3>1, SeqOfItsElements
  <2>11. QED  BY <2>8, <2>9, <2>10 DEF batch, signals, A, C
<1>8. QED  BY <1>6, <1>7

-----------------------------------------------------------------------------
(***************************************************************************)
(* The predictive backend and the composite.                               *)
(***************************************************************************)

\* merge_results passes on what it is given.
LEMMA MergedAmong ==
    ASSUME NEW X, NEW heuristic \in Seq(X), NEW predictive \in Seq(X)
    PROVE  MergeResults(heuristic, predictive) \in Seq(X)
<1>1. ASSUME NEW s \in Seq(X) PROVE WithoutIdle(s) \in Seq(X) /\ IdleOf(s) \subseteq X
  <2>1. FirstIdle(s) \subseteq DOMAIN s /\ DOMAIN s = 1..Len(s) /\ Len(s) \in Nat
    BY LenProperties DEF FirstIdle
  <2>2. IdleOf(s) \subseteq X
    BY <2>1, ElementOfSeq DEF IdleOf
  <2>3. CASE FirstIdle(s) # {}
    <3> DEFINE i == Some(FirstIdle(s))
    <3>1. (CHOOSE x \in FirstIdle(s) : TRUE) \in FirstIdle(s)
      BY <2>3, Zenon
    <3>2. i \in 1..Len(s)
      BY <2>1, <3>1 DEF Some
    <3> HIDE DEF i
    <3>3. SubSeq(s, 1, i - 1) \in Seq(X) /\ SubSeq(s, i + 1, Len(s)) \in Seq(X)
      BY <2>1, <3>2, SubSeqProperties
    <3>4. RemoveAt(s, i) \in Seq(X)
      BY <3>3, ConcatProperties DEF RemoveAt
    <3>5. QED  BY <2>2, <2>3, <3>4 DEF WithoutIdle, i
  <2>4. QED  BY <2>2, <2>3 DEF WithoutIdle
<1> DEFINE intents == WithoutIdle(heuristic) \o WithoutIdle(predictive)
           idle == IdleOf(heuristic) \cup IdleOf(predictive)
           first == UnwrapOr(IdleOf(heuristic), Some(IdleOf(predictive)))
<1>2. intents \in Seq(X)
  BY <1>1, ConcatProperties
<1>3. idle # {} => first \in X
  <2>1. /\ IdleOf(heuristic) # {} => (CHOOSE x \in IdleOf(heuristic) : TRUE) \in IdleOf(heuristic)
        /\ IdleOf(predictive) # {} =>
                (CHOOSE x \in IdleOf(predictive) : TRUE) \in IdleOf(predictive)
    BY Zenon
  <2>2. IdleOf(heuristic) \subseteq X /\ IdleOf(predictive) \subseteq X
    BY <1>1
  <2>3. QED  BY <2>1, <2>2 DEF UnwrapOr, Some
<1>4. MergeResults(heuristic, predictive) =
        IF intents = <<>> /\ idle # {} THEN <<first>> ELSE intents
  BY DEF MergeResults
<1> HIDE DEF intents, idle, first
<1>5. idle # {} => <<first>> \in Seq(X)
  BY <1>3
<1>6. QED  BY <1>2, <1>4, <1>5

\* prediction_to_intent: what it makes of a ranking suits the window, is at the
\* floor of the policy at least, and pre-warms an app only if the window knows it.
LEMMA PredictedSuited ==
    ASSUME NEW ranking, IsRanking(ranking), NEW known
    PROVE  LET intents == PredictedIntents(ranking, known) IN
           /\ intents \in Seq(ToSet(intents))
           /\ AllSuited(intents, "LocalEvaluator", known) /\ AllConfident(intents)
<1> DEFINE good(d) == Suited(d, "LocalEvaluator", known) /\ d.confidence >= ConfidenceFloor
           intents == PredictedIntents(ranking, known)
<1>1. ASSUME NEW d, NEW a, d.risk = "Low", d.confidence \in Int,
             d.confidence >= ConfidenceFloor, d.actions = <<a>>,
             Fine(a, "LocalEvaluator", known)
      PROVE  good(d)
  BY <1>1 DEF Suited
<1>2. AllowedActions("LocalEvaluator") = ActionTypes
  BY DEF AllowedActions
<1>3. CASE ranking = <<>>
  <2> DEFINE idle == Intent("Idle", "", 50, <<NoOp>>)
  <2>1. intents = <<idle>>
    BY <1>3 DEF PredictedIntents
  <2>2. idle.risk = "Low" /\ idle.confidence = 50 /\ idle.actions = <<NoOp>>
    BY DEF Intent
  <2>3. Fine(NoOp, "LocalEvaluator", known)
    BY <1>2 DEF Fine, NoOp, Action, TargetAllowed, ActionTypes
  <2> HIDE DEF idle, good
  <2>4. idle.confidence \in Int /\ idle.confidence >= ConfidenceFloor
    BY <2>2 DEF ConfidenceFloor
  <2>5. good(idle)
    BY <1>1, <2>2, <2>3, <2>4
  <2>6. DOMAIN <<idle>> = 1..1 /\ Len(<<idle>>) = 1 /\ <<idle>>[1] = idle
    OBVIOUS
  <2>7. \A i \in 1..1 : i = 1
    OBVIOUS
  <2>8. <<idle>> \in Seq(ToSet(<<idle>>))
    <3>1. <<idle>> \in Seq({idle})
      OBVIOUS
    <3>2. QED  BY <3>1, SeqOfItsElements
  <2>9. QED  BY <2>1, <2>5, <2>6, <2>7, <2>8 DEF AllSuited, AllConfident, good
<1>4. CASE ranking # <<>>
  <2> DEFINE n == Len(ranking)
  <2>1. DOMAIN ranking = 1..n /\ n \in Nat
    BY LenProperties DEF IsRanking
  <2>2. intents = [i \in 1..n |-> PredictionToIntent(ranking[i], known)]
    BY <1>4, <2>1 DEF PredictedIntents
  <2> HIDE DEF n
  <2>3. DOMAIN intents = 1..n /\ intents \in Seq(ToSet(intents))
    <3>1. DOMAIN intents = 1..n /\ intents \in [1..n -> ToSet(intents)]
      BY <2>2 DEF ToSet
    <3>2. QED  BY <2>1, <3>1
  <2>4. ASSUME NEW i \in 1..n PROVE good(intents[i])
    <3> DEFINE app == ranking[i].app
               x == Clamp(ranking[i].score, PolicyConfidenceFloor, 99)
               d == intents[i]
               a == Action("PreWarmProcess", <<"pkg", app>>, "Immediate")
               b == Heartbeat("Immediate")
    <3>1. x \in Int /\ x >= ConfidenceFloor
      <4>1. ranking[i].score \in Int
        BY <2>1 DEF IsRanking
      <4>2. QED  BY <4>1 DEF Clamp, PolicyConfidenceFloor, ConfidenceFloor
    <3>2. d = IF app \in known THEN Intent("SwitchToApp", app, x, <<a>>)
              ELSE Intent("OpenApp", app, x, <<b>>)
      BY <2>2 DEF PredictionToIntent
    <3> HIDE DEF x, d
    <3>3. app \in known => Fine(a, "LocalEvaluator", known)
      BY <1>2 DEF Fine, Action, TargetAllowed, InContext, ActionTypes
    <3>4. Fine(b, "LocalEvaluator", known)
      BY <1>2 DEF Fine, Heartbeat, Action, TargetAllowed, ActionTypes
    <3> HIDE DEF a, b, app
    <3>5. /\ d.risk = "Low" /\ d.confidence = x
          /\ d.actions = IF app \in known THEN <<a>> ELSE <<b>>
      BY <3>2 DEF Intent
    <3>6. good(d)
      <4> HIDE DEF good
      <4>1. CASE app \in known
        BY <1>1, <3>1, <3>3, <3>5, <4>1
      <4>2. CASE app \notin known
        BY <1>1, <3>1, <3>4, <3>5, <4>2
      <4>3. QED  BY <4>1, <4>2
    <3>7. QED  BY <3>6 DEF d
  <2> HIDE DEF intents
  <2>5. QED  BY <2>1, <2>3, <2>4 DEF AllSuited, AllConfident, intents
<1>5. QED  BY <1>3, <1>4

\* What the composite makes of two suited batches.
LEMMA MergedSuited ==
    ASSUME NEW heuristic, heuristic \in Seq(ToSet(heuristic)),
           NEW predictive, predictive \in Seq(ToSet(predictive)),
           NEW route, NEW known,
           AllSuited(heuristic, route, known), AllSuited(predictive, route, known)
    PROVE  LET intents == MergeResults(heuristic, predictive) IN
           /\ AllSuited(intents, route, known)
           /\ AllConfident(heuristic) /\ AllConfident(predictive) => AllConfident(intents)
<1> DEFINE X == ToSet(heuristic) \cup ToSet(predictive)
           intents == MergeResults(heuristic, predictive)
<1>1. heuristic \in Seq(X) /\ predictive \in Seq(X)
  OBVIOUS
<1>2. \A d \in X : Suited(d, route, known)
  BY DEF AllSuited, ToSet
<1>3. AllConfident(heuristic) /\ AllConfident(predictive) =>
        \A d \in X : d.confidence >= ConfidenceFloor
  BY DEF AllConfident, ToSet
<1> HIDE DEF X
<1>4. intents \in Seq(X)
  BY <1>1, MergedAmong
<1> HIDE DEF intents
<1>5. \A i \in DOMAIN intents : intents[i] \in X
  BY <1>4, LenProperties, ElementOfSeq
<1>6. QED  BY <1>2, <1>3, <1>5 DEF AllSuited, AllConfident, intents

-----------------------------------------------------------------------------
(***************************************************************************)
(* The local backends against the policy.                                  *)
(***************************************************************************)

\* What a local backend decided suits the window it was decided on, and is
\* confident enough when no device penalty applied to it.
SuitedInv ==
    /\ GroundInv
    /\ phase \in {"govern", "observe"} =>
        \E d : /\ result = {d}
               /\ d.route \in LocalRoutes =>
                    /\ AllSuited(d.intents, d.route, Named)
                    /\ Unconstrained => AllConfident(d.intents)
    /\ LocalApproved
    /\ NoSpiral

LEMMA SuitedDecided ==
    ASSUME SuitedInv, GroundInv', phase = "decide", NEW route, NEW intents, NEW failed,
           Decided(route, intents, failed),
           route \in LocalRoutes => /\ AllSuited(intents, route, Named)
                                    /\ Unconstrained => AllConfident(intents)
    PROVE  SuitedInv'
<1> DEFINE d == [route |-> route, intents |-> intents, failed |-> failed]
<1>1. d.route = route /\ d.intents = intents
  OBVIOUS
<1>2. result' = {d} /\ phase' = "govern" /\ ingested' = ingested
  BY DEF Decided
<1>3. Named' = Named /\ (Unconstrained' <=> Unconstrained)
  BY <1>2 DEF Named, Unconstrained
<1> HIDE DEF d
<1>4. QED  BY <1>1, <1>2, <1>3 DEF SuitedInv, LocalApproved, NoSpiral

LEMMA SuitedGovern ==
    ASSUME MaxActions > 1, Blocked = {}, SuitedInv, GroundInv', Govern
    PROVE  SuitedInv'
<1>1. phase = "govern" /\ phase' = "observe" /\ result' = result /\ ingested' = ingested
  BY DEF Govern
<1>2. PICK d : /\ result = {d}
               /\ d.route \in LocalRoutes =>
                    /\ AllSuited(d.intents, d.route, Named)
                    /\ Unconstrained => AllConfident(d.intents)
  BY <1>1 DEF SuitedInv
<1>3. Decision = d /\ Decision' = d
  BY <1>1, <1>2 DEF Decision, Some
<1>4. Named' = Named /\ (Unconstrained' <=> Unconstrained)
  BY <1>1 DEF Named, Unconstrained
<1>5. KnownTargets(TheContext) = Named
  <2>1. TheContext = StructuredContext(events)
    BY <1>1 DEF SuitedInv, GroundInv, TheContext, Some
  <2>2. QED  BY <2>1, KnownAreNamed DEF SuitedInv, GroundInv
<1>6. ASSUME NEW r \in records', d.route \in LocalRoutes
      PROVE  /\ r.reason \in {"Approved", "ConfidenceTooLow"}
             /\ Unconstrained => r.reason = "Approved"
  <2>1. PICK c \in CoordsOf(d.intents) : r.reason = Settle(TheContext, d.route, d.intents, c)
    BY <1>3, <1>6 DEF Govern, VerdictOn
  <2>2. PICK i \in DOMAIN d.intents : c \in {<<i, n>> : n \in DOMAIN d.intents[i].actions}
    BY DEF CoordsOf
  <2>3. PICK n \in DOMAIN d.intents[i].actions : c = <<i, n>>
    BY <2>2
  <2>4. Suited(d.intents[i], d.route, KnownTargets(TheContext))
    BY <1>2, <1>5, <1>6 DEF AllSuited
  <2>5. Unconstrained => d.intents[i].confidence >= ConfidenceFloor
    BY <1>2, <1>6 DEF AllConfident
  <2>6. QED  BY <2>1, <2>3, <2>4, <2>5, SuitedIsApproved
<1>7. QED  BY <1>1, <1>2, <1>3, <1>4, <1>6 DEF SuitedInv, LocalApproved, NoSpiral

\* The local evaluator, alone and with the predictive backend.
LEMMA EvaluatorSuited ==
    ASSUME GroundInv, phase = "decide"
    PROVE  LET batch == EvaluateIntents(ModelInput) IN
           /\ AllSuited(batch, "LocalEvaluator", Named)
           /\ Unconstrained => AllConfident(batch)
           /\ \A ranking \in Predictions :
                LET merged == MergeResults(batch,
                                PredictedIntents(ranking, KnownTargets(TheContext)))
                IN  /\ AllSuited(merged, "LocalEvaluator", Named)
                    /\ Unconstrained => AllConfident(merged)
<1> DEFINE batch == EvaluateIntents(ModelInput)
           signals == WindowSignals(TheContext)
<1>1. /\ TheContext = StructuredContext(events) /\ TheContext.events = events
      /\ ModelInput.context = TheContext /\ FlowInv
  BY DEF GroundInv, TheContext, Some, StructuredContext, ModelInput
<1>2. /\ batch \in Seq(ToSet(batch)) /\ AllSuited(batch, "LocalEvaluator", Named)
      /\ Calm(signals) => AllConfident(batch)
  BY <1>1, EvaluatorBatch
<1>3. Unconstrained => Calm(signals)
  BY <1>1, UnconstrainedIsCalm
<1> HIDE DEF batch
<1>4. ASSUME NEW ranking \in Predictions
      PROVE  LET merged == MergeResults(batch, PredictedIntents(ranking, KnownTargets(TheContext)))
             IN  /\ AllSuited(merged, "LocalEvaluator", Named)
                 /\ Unconstrained => AllConfident(merged)
  <2> DEFINE predicted == PredictedIntents(ranking, Named)
             merged == MergeResults(batch, predicted)
  <2>1. IsRanking(ranking)
    BY FlowAssumption
  <2>2. /\ predicted \in Seq(ToSet(predicted))
        /\ AllSuited(predicted, "LocalEvaluator", Named) /\ AllConfident(predicted)
    BY <2>1, PredictedSuited
  <2> HIDE DEF predicted
  <2>3. /\ AllSuited(merged, "LocalEvaluator", Named)
        /\ AllConfident(batch) /\ AllConfident(predicted) => AllConfident(merged)
    BY <1>2, <2>2, MergedSuited
  <2>4. KnownTargets(TheContext) = Named
    BY <1>1, KnownAreNamed
  <2>5. QED  BY <1>2, <1>3, <2>2, <2>3, <2>4 DEF predicted
<1>5. QED  BY <1>2, <1>3, <1>4 DEF batch

LEMMA SuitedInit == Init => SuitedInv
<1> SUFFICES ASSUME Init PROVE SuitedInv
  OBVIOUS
<1>1. FlowInv
  BY FlowInit
<1>2. phase \in {"collect", "failed"} /\ records = {}
  BY DEF Init
<1>3. QED  BY <1>1, <1>2 DEF SuitedInv, GroundInv, LocalApproved, NoSpiral

LEMMA SuitedStep ==
    ASSUME MaxActions > 1, Blocked = {}, SuitedInv, [Next]_vars
    PROVE  SuitedInv'
<1>1. GroundInv'
  BY GroundStep DEF SuitedInv
<1>2. ASSUME phase' \in {"collect", "decide"} PROVE SuitedInv'
  BY <1>1, <1>2 DEF SuitedInv, LocalApproved, NoSpiral
<1>3. CASE IngestEnvelope \/ IngestInternal
  <2>1. \E event : Push(event)
    BY <1>3 DEF IngestEnvelope, IngestInternal
  <2>2. QED  BY <1>2, <2>1 DEF Push
<1>4. CASE CloseWindow
  BY <1>2, <1>4 DEF CloseWindow
<1>5. ASSUME NEW intents, NEW route, \A i \in DOMAIN intents : Sound(intents[i], route, Named)
      PROVE  AllSuited(intents, route, Named) /\ AllConfident(intents)
  BY <1>5, SoundIsSuited DEF AllSuited, AllConfident
<1>6. ASSUME phase = "decide", NEW failed,
             Decided("RuleBased", GenerateIntents(TheContext), failed)
      PROVE  SuitedInv'
  <2>1. TheContext = StructuredContext(events) /\ FlowInv
    BY <1>6 DEF SuitedInv, GroundInv, TheContext, Some
  <2>2. \A i \in DOMAIN GenerateIntents(TheContext) :
            Sound(GenerateIntents(TheContext)[i], "RuleBased", Named)
    BY <2>1, RulesAreSound
  <2>3. /\ AllSuited(GenerateIntents(TheContext), "RuleBased", Named)
        /\ AllConfident(GenerateIntents(TheContext))
    BY <1>5, <2>2
  <2>4. QED  BY <1>1, <1>6, <2>3, SuitedDecided
<1>7. ASSUME phase = "decide", Decided("FallbackNoOp", FallbackNoOp, FALSE)
      PROVE  SuitedInv'
  <2>1. "NoOp" \in AllowedActions("FallbackNoOp")
    BY DEF AllowedActions
  <2>2. AllSuited(FallbackNoOp, "FallbackNoOp", Named) /\ AllConfident(FallbackNoOp)
    BY <1>5, <2>1, FallbackIsSound
  <2>3. QED  BY <1>1, <1>7, <2>2, SuitedDecided
<1>8. ASSUME phase = "decide", NEW intents, Decided("LocalEvaluator", intents, FALSE),
             \/ intents = EvaluateIntents(ModelInput)
             \/ \E ranking \in Predictions :
                    intents = MergeResults(EvaluateIntents(ModelInput),
                                PredictedIntents(ranking, KnownTargets(TheContext)))
      PROVE  SuitedInv'
  <2>1. GroundInv
    BY DEF SuitedInv
  <2>2. /\ AllSuited(intents, "LocalEvaluator", Named)
        /\ Unconstrained => AllConfident(intents)
    BY <1>8, <2>1, EvaluatorSuited
  <2>3. QED  BY <1>1, <1>8, <2>2, SuitedDecided
<1>9. CASE DecideLocally
  <2>1. phase = "decide"
    BY <1>9 DEF DecideLocally
  <2>2. \/ Decided("FallbackNoOp", FallbackNoOp, FALSE)
        \/ Decided("RuleBased", GenerateIntents(TheContext), FALSE)
        \/ Decided("LocalEvaluator", EvaluateIntents(ModelInput), FALSE)
        \/ \E ranking \in Predictions :
            Decided("LocalEvaluator", MergeResults(EvaluateIntents(ModelInput),
                        PredictedIntents(ranking, KnownTargets(TheContext))), FALSE)
    BY <1>9 DEF DecideLocally
  <2>3. QED  BY <1>6, <1>7, <1>8, <2>1, <2>2
<1>10. CASE AskCloud
  <2>1. phase = "decide"
    BY <1>10 DEF AskCloud
  <2>2. \/ \E intents : Decided("CloudLlm", intents, FALSE)
        \/ Decided("RuleBased", GenerateIntents(TheContext), TRUE)
    BY <1>10 DEF AskCloud
  <2>3. "CloudLlm" \notin LocalRoutes
    BY DEF LocalRoutes
  <2>4. QED  BY <1>1, <1>6, <2>1, <2>2, <2>3, SuitedDecided
<1>11. CASE Govern
  BY <1>1, <1>11, SuitedGovern
<1>12. CASE Observe
  BY <1>2, <1>12 DEF Observe
<1>13. CASE UNCHANGED vars
  <2>1. Named' = Named /\ (Unconstrained' <=> Unconstrained) /\ Decision' = Decision
    BY <1>13 DEF vars, Named, Unconstrained, Decision
  <2>2. QED  BY <1>1, <1>13, <2>1 DEF vars, SuitedInv, LocalApproved, NoSpiral
<1>14. QED  BY <1>3, <1>4, <1>9, <1>10, <1>11, <1>12, <1>13 DEF Next

\* The local backends stay within their capability, their risk and the window
\* (rule_based.rs, local_evaluator.rs, predictive/backend.rs): with no action type
\* blocked and room for two actions, the policy denies what they suggest for a
\* low confidence only, whatever the window and the memory hold and whichever
\* apps the predictor comes to.
THEOREM LocalIsApproved ==
    ASSUME MaxActions > 1, Blocked = {}
    PROVE  Spec => []LocalApproved
<1>1. SuitedInv /\ [Next]_vars => SuitedInv'
  BY SuitedStep
<1>2. SuitedInv => LocalApproved
  BY DEF SuitedInv
<1>3. QED  BY <1>1, <1>2, SuitedInit, PTL DEF Spec

\* The feedback loop does not run away (local_evaluator.rs, apply_action_feedback):
\* in a window without device penalties no recent feedback, however bad, brings a
\* local suggestion below the policy's floor.
THEOREM NoRejectionSpiral ==
    ASSUME MaxActions > 1, Blocked = {}
    PROVE  Spec => []NoSpiral
<1>1. SuitedInv /\ [Next]_vars => SuitedInv'
  BY SuitedStep
<1>2. SuitedInv => NoSpiral
  BY DEF SuitedInv
<1>3. QED  BY <1>1, <1>2, SuitedInit, PTL DEF Spec

\* finalize_candidates keeps the best of the evaluator's candidates, in order and
\* one for each type and subject, for every window and every memory.
THEOREM EvaluatorIsRanked == Spec => []EvaluatorRanked
<1>1. Init => GroundInv
  <2> SUFFICES ASSUME Init PROVE GroundInv
    OBVIOUS
  <2>1. phase \in {"collect", "failed"} /\ records = {}
    BY DEF Init
  <2>2. QED  BY <2>1, FlowInit DEF GroundInv
<1>2. GroundInv /\ [Next]_vars => GroundInv'
  BY GroundStep
<1>3. GroundInv => EvaluatorRanked
  <2> SUFFICES ASSUME GroundInv, phase = "decide" PROVE EvaluatorRanked
    BY DEF EvaluatorRanked
  <2> DEFINE signals == WindowSignals(TheContext)
  <2>1. /\ TheContext = StructuredContext(events) /\ TheContext.events = events
        /\ ModelInput.context = TheContext /\ FlowInv
    BY DEF GroundInv, TheContext, Some, StructuredContext, ModelInput
  <2>2. RankedBatch(EvaluateIntents(ModelInput),
                    Admissible(Candidates(ModelInput, signals), signals))
    BY <2>1, EvaluatorBatch
  <2>3. QED  BY <2>2 DEF RankedBatch, EvaluatorRanked
<1>4. QED  BY <1>1, <1>2, <1>3, PTL DEF Spec
=============================================================================
