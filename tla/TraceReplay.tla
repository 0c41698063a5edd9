----------------------------- MODULE TraceReplay -----------------------------
(***************************************************************************)
(* `aios replay`: a recorded trace of the collector app is driven through  *)
(* ingress, air-gap, windows, router and lifecycle, up to a stage, and     *)
(* everything observable goes into an audit stream whose hash is pinned.   *)
(* The same file is replayed once for each of Stages; or its events become *)
(* a golden trace, recorded by some other revision of the pipeline, and    *)
(* validated against this one.                                             *)
(*                                                                         *)
(* A line is [form, at, raw]; at, the captured time, may be missing.  The  *)
(* audit is kept as the records themselves, without the volatile keys      *)
(* canonicalize strips; a hash is as good as what it is the hash of.  The  *)
(* router is the default one, without a cloud and without a model file.    *)
(***************************************************************************)
EXTENDS TraceEngine

CONSTANTS
    Lines,      \* what a line of the file may be
    MaxLines,   \* bound on the length of the file
    WindowMs,   \* window_secs, in milliseconds
    Stages,     \* the stages of the replays, which run one after another
    Drifts      \* how the revision that recorded the golden trace differs

ASSUME ReplayAssumption ==
    /\ MaxLines \in Nat
    /\ WindowMs \in Nat \ {0}
    /\ Stages \in Seq({"Ingest", "Sanitize", "Context", "Decision", "Policy", "Execute"})

VARIABLES
    phase,      \* "record", "replay", "replayed", "validated"
    file,       \* the lines of the trace
    position,   \* lines the current replay has read
    replay,     \* its state: [window, last, ordinal, summary, audit]
    finished,   \* the results of the replays: [stage, completed, summary, audit]
    golden,     \* the golden trace: a set with at most one
    report      \* its validation: a set with at most one

vars == <<phase, file, position, replay, finished, golden, report>>

StageRank == [Ingest |-> 1, Sanitize |-> 2, Context |-> 3, Decision |-> 4,
              Policy |-> 5, Execute |-> 6]
Includes(stage, other) == StageRank[stage] >= StageRank[other]

\* ReplaySummary::default and the locals of run_with_audit.
ZeroSummary ==
    [lines |-> 0, skipped |-> 0, errors |-> 0, ingested |-> 0, windows |-> 0,
     intents |-> 0, approved |-> 0, rejected |-> 0, authorized |-> 0,
     denied |-> 0, failed |-> 0, records |-> 0, denials |-> <<>>]
Fresh == [window |-> {}, last |-> 0, ordinal |-> 0, summary |-> ZeroSummary,
          audit |-> <<>>]

Init ==
    /\ phase = "record"
    /\ file = <<>>
    /\ position = 0
    /\ replay = Fresh
    /\ finished = <<>>
    /\ golden = {}
    /\ report = {}

Emit(r, records) == [r EXCEPT !.audit = @ \o records]

-----------------------------------------------------------------------------
(***************************************************************************)
(* process_window.                                                         *)
(***************************************************************************)

\* DecisionRouter::evaluate on ModelInput::current_only.
Evaluated(context) ==
    LET route == RouteOf(context, "Disabled", FALSE) IN
    [route |-> route,
     intents |-> IF route = "RuleBased" THEN GenerateIntents(context)
                 ELSE EvaluateIntents([context |-> context, feedback |-> <<>>,
                                       profile |-> [foreground |-> {}, notifying |-> {}]])]

CoordSeq(intents) ==
    FlattenSeq([i \in DOMAIN intents |->
                    [n \in DOMAIN intents[i].actions |-> <<i, n>>]])

\* ActionLifecycle::run with the OfflineAdapter, which never fails.
AuditRecords(context, d) ==
    LET coords == CoordSeq(d.intents) IN
    [k \in DOMAIN coords |->
        LET action == d.intents[coords[k][1]].actions[coords[k][2]]
            reason == Settle(context, d.route, d.intents, coords[k])
        IN  [coord |-> coords[k], type |-> action.type, target |-> action.target,
             reason |-> reason, terminal |-> Terminal(reason, FALSE)]]

Denied(record) ==
    record.terminal \in {"RejectedInvalidSchema", "DeniedByCapability", "DeniedByPolicy"}
Authorized(record) == record.terminal \in {"Succeeded", "Failed"}
CountIf(s, Test(_)) == Len(SelectSeq(s, Test))

\* Defect variant: one of the denials is missing from the match.
SummaryOfRecords_PolicyUncounted(s, d, records) ==
    LET approved == {i \in DOMAIN d.intents :
                        \E r \in ToSet(records) : r.coord[1] = i /\ Authorized(r)}
        denied == SelectSeq(records, LAMBDA r : r.terminal \in
                                {"RejectedInvalidSchema", "DeniedByCapability"})
    IN  [s EXCEPT !.approved = @ + Cardinality(approved),
                  !.rejected = @ + Len(d.intents) - Cardinality(approved),
                  !.records = @ + Len(records),
                  !.authorized = @ + CountIf(records, Authorized),
                  !.denied = @ + Len(denied)]

\* Stage Execute: the counters come from the terminal records.
SummaryOfRecords(s, d, records) ==
    LET approved == {i \in DOMAIN d.intents :
                        \E r \in ToSet(records) : r.coord[1] = i /\ Authorized(r)}
        reasons == SelectSeq([k \in DOMAIN records |-> records[k].reason],
                             LAMBDA reason : reason \in DenialReasons)
    IN  [s EXCEPT !.approved = @ + Cardinality(approved),
                  !.rejected = @ + Len(d.intents) - Cardinality(approved),
                  !.records = @ + Len(records),
                  !.authorized = @ + CountIf(records, Authorized),
                  !.denied = @ + CountIf(records, Denied),
                  !.failed = @ + CountIf(records, LAMBDA r : r.terminal = "Failed"),
                  !.denials = FoldLeft(Counted, @, reasons)]

ExecuteStage(r, context, d) ==
    LET records == AuditRecords(context, d) IN
    Emit([r EXCEPT !.summary = SummaryOfRecords(@, d, records)],
         <<<<"policy", r.ordinal, records>>>>
         \o [k \in DOMAIN records |-> <<"execute", r.ordinal, records[k]>>])

\* Stage Policy: the counters come from the verdicts; nothing is executed, and
\* the schema is not looked at.
PolicyStage(r, context, d) ==
    LET verdicts(i) == [n \in DOMAIN d.intents[i].actions |->
                            Evaluate(context, d.route, d.intents, <<i, n>>)]
        all == FlattenSeq([i \in DOMAIN d.intents |-> verdicts(i)])
        denials == SelectSeq(all, LAMBDA v : v # "Approved")
        approved == {i \in DOMAIN d.intents : Contains(verdicts(i), "Approved")}
    IN  Emit([r EXCEPT !.summary.approved = @ + Cardinality(approved),
                       !.summary.rejected = @ + Len(d.intents) - Cardinality(approved),
                       !.summary.authorized = @ + Len(all) - Len(denials),
                       !.summary.denied = @ + Len(denials),
                       !.summary.denials = FoldLeft(Counted, @, denials)],
             [i \in DOMAIN d.intents |-> <<"policy", r.ordinal, verdicts(i)>>])

\* files is file_activity, in the order of this run's hash map.
ProcessWindow(stage, r, closed, files) ==
    LET context == closed.context
        d == Evaluated(context)
        inContext ==
            Emit([r EXCEPT !.summary.windows = @ + 1],
                 <<<<"context", [start |-> closed.start, end |-> closed.end,
                                 count |-> Len(context.events),
                                 summary |-> [context.summary EXCEPT !.files = files]]>>>>)
        decided ==
            Emit([inContext EXCEPT !.summary.intents = @ + Len(d.intents)],
                 <<<<"decision", d.route, Len(d.intents)>>>>)
        processed == IF ~Includes(stage, "Decision") THEN inContext
                     ELSE IF ~Includes(stage, "Policy") THEN decided
                     ELSE IF Includes(stage, "Execute") THEN ExecuteStage(decided, context, d)
                     ELSE PolicyStage(decided, context, d)
    IN  [processed EXCEPT !.ordinal = @ + 1]

-----------------------------------------------------------------------------
(***************************************************************************)
(* WindowAggregator, and run_with_audit line by line.                      *)
(***************************************************************************)

NewWindow(at) == [start |-> at, events |-> <<>>]
IsExpired(window, at) == at - window.start >= WindowMs

\* close and process_window: the states it may lead to.  Below stage Context
\* nothing is pushed, and an empty window only starts anew.
Close(stage, r, at) ==
    LET window == Some(r.window)
        context == StructuredContext(window.events)
        closed == [start |-> window.start, end |-> at, context |-> context]
        reset == [r EXCEPT !.window = {NewWindow(at)}]
    IN  IF window.events = <<>> THEN {reset}
        ELSE {ProcessWindow(stage, reset, closed, files) :
                files \in FileActivityVecs(context.summary)}

TheStage == Stages[Len(finished) + 1]

\* The captured time; a line without one counts as 0.
Captured(line) == UnwrapOr(line.at, 0)

\* Every line is taken for the public API's, whatever recorded it.
Envelope(line) == [schema |-> SupportedSchema, tier |-> "PublicApi", raw |-> line.raw]

PushEvent(stage, r, event) ==
    LET sanitized == SanitizeWithTier(event)
        emitted == Emit(r, <<<<"sanitize", sanitized>>>>)
    IN  IF ~Includes(stage, "Sanitize") THEN r
        ELSE IF ~Includes(stage, "Context") THEN emitted
        ELSE [emitted EXCEPT !.window = {[w EXCEPT !.events = Append(@, sanitized)] : w \in @}]

\* The counters and the ingest record; the first event starts the windows.
Ingested(r, line, event) ==
    LET at == Captured(line)
        window == IF r.window = {} THEN {NewWindow(at)} ELSE r.window
    IN  Emit([r EXCEPT !.last = IF at > @ THEN at ELSE @,
                       !.summary.lines = @ + 1, !.summary.ingested = @ + 1,
                       !.window = window],
             <<<<"ingest", event.tier, event.raw.kind>>>>)

CloseIfExpired(stage, r, at) ==
    IF IsExpired(Some(r.window), at) THEN Close(stage, r, at) ELSE {r}

\* Defect variant: the event is pushed into the window that it closes.
IngestResults_PushFirst(stage, r, line) ==
    LET event == Some(Accept(Envelope(line))) IN
    CloseIfExpired(stage, PushEvent(stage, Ingested(r, line, event), event), Captured(line))

\* The window the event finds expired is closed before it is pushed.
IngestResults(stage, r, line) ==
    LET event == Some(Accept(Envelope(line))) IN
    {PushEvent(stage, closed, event) :
        closed \in CloseIfExpired(stage, Ingested(r, line, event), Captured(line))}

-----------------------------------------------------------------------------
(***************************************************************************)
(* Actions.                                                                *)
(***************************************************************************)

WriteLine ==
    /\ phase = "record"
    /\ golden = {}
    /\ Len(file) < MaxLines
    /\ \E line \in Lines : file' = Append(file, line)
    /\ UNCHANGED <<phase, position, replay, finished, golden, report>>

StartReplays ==
    /\ phase = "record"
    /\ golden = {}
    /\ phase' = "replay"
    /\ UNCHANGED <<file, position, replay, finished, golden, report>>

Reading(form) ==
    /\ phase = "replay"
    /\ position < Len(file)
    /\ file[position + 1].form = form

Advance ==
    /\ position' = position + 1
    /\ UNCHANGED <<phase, file, finished, golden, report>>

SkipBlank == Reading("blank") /\ Advance /\ UNCHANGED replay

SkipNoRawEvent ==
    /\ Reading("noRawEvent")
    /\ Advance
    /\ replay' = [replay EXCEPT !.summary.lines = @ + 1, !.summary.skipped = @ + 1]

ParseError ==
    /\ Reading("notJson") \/ Reading("wrongShape")
    /\ Advance
    /\ replay' = Emit([replay EXCEPT !.summary.lines = @ + 1, !.summary.errors = @ + 1],
                      <<<<"error">>>>)

IngestLine ==
    /\ Reading("event")
    /\ Advance
    /\ \E r \in IngestResults(TheStage, replay, file[position + 1]) : replay' = r

Finish(r, completed) ==
    /\ finished' = Append(finished, [stage |-> TheStage, completed |-> completed,
                                     summary |-> r.summary, audit |-> r.audit])
    /\ replay' = Fresh
    /\ position' = 0
    /\ phase' = IF Len(finished) + 1 = Len(Stages) THEN "replayed" ELSE "replay"
    /\ UNCHANGED <<file, golden, report>>

\* A line that is not text ends the replay without a summary.
AbortReplay == Reading("unreadable") /\ Finish(replay, FALSE)

\* The end of the file: the open window is flushed at the latest captured time.
EndOfFile ==
    /\ phase = "replay"
    /\ position = Len(file)
    /\ \E r \in IF replay.window = {} THEN {replay}
                ELSE Close(TheStage, replay, replay.last) :
            Finish(r, TRUE)

-----------------------------------------------------------------------------
\* What the pipeline makes of the events of the file as a single window.
RawEvents == LET events == SelectSeq(file, LAMBDA line : line.form = "event")
             IN  [i \in DOMAIN events |-> events[i].raw]
Driven(raws) ==
    LET sanitized == [i \in DOMAIN raws |->
                        SanitizeWithTier([raw |-> raws[i], tier |-> "PublicApi"])]
        context == StructuredContext(sanitized)
        d == Evaluated(context)
        succeeded == SelectSeq(AuditRecords(context, d), LAMBDA r : r.terminal = "Succeeded")
    IN  [sanitized |-> sanitized,
         batch |-> [model |-> d.route, intents |-> d.intents],
         executed |-> [k \in DOMAIN succeeded |->
                        [type |-> succeeded[k].type, target |-> succeeded[k].target,
                         at |-> 0, success |-> TRUE, error |-> {}]]]

\* What another revision of the pipeline recorded in place of s.
Drifted(layer, edit, s) ==
    IF layer # edit[1] \/ s = <<>> THEN s
    ELSE CASE edit[2] = "cut" -> Front(s)
           [] edit[2] = "longer" -> Append(s, Last(s))
           [] edit[2] = "changed" /\ layer = "sanitization" ->
                [s EXCEPT ![1].tier = "SystemImage"]
           [] edit[2] = "changed" /\ layer = "policy" -> [s EXCEPT ![1].confidence = @ - 1]
           [] edit[2] = "changed" /\ layer = "execution" -> [s EXCEPT ![1].success = FALSE]
           [] edit[2] = "later" -> [i \in DOMAIN s |-> [s[i] EXCEPT !.at = @ + 1]]

RecordGolden ==
    /\ phase = "record"
    /\ golden = {}
    /\ file # <<>>
    /\ Len(RawEvents) = Len(file)
    /\ \E edit \in Drifts :
        LET driven == Driven(RawEvents) IN
        golden' = {[raws |-> RawEvents, tiers |-> <<>>,
                    sanitized |-> Drifted("sanitization", edit, driven.sanitized),
                    batch |-> [driven.batch EXCEPT
                                !.intents = Drifted("policy", edit, @)],
                    executed |-> Drifted("execution", edit, driven.executed)]}
    /\ UNCHANGED <<phase, file, position, replay, finished, report>>

ValidateGolden ==
    /\ phase = "record"
    /\ \E g \in golden :
        LET driven == Driven(g.raws) IN
        report' = {Validate(g, driven.batch, driven.executed)}
    /\ phase' = "validated"
    /\ UNCHANGED <<file, position, replay, finished, golden>>

Next ==
    \/ WriteLine \/ StartReplays
    \/ SkipBlank \/ SkipNoRawEvent \/ ParseError \/ IngestLine \/ AbortReplay \/ EndOfFile
    \/ RecordGolden \/ ValidateGolden

Spec == Init /\ [][Next]_vars

-----------------------------------------------------------------------------
(***************************************************************************)
(* Properties.                                                             *)
(***************************************************************************)

Contexts(audit) == SelectSeq(audit, LAMBDA record : record[1] = "context")
EventLines == SelectSeq(file, LAMBDA line : line.form = "event")

\* The windows of a replay tile its trace, however its timestamps are ordered
\* or missing: taken in turn they hold every ingested event once; a window
\* starts at the captured time of its first event and ends where the next one
\* starts; no event is captured a full window after the start of its own; and
\* a window that is not the last has lasted at least that long, the last one
\* less (run_with_audit, WindowAggregator).
WindowsTile ==
    phase = "replayed" => \A result \in ToSet(finished) :
        result.completed /\ Includes(result.stage, "Context") =>
            LET windows == Contexts(result.audit)
                field(k) == windows[k][2]
                before(k) == FoldLeft(LAMBDA n, w : n + w[2].count, 0,
                                      SubSeq(windows, 1, k - 1))
                time(i) == Captured(EventLines[i])
            IN  /\ before(Len(windows) + 1) = Len(EventLines)
                /\ result.summary.windows = Len(windows)
                /\ \A k \in DOMAIN windows :
                    /\ time(before(k) + 1) = field(k).start
                    /\ \A i \in before(k) + 1 .. before(k + 1) :
                            time(i) < field(k).start + WindowMs
                    /\ IF k = Len(windows)
                       THEN field(k).end - field(k).start \in 0 .. WindowMs - 1
                       ELSE /\ field(k).end = field(k + 1).start
                            /\ field(k).end - field(k).start >= WindowMs

\* The audit without what only later stages write; the order of file_activity
\* is left out here.
Upto(stage, audit) ==
    LET names == CASE stage = "Ingest" -> {"error", "ingest"}
                   [] stage = "Sanitize" -> {"error", "ingest", "sanitize"}
                   [] stage = "Context" -> {"error", "ingest", "sanitize", "context"}
                   [] OTHER -> {"error", "ingest", "sanitize", "context", "decision"}
        kept == SelectSeq(audit, LAMBDA record : record[1] \in names)
    IN  [k \in DOMAIN kept |-> IF kept[k][1] # "context" THEN kept[k]
                               ELSE <<"context", [kept[k][2] EXCEPT !.summary.files = ToSet(@)]>>]

Outcome(s) == <<s.approved, s.rejected, s.authorized, s.denied, s.denials>>

\* "Higher stages imply that all preceding stages also run": replays of one
\* file to two stages write the same records up to the lower stage, count the
\* same lines, and the policy stage, which executes nothing, reports the very
\* approvals and denials of the full lifecycle.
StagesAgree ==
    phase = "replayed" => \A a, b \in ToSet(finished) :
        a.completed /\ b.completed /\ Includes(b.stage, a.stage) =>
            /\ Upto(a.stage, a.audit) = Upto(a.stage, b.audit)
            /\ a.summary.lines = b.summary.lines
            /\ a.summary.lines = a.summary.skipped + a.summary.errors + a.summary.ingested
            /\ Includes(a.stage, "Policy") => Outcome(a.summary) = Outcome(b.summary)

\* A golden trace is validated as a match exactly if it expects what the
\* pipeline does, times aside, and what differs is reported in its own layer
\* alone.
GoldenVerdict ==
    \A g \in golden, outcome \in report :
        LET driven == Driven(g.raws)
            untimed(s) == [i \in DOMAIN s |-> [s[i] EXCEPT !.at = 0]]
        IN  /\ outcome.sanitization = {} <=> untimed(g.sanitized) = untimed(driven.sanitized)
            /\ outcome.policy = {} <=> g.batch = driven.batch
            /\ outcome.execution = {} <=> untimed(g.executed) = untimed(driven.executed)
            /\ AllMatch(outcome) <=> g.batch = driven.batch
                                     /\ untimed(g.sanitized) = untimed(driven.sanitized)
                                     /\ untimed(g.executed) = untimed(driven.executed)

\* "Identical inputs must yield identical hashes": two replays of one file to
\* one stage write the same audit stream.
ReplayDeterministic ==
    \A a, b \in ToSet(finished) : a.stage = b.stage => a.audit = b.audit
=============================================================================
