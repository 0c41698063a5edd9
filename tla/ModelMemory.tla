----------------------------- MODULE ModelMemory -----------------------------
(***************************************************************************)
(* ModelMemoryStore, the ProfileSummaryWorker that condenses it on a       *)
(* background thread, and the file that carries it over a restart of       *)
(* dipecsd.                                                                *)
(*                                                                         *)
(* A window is given by its input: the foreground packages, the notifying  *)
(* ones, the hints and the audited actions [type, target, terminal], where *)
(* a target is <<"pkg", package>> or <<"own", name>>.  The persistence     *)
(* path is taken to be configured.                                         *)
(*                                                                         *)
(* The eight maps of counts are one function on pairs <<table, name>>, and *)
(* so are the eight maps of momentum scores; a score is the f64 value of   *)
(* the code times ScoreUnit.  The pending pre-warms, whose order decides   *)
(* nothing, are a set; "nth", the action's place in its window, tells      *)
(* apart those that are the same.                                          *)
(***************************************************************************)
EXTENDS Integers, Sequences, FiniteSets, SequencesExt

CONSTANTS
    Packages,
    NameOrder,        \* packages, hints and action types in alphabetical order
    Inputs,           \* what a window may bring
    Configs,          \* ModelMemoryConfig a start may find:
                      \* [recent, top, decay, effect], decay in thousandths
    IntervalWindows,  \* interval_windows of the summary worker
    MaxCount,         \* u32::MAX, where observation_windows saturates
    MaxWindows,       \* bound on the windows one memory observes, those of a
                      \* file it could not read included
    MaxStarts         \* bound on the starts of the daemon

Names == ToSet(NameOrder)
ActionTypes == {"PreWarmProcess", "KeepAlive", "NoOp"}
Denied == {"DeniedByCapability", "DeniedByPolicy", "RejectedInvalidSchema"}
AuditedActions == [type : ActionTypes, target : {"pkg", "own"} \X Names,
                   terminal : {"Succeeded", "Failed"} \cup Denied]

ASSUME MemoryAssumption ==
    /\ NameOrder \in Seq(Names) /\ IsInjective(NameOrder)
    /\ Packages \subseteq Names
    /\ Inputs \subseteq [foreground : SUBSET Packages, notified : SUBSET Packages,
                        hints : SUBSET Names, actions : Seq(AuditedActions)]
    /\ Configs \subseteq [recent : Nat \ {0}, top : Nat \ {0}, decay : 0..999,
                         effect : Nat \ {0}]
    /\ IntervalWindows \in Nat \ {0}
    /\ MaxCount \in Nat
    /\ MaxWindows \in Nat
    /\ MaxStarts \in Nat

ScoreUnit == 10000
MinScore == 100       \* 0.01, below which decay_map drops an entry

VARIABLES
    pc,           \* "down", "idle", "decide", "observed", "persist", "writing"
    memory,       \* the store; its field "history" is auxiliary, see Fresh
    disk,         \* the file: [state : {"absent", "torn", "whole"}, content]
    job,          \* the worker's thread: [state, windows]
    lastStarted,  \* last_started_window
    starts,       \* starts so far
    source        \* auxiliary: what the process knows of the file, "none" while
                  \* it has neither "loaded" one nor begun to have one "saved"

vars == <<pc, memory, disk, job, lastStarted, starts, source>>

\* An empty map, the value of an entry, 0 where a map has none, and the sum.
NoEntries == [k \in {} |-> 0]
Entry(map, k) == IF k \in DOMAIN map THEN map[k] ELSE 0
Plus(a, b) == [k \in DOMAIN a \cup DOMAIN b |-> Entry(a, k) + Entry(b, k)]

\* ModelMemoryStore::with_config.  "summary" stands for llm_summary by the
\* number of windows it was made from, 0 for none.  "history" records the
\* input of every window this memory has observed, with the decay and the
\* effect windows it met.
Fresh(config) ==
    [recentLimit |-> config.recent, topLimit |-> config.top,
     decay |-> config.decay, effectWindows |-> config.effect,
     windows |-> 0, counts |-> NoEntries, momentum |-> NoEntries,
     pending |-> {}, recent |-> <<>>, summary |-> 0, history |-> <<>>]

\* What stands where there is no memory: before a start, in a torn file.
NoMemory == Fresh(CHOOSE c \in Configs : TRUE)
NoJob == [state |-> "none", windows |-> 0]

Init ==
    /\ pc = "down"
    /\ memory = NoMemory
    /\ disk = [state |-> "absent", content |-> NoMemory]
    /\ job = NoJob
    /\ lastStarted = 0
    /\ starts = 0
    /\ source = "none"

-----------------------------------------------------------------------------
(***************************************************************************)
(* observe_window and its parts.                                           *)
(***************************************************************************)

Outcome(terminal) == IF terminal \in Denied THEN "Denied" ELSE terminal

\* infer_correctness.
InferCorrectness(action) ==
    CASE action.type = "NoOp" /\ action.terminal = "Succeeded" -> "NeutralNoOp"
      [] action.type # "NoOp" /\ action.terminal = "Succeeded" -> "LikelyCorrect"
      [] action.terminal \in Denied -> "PolicyRejected"
      [] action.terminal = "Failed" -> "ExecutionFailed"

\* while recent.len() > limit: pop_front.
KeepLast(s, n) == IF Len(s) > n THEN SubSeq(s, Len(s) - n + 1, Len(s)) ELSE s

SaturatingAdd(n) == IF n < MaxCount THEN n + 1 ELSE n

\* increment and add_momentum, for a map of what is added.
Increment(m, entries) ==
    [m EXCEPT !.counts = Plus(@, entries),
              !.momentum = Plus(@, [k \in DOMAIN entries |-> ScoreUnit * entries[k]])]

\* decay_momentum; a decay of 0 clears the maps.
DecayMomentum(m) ==
    LET decayed(k) == (m.momentum[k] * m.decay) \div 1000
    IN  [m EXCEPT !.momentum =
            [k \in {k \in DOMAIN m.momentum : decayed(k) >= MinScore} |-> decayed(k)]]

\* What a window adds to, and how often, apart from the judged pre-warms.
WindowEntries(input) ==
    LET key(action) == <<Outcome(action.terminal), action.type>>
        listed == {"foreground"} \X input.foreground \cup {"notifying"} \X input.notified
                  \cup {"hints"} \X input.hints
        audited == {key(input.actions[n]) : n \in DOMAIN input.actions}
        times(k) == Cardinality({n \in DOMAIN input.actions : key(input.actions[n]) = k})
    IN  [k \in listed \cup audited |-> IF k \in listed THEN 1 ELSE times(k)]

\* The verdict on a pending pre-warm after one more window: "hit", "miss", or
\* "open" while it stays pending.
Verdict(prewarm, fg, effect) ==
    IF prewarm.package \in fg THEN "hit"
    ELSE IF prewarm.observed + 1 >= effect THEN "miss"
    ELSE "open"

Judged(m, fg) == {w \in m.pending : Verdict(w, fg, m.effectWindows) # "open"}

\* record_prewarm_attribution on the recent records: every pre-warm outcome of
\* the window with the pending target takes the verdict.
Attribute(outcome, id, m, fg) ==
    LET judged == {w \in Judged(m, fg) :
                    /\ w.id = id
                    /\ outcome.type = "PreWarmProcess"
                    /\ outcome.target = w.target}
        verdict == Verdict(CHOOSE w \in judged : TRUE, fg, m.effectWindows)
    IN  IF judged = {} THEN outcome
        ELSE [outcome EXCEPT !.correctness = IF verdict = "hit" THEN "PredictionHit"
                                             ELSE "PredictionMiss"]

\* What the judged pre-warms add to, and how often.
JudgedEntries(m, fg) ==
    LET key(w) == <<Verdict(w, fg, m.effectWindows), w.package>>
    IN  [k \in {key(w) : w \in Judged(m, fg)} |->
            Cardinality({w \in Judged(m, fg) : key(w) = k})]

\* resolve_pending_prewarms.
ResolvePendingPrewarms(m, fg) ==
    LET attributed(r) == [r EXCEPT !.outcomes =
            [k \in DOMAIN r.outcomes |-> Attribute(r.outcomes[k], r.id, m, fg)]]
    IN  [Increment(m, JudgedEntries(m, fg)) EXCEPT
            !.recent = [i \in DOMAIN m.recent |-> attributed(m.recent[i])],
            !.pending = {[w EXCEPT !.observed = @ + 1] : w \in m.pending \ Judged(m, fg)}]

\* register_pending_prewarm: only succeeded pre-warms of a "pkg:" target.
Registered(action) ==
    /\ action.type = "PreWarmProcess"
    /\ action.terminal = "Succeeded"
    /\ action.target[1] = "pkg"

\* Defect variant: scores decay after they are added to, and with them those
\* of the window itself.
Counted_DecayLast(memory0, input) ==
    DecayMomentum(Increment(ResolvePendingPrewarms(memory0, input.foreground),
                            WindowEntries(input)))

\* Pre-warms are judged, then the scores decay, then the window is counted.
Counted(memory0, input) ==
    Increment(DecayMomentum(ResolvePendingPrewarms(memory0, input.foreground)),
              WindowEntries(input))

\* The counters, the recent record and the new pending pre-warms.  A window
\* is identified by its position in the memory's history: window ids are
\* fresh UUIDs.
ObserveWindow(memory0, input) ==
    LET m == Counted(memory0, input)
        id == Len(m.history) + 1
        acts == input.actions
        record == [id |-> id, foreground |-> input.foreground,
                   outcomes |-> [k \in DOMAIN acts |->
                        [type |-> acts[k].type, target |-> acts[k].target,
                         terminal |-> acts[k].terminal,
                         correctness |-> InferCorrectness(acts[k])]]]
    IN  [m EXCEPT
            !.windows = SaturatingAdd(@),
            !.recent = KeepLast(Append(@, record), m.recentLimit),
            !.pending = @ \cup {[id |-> id, nth |-> k, target |-> acts[k].target,
                                 package |-> acts[k].target[2], observed |-> 0] :
                                    k \in {k \in DOMAIN acts : Registered(acts[k])}},
            !.history = Append(@, [input |-> input, decay |-> m.decay,
                                   effect |-> m.effectWindows])]

\* top_scores and top_counts: the best names of a table, without their numbers.
Index(name) == CHOOSE i \in DOMAIN NameOrder : NameOrder[i] = name
Before(values, table, x, y) ==
    \/ values[<<table, x>>] > values[<<table, y>>]
    \/ values[<<table, x>>] = values[<<table, y>>] /\ Index(x) < Index(y)
Best(values, table, limit) ==
    LET names == {k[2] : k \in {k \in DOMAIN values : k[1] = table}}
        place(x) == Cardinality({y \in names : Before(values, table, y, x)}) + 1
        size == IF Cardinality(names) < limit THEN Cardinality(names) ELSE limit
    IN  [n \in 1..size |-> CHOOSE x \in names : place(x) = n]

\* A list of behavior_profile: by momentum, by counts if no score is left.
ProfileList(m, table) ==
    IF \E k \in DOMAIN m.momentum : k[1] = table
    THEN Best(m.momentum, table, m.topLimit)
    ELSE Best(m.counts, table, m.topLimit)

-----------------------------------------------------------------------------
(***************************************************************************)
(* The worker.                                                             *)
(***************************************************************************)

\* ProfileSummaryWorker::poll: a finished job is taken, and its summary, if it
\* has one, replaces the stored one.
Polled(m) == IF job.state = "done" THEN [m EXCEPT !.summary = job.windows] ELSE m
JobAfterPoll == IF job.state = "running" THEN job ELSE NoJob

\* The early returns of maybe_start, once a summarizer is configured.
MayStart(m) ==
    /\ JobAfterPoll = NoJob
    /\ m.windows # 0
    /\ m.windows % IntervalWindows = 0
    /\ m.windows # lastStarted

\* The thread ends with a summary; or with an error, a blank one or a panic.
JobEnds ==
    /\ job.state = "running"
    /\ \E s \in {"done", "failed"} : job' = [job EXCEPT !.state = s]
    /\ UNCHANGED <<pc, memory, disk, lastStarted, starts, source>>

-----------------------------------------------------------------------------
(***************************************************************************)
(* process_window.                                                         *)
(***************************************************************************)

\* The windows in a file that the process could not read and has not replaced.
LeftBehind == IF source = "none" THEN Len(disk.content.history) ELSE 0

\* The first poll; the model input is taken from the memory it leaves.
BeginWindow ==
    /\ pc = "idle"
    /\ Len(memory.history) + LeftBehind < MaxWindows
    /\ memory' = Polled(memory)
    /\ job' = JobAfterPoll
    /\ pc' = "decide"
    /\ UNCHANGED <<disk, lastStarted, starts, source>>

\* The window has been decided and its actions governed.
Observe ==
    /\ pc = "decide"
    /\ \E input \in Inputs : memory' = ObserveWindow(memory, input)
    /\ pc' = "observed"
    /\ UNCHANGED <<disk, job, lastStarted, starts, source>>

\* The second poll, then maybe_start.
Refresh ==
    /\ pc = "observed"
    /\ memory' = Polled(memory)
    /\ IF MayStart(memory)
       THEN /\ job' = [state |-> "running", windows |-> memory.windows]
            /\ lastStarted' = memory.windows
       ELSE job' = JobAfterPoll /\ UNCHANGED lastStarted
    /\ pc' = "persist"
    /\ UNCHANGED <<disk, starts, source>>

\* save_to_path: File::create truncates the file, or fails and leaves it.
OpenFile ==
    /\ pc = "persist"
    /\ disk' = [state |-> "torn", content |-> NoMemory]
    /\ source' = "saved"
    /\ pc' = "writing"
    /\ UNCHANGED <<memory, job, lastStarted, starts>>

OpenFails ==
    /\ pc = "persist"
    /\ pc' = "idle"
    /\ UNCHANGED <<memory, disk, job, lastStarted, starts, source>>

\* Defect variant: the pending pre-warms are skipped by the serializer.
WriteFile_PendingSkipped ==
    /\ pc = "writing"
    /\ \/ disk' = [state |-> "whole", content |-> [memory EXCEPT !.pending = {}]]
       \/ UNCHANGED disk
    /\ pc' = "idle"
    /\ UNCHANGED <<memory, job, lastStarted, starts, source>>

\* The record is written completely; or the write fails, is only warned of,
\* and leaves a partial file.
WriteFile ==
    /\ pc = "writing"
    /\ \/ disk' = [state |-> "whole", content |-> memory]
       \/ UNCHANGED disk
    /\ pc' = "idle"
    /\ UNCHANGED <<memory, job, lastStarted, starts, source>>

-----------------------------------------------------------------------------
(***************************************************************************)
(* Starts and stops of the process.                                        *)
(***************************************************************************)

\* Defect variant: the oldest records are kept when the limit shrinks.
ApplyConfig_DropsNewest(m, config) ==
    [m EXCEPT !.recentLimit = config.recent, !.topLimit = config.top,
              !.decay = config.decay, !.effectWindows = config.effect,
              !.recent = IF Len(@) > config.recent
                         THEN SubSeq(@, 1, config.recent) ELSE @]

\* apply_config.
ApplyConfig(m, config) ==
    [m EXCEPT !.recentLimit = config.recent, !.topLimit = config.top,
              !.decay = config.decay, !.effectWindows = config.effect,
              !.recent = KeepLast(@, config.recent)]

\* load_from_path: only a whole file can be parsed, and it too may fail to be
\* opened or read.
LoadResults == IF disk.state = "whole" THEN {"loaded", "none"} ELSE {"none"}

\* Defect variant: the file is read, but what was read is not used.
LoadOrDefault_Unread(config, loaded) == Fresh(config)

\* load_or_default: any error means starting fresh.
LoadOrDefault(config, loaded) ==
    IF loaded = "loaded" THEN ApplyConfig(disk.content, config) ELSE Fresh(config)

\* A file that could not be opened stays as it is, until the first save.
Start ==
    /\ pc = "down"
    /\ starts < MaxStarts
    /\ starts' = starts + 1
    /\ \E config \in Configs, loaded \in LoadResults :
            /\ memory' = LoadOrDefault(config, loaded)
            /\ source' = loaded
    /\ job' = NoJob
    /\ lastStarted' = 0
    /\ pc' = "idle"
    /\ UNCHANGED disk

\* The process ends, at any point; its memory and its thread are gone.
Crash ==
    /\ pc # "down"
    /\ pc' = "down"
    /\ memory' = NoMemory
    /\ job' = NoJob
    /\ lastStarted' = 0
    /\ source' = "none"
    /\ UNCHANGED <<disk, starts>>

\* The bounds are reached.
Finished ==
    /\ pc = "down" /\ starts = MaxStarts
    /\ UNCHANGED vars

Next ==
    \/ JobEnds \/ BeginWindow \/ Observe \/ Refresh
    \/ OpenFile \/ OpenFails \/ WriteFile
    \/ Start \/ Crash \/ Finished

Spec == Init /\ [][Next]_vars

-----------------------------------------------------------------------------
(***************************************************************************)
(* Properties.                                                             *)
(***************************************************************************)

\* What a pre-warm of package p in window i has come to, read off the history:
\* p came to the foreground before its time was up, or that is up, or neither
\* yet.  The time is what is configured when a window closes.
Came(h, i, p) ==
    LET up(j) == j - i >= h[j].effect
    IN  IF \E j \in (i + 1)..Len(h) :
            p \in h[j].input.foreground /\ \A l \in (i + 1)..(j - 1) : ~up(l)
        THEN "hit"
        ELSE IF \E j \in (i + 1)..Len(h) : up(j) THEN "miss"
        ELSE "open"

\* The registered pre-warms of the history, as <<window, action>> pairs.
ActionOf(h, w) == h[w[1]].input.actions[w[2]]
Prewarms(h) ==
    UNION {{<<i, k>> : k \in {k \in DOMAIN h[i].input.actions :
                                Registered(ActionOf(h, <<i, k>>))}} : i \in DOMAIN h}

\* The incremental attribution agrees with the definition: every successful
\* pre-warm is counted once, as hit or as miss, by the windows that followed
\* it, or is still pending, across any number of restarts of the process.
AttributionMatchesHistory ==
    LET h == memory.history
        with(p, v) == Cardinality({w \in Prewarms(h) :
                        ActionOf(h, w).target[2] = p /\ Came(h, w[1], p) = v})
    IN  \A p \in Packages :
            /\ Entry(memory.counts, <<"hit", p>>) = with(p, "hit")
            /\ Entry(memory.counts, <<"miss", p>>) = with(p, "miss")
            /\ Cardinality({w \in memory.pending : w.package = p}) = with(p, "open")

\* The packages of the latest window come before all others, as long as decays
\* are below a half: it then outweighs all windows before it.  The list is empty
\* only if no window had a package: when all scores have decayed, the counts
\* stand in.
RecentFirst ==
    LET h == memory.history
        latest == h[Len(h)].input.foreground
        list == ProfileList(memory, "foreground")
    IN  /\ (\A i \in DOMAIN h : 2 * h[i].decay < 1000) =>
               \A n \in 1..memory.topLimit : n <= Cardinality(latest) => list[n] \in latest
        /\ list = <<>> => \A i \in DOMAIN h : h[i].input.foreground = {}

\* The feedback is a run of the latest windows, and a succeeded pre-warm in it
\* carries exactly the verdict the later windows give.
FeedbackInOrder ==
    LET h == memory.history IN
    \A n \in DOMAIN memory.recent :
        LET r == memory.recent[n] IN
        /\ r.id = Len(h) - Len(memory.recent) + n
        /\ r.foreground = h[r.id].input.foreground
        /\ Len(r.outcomes) = Len(h[r.id].input.actions)
        /\ \A k \in DOMAIN r.outcomes :
            Registered(ActionOf(h, <<r.id, k>>)) =>
                r.outcomes[k].correctness =
                    CASE Came(h, r.id, r.outcomes[k].target[2]) = "hit" -> "PredictionHit"
                      [] Came(h, r.id, r.outcomes[k].target[2]) = "miss" -> "PredictionMiss"
                      [] OTHER -> "LikelyCorrect"

\* What the model sees of the past agrees with it: the feedback on the recent
\* windows and the profile, which gives recent windows more weight, as
\* model-memory.md says of the decay.
FeedbackMatchesHistory == FeedbackInOrder /\ (memory.history # <<>> => RecentFirst)

\* The times the windows of a history have added to an entry, and what they are
\* worth, discounted window by window.
Times(h, k) ==
    Cardinality(UNION {{<<i, n>> : n \in 1..Entry(WindowEntries(h[i].input), k)} :
                            i \in DOMAIN h})
Worth(h, k) ==
    LET worth[n \in 0..Len(h)] ==
            IF n = 0 THEN 0
            ELSE (worth[n - 1] * h[n].decay) \div 1000
                 + ScoreUnit * Entry(WindowEntries(h[n].input), k)
    IN  worth[Len(h)]

\* After every window the maps are those of the history, across restarts and
\* changes of the decay: no window is counted twice, or lost but for the
\* saturation of the window count, and a score is what the windows with its name
\* are worth, but for what was dropped below MinScore, which never adds up to
\* more than a score of MinScore in every window would.
CountersMatchHistory ==
    pc = "observed" =>
        LET h == memory.history
            keys == UNION {DOMAIN WindowEntries(h[i].input) : i \in DOMAIN h}
            missing(k) == Worth(h, k) - Entry(memory.momentum, k)
        IN  /\ memory.windows = IF Len(h) < MaxCount THEN Len(h) ELSE MaxCount
            /\ {k \in DOMAIN memory.counts : k[1] \notin {"hit", "miss"}} = keys
            /\ \A k \in keys :
                /\ memory.counts[k] = Times(h, k)
                /\ missing(k) >= 0
                /\ \A top \in {h[i].decay : i \in DOMAIN h} :
                    (\A i \in DOMAIN h : h[i].decay <= top) =>
                        missing(k) * (1000 - top) < 1000 * MinScore

\* A readable file that the process has loaded or written holds an earlier
\* state of its memory.  Nothing is said of a file that load_or_default could not
\* read: the process has begun from nothing beside it, and will overwrite it.
DurablePrefix ==
    (pc # "down" /\ disk.state = "whole" /\ source # "none") =>
        /\ Len(disk.content.history) <= Len(memory.history)
        /\ disk.content.history = SubSeq(memory.history, 1, Len(disk.content.history))
        /\ disk.content.summary <= memory.summary

=============================================================================
