# DiPECS: TLA+ models, model checking and proofs

DiPECS watches an Android device, condenses what it sees into windows, lets a
decision backend (rules, a local evaluator or a cloud LLM) suggest actions such
as pre-warming an app, passes the suggestions through a policy, has the device
execute the approved ones and remembers how they turned out. This directory
holds TLA+ models of the way from a raw event to a remembered outcome, of the
training of the next-app model and of the replay of traces, the TLC runs that
check them, and TLAPS proofs of every safety property the runs check about the
pipeline, the governance of actions, the memory and its file, the router, the action
bridge, the trace file, the way from a raw event to a verdict and the next-app model;
the replay is model-checked only. Source paths below are relative to the repository.

    cd tla
    tlc -config DaemonPipeline.cfg DaemonPipeline      # one run; the table below lists all
    tlapm DaemonPipelineProofs.tla                     # and every other *Proofs.tla

`PROJECT.json` maps every definition to the lines it models and lists
components, hazards, runs, defect variants, findings and theorems.

## 1. Inventory

```
 Android app (Kotlin)                         dipecsd (Rust)
 -------------------                 --------------------------------------------
 collectors -> EventStore  --file--> JsonlTailer --+
 (notifications, usage)    (JSONL)   /proc, binder +-> Task 1 --raw channel--> Task 2
                                     , system     --+   (collection)  4096     (processing)
                                                                                 |
    one window (10 s):  sanitize -> WindowAggregator -> DecisionRouter -> PolicyEngine
                                                            ^                    |
                        ModelMemory <-- audit records <-- ActionLifecycle <------+
                            |                                   |
                        memory file, summary thread        AndroidAdapter --TCP--> AuthorizedActionSocketServer
```

| Component | State | Operations | What is hard | What makes it correct |
|---|---|---|---|---|
| Daemon pipeline (`aios-daemon`, `action_bus`, `context_builder`) | raw channel, current batch, open window and its statistics, deadline, ordinal, trace file | poll, send, check for shutdown, receive, close a window, process it, start, stop | two tasks, back-pressure, a shutdown at any moment, start-up that fails half way, a quiet period with a window open | every event in exactly one window, in order; nothing left behind at shutdown; both tasks end |
| Policy engine and lifecycle (`policy_engine`, `action_lifecycle`, `governance`) | verdict per coordinate, record being built, records, window counts | evaluate a batch, validate, check, execute, count | verdicts are made in one pass and looked up in another; policy precedes schema; a cap that counts approvals only | one legal lifecycle and one record per action; only approved actions on packages that were seen are run |
| Model memory (`context_memory`) and summary worker (`pipeline`) | counters, momentum scores, pending pre-warms, recent feedback, summary, file, job | observe, attribute, persist, load, start and take a job | crash between truncating and writing; limits that change over a restart; judgement windows after the action; a file that cannot be opened at a start; a thread that ends at any time | the incremental state is what the history of windows defines; a file that was loaded or written is an earlier state |
| Decision router (`router`, `cloud_llm/client`) | timestamps of errors | route, call, record error or success | slow calls against a sliding window; overlapping tests; a no-op that carries an error | an outage costs every `threshold + 1`-th window, no less and no more; no lock-out; sensitive windows stay local |
| Action bridge (`android_adapter`, `AuthorizedActionSocketServer.kt`) | connections, pool and queue, failure count and back-off (two atomics), receipts | forward, accept, read, verify, execute, answer, stop | four threads, a read timeout against a slow device, a full pool, `shutdownNow` | a reported success is real; a rejected action never runs; the daemon is never blocked for ever |
| Trace file (`android_jsonl`, `EventStore.kt`) | bytes of the file; offset and partial line | append, clear, poll | cuts inside rows and characters, truncation, torn rows, rows that do not parse | in order, at most once, nothing skipped in a growing file |
| Privacy air-gap, text analysis, ingress (`privacy_airgap`, `text_analysis`, `collector_ingress`) | none | accept, sanitize, analyze, summarize a window | eight kinds of events with private fields of their own | no raw text, key, name or parcel gets into a context; no package is lost or invented |
| Rules, local evaluator, fallback (`rule_based`, `local_evaluator`, `prefetch_target`, `fallback`) | none of their own; read context, profile and feedback | suggest | rules of suggestion and rules of policy live in two crates; feedback closes a loop over windows | the policy approves what they suggest; the batch is the best of the candidates |
| Cloud LLM (`cloud_llm`) | configuration | configure, request, translate | any reply of a model is possible | a reply is used whole or not at all; prefetch targets get a form the policy accepts |
| Predictive backend (`predictive`) | artifact: tables and weights | train, fit, validate, load, rank, serve | tables of several ages, damaged files, weights tried in place | what was trained loads; rankings are sound; predictions are approved |
| Trace engine and replay (`trace_engine`, `replay`) | audit stream, window, counts | read a line, close a window, record and validate a golden trace | malformed lines, missing and unordered times, six stages | windows tile the trace; stages agree; a golden trace fails where it differs; same input, same hash |
| System collectors | counters of failures | read `/proc`, binder, properties | I/O | (I/O) |
| CLI, benchmarks | none shared | offline passes | statistics | (statistics) |
| Device executors, cache, services, uploader, screens | cache, preferences | Android API calls | service life cycle | bounded cache, one server |

Components talk by: the file (app to daemon, no lock), the raw channel (Task 1
to Task 2, the only shared state between the tasks besides the shutdown
broadcast), plain calls inside Task 2 (router, policy, lifecycle, memory run one
after the other within `process_window`), a thread handle (summary job), and one
TCP connection per action (daemon to device).

The hazards (what can go wrong and would hardly be met by a unit test) are in
`PROJECT.json`, each with its line and the properties that guard against it.

## 2. Modules

| Module | Models | State and actions |
|---|---|---|
| `EventBatching` | abstract: what the ingest path promises | accepted and emitted events; `Accept`, `Emit`, `Drain`, `Abort` |
| `DaemonPipeline` | `lib.rs`, `daemon.rs`, `collection.rs`, the loop of `pipeline.rs`, `action_bus.rs`, `context_builder.rs` | Task 1 is `Poll, Send, SendFails, BatchSent, CheckShutdown, Wake`; Task 2 is `StartProcessing, StartFails, ReceiveRaw, CheckDeadline, WindowExpired, RawChannelClosed, ProcessWindow`; the signal tasks are `RaiseSignal, LoseHandler`; `AbortCollector` is the drop of the runtime after an error |
| `DaemonPipelineProofs`, `ActionGovernanceProofs`, `ModelMemoryProofs`, `DecisionRouterProofs`, `ActionBridgeProofs`, `JsonlTailerProofs`, `DecisionFlowProofs`, `PredictiveBackendProofs` | theorems about the modules they are named after | |
| `PolicyEngine` | `policy_engine.rs`, capability levels | operators: `EvaluateAction` and the tests it makes, in their order |
| `ActionGovernance`, `MCActionGovernance` | `action_lifecycle.rs` around `PolicyEngine` | `BeginWindow` evaluates the batch (`evaluate_batch`), then every coordinate goes through `Propose, ValidateSchema, CheckPolicy, Execute`; `EndWindow` counts |
| `ModelMemory`, `MCModelMemory` | `context_memory.rs`, `ProfileSummaryWorker` | `BeginWindow` (poll and take the job), `Observe`, `Refresh` (start a job), `OpenFile, OpenFails, WriteFile` (persist), `JobEnds`, `Start` (`LoadOrDefault`), `Crash` |
| `DecisionRouter`, `MCDecisionRouter` | `router/mod.rs`, the cloud client's outcome | `CloseWindow` (time passes), `DecideLocally`, `CallCloud`, `CloudAnswers`, `CloudFails` |
| `ActionBridge` | `android_adapter.rs`, `AuthorizedActionSocketServer.kt` | adapter: `Forward, Receive, ReadTimeout`; server: `Accept, TakeQueued, Read, Verify, CountFailure, BackOff, ClearFailures, ClearBackoff, Execute, Answer, Stop`; time: `Expire, BackoffEnds` |
| `JsonlTailer`, `MCJsonlTailer` | `android_jsonl.rs`, `EventStore.kt` | writer: `Append1, WritePiece, Killed, Clear`; tailer: `CheckLength` (stat), `ReadChunk` (seek, read, split, parse), `Restart` (the daemon starts again without an offset) |
| `PrivacyAirGap` | `collector_ingress.rs`, `privacy_airgap.rs`, `text_analysis.rs`, `build_summary` | operators: `Accept`, `SanitizeWithTier`, `AnalyzeText`, `StructuredContext` |
| `LocalBackends` | `rule_based.rs`, `local_evaluator.rs`, `prefetch_target.rs`, `fallback.rs`, the composite of the router | operators: `GenerateIntents`, `EvaluateIntents`, `MergeResults`, `FallbackNoOp` |
| `CloudBackend` | `cloud_llm/config.rs`, `mod.rs`, `translate.rs`, the summarizer's configuration | operators: `CloudState`, `SummarizerState`, `RequestIntents`, `NormalizePrefetchTarget` |
| `DecisionRules` | features and route of a context (`router`), `PolicyEngine` applied to a batch | operators: `RouteOf`, `Settle`, `KnownTargets` |
| `DecisionFlow`, `MCDecisionFlow` | composition: one window after another through all of the above, back to the feedback | `IngestEnvelope, IngestInternal, CloseWindow, DecideLocally, AskCloud, Govern, Observe` |
| `TraceEngine` | `trace_engine.rs` | operators: what the pipeline does with a golden trace's events, and the divergences of each layer |
| `TraceReplay`, `MCTraceReplay` | `replay.rs`, golden trace recording | `WriteLine`, `StartReplays`; per line `SkipBlank, SkipNoRawEvent, ParseError, IngestLine, AbortReplay`; `EndOfFile`; `RecordGolden, ValidateGolden` |
| `NextApp` | tables, artifact validation, component rankers and fusion of `predictive` | operators: `TrainBaseArtifact`, `IsArtifact` (what deserializes), `ValidArtifact`, `ComponentRankings`, `Fused`, `RankApps` |
| `PredictiveBackend`, `MCPredictiveBackend` | `train.rs`, `ensemble.rs`, `backend.rs` | `AddExample, Train, Ascend, NextSweep, FinishAscent, FitReranker, Load, Serve` |

Granularity. An action ends where the code can be interrupted by another actor:
at an `await` or a loop turn in the daemon; at each system call in the tailer
(`stat` and the read are two actions, since the app may write or clear between
them) and in persistence (truncation and write are two, since the process may
die between them); at each atomic operation in the device server. Within
`process_window` nothing else touches the state of the router, the policy and
the memory, so each of them has a module of its own, driven by whatever the
others could hand it: batches are untrusted input to `ActionGovernance`, and
audited actions are input to `ModelMemory`. `DecisionFlow` puts the decision path
together again, with real contexts and real batches: each of its actions is a whole
step of `process_window`. It leaves to the other modules what they check in
detail: the breaker's clock (here the breaker may be open whenever there is a
cloud), the order of the audit, the predictor (here it comes to any of a set of
rankings, `Predictions`, which `PredictedIntents` turns into intents as the code does)
and the rest of the memory. Replay and training are sequential programs; there an
action is one line, one window, one component of the ascent.

Data. Events are numbers in the order they were produced. An action's target is
a prefix form and a package, the two things the policy looks at. In
`ActionGovernance` a confidence is whether it reaches the floor, in
`DecisionRouter` a context is the four features the router reads. Momentum scores
in `ModelMemory` are multiples of 0.0001, rounded down at each decay; decays are
thousandths. The history kept beside the memory records each window with the decay
and the effect window it met; the memory's own steps never read it.
Time in `DecisionRouter` is a number, because durations decide its behaviour; in
the other modules a deadline, timeout or expiry may happen at any moment, which
includes every real timing. In `JsonlTailer` the file is a sequence of byte
kinds (`brace` for `{`, `newline`, lead and continuation byte of a character, anything else),
because offsets, boundaries and the choice of whether to rewind depend on them.
In `PrivacyAirGap` a text is the classes of its characters, the keyword groups in
it, which half of the two-word keyword it ends or begins with, and a word for all
the rest. Confidences, scores and weights are the `f32` values in hundredths;
in `NextApp` logarithms are a table in hundredths (`Logs`) and exponentials are rounded to
powers of two, after the order they induce has been taken. The stochastic
descent of the logistic reranker may end with any of a set of weight vectors. A
hash of an audit stream is the stream itself.

Definitions named `X_Something` marked *Defect variant* are not part of a model.
Each is a plausible mistake in the code `X` stands for; put in its place it makes
TLC refute the property it is paired with in `PROJECT.json`.

## 3. Runs

| Run | States | What it shows |
|---|---|---|
| `pipeline` | 70,191 | events are conserved in order over batch, channel, open window, closed window and processed windows; nothing is left at shutdown; statistics belong to their window; trace lines are increasing runs of events; the pipeline implements `EventBatching`; a signal ends both tasks, also against a full channel, and so does the loss of both handlers; every event is processed without a signal |
| `governance` | 65,556 | all combinations of type, target, urgency, risk, confidence, route and context, and batches of several intents and actions: one legal lifecycle and one record per action; the adapter ran exactly the dispatched ones, in order; the running count computes the declarative rule of verdict and cap, in which what the schema rejects never uses up a cap; no package is acted on that the window has not seen |
| `memory` | 633,287 | counters, attribution and feedback equal their definitions over the whole history, with crashes, restarts, changed limits, decays and effect windows, and saturation; a momentum score is what the history is worth but for a bounded loss; the profile puts the latest window first while all decays are below a half, and falls back to the counts; a readable file that the process has loaded or written is an earlier state of its memory |
| `router` | 1,901,725 | in an outage exactly one of `threshold + 1` windows in a row within the breaker's window is given up; never two no-op windows in a row; a no-op only after failures; sensitive windows stay local |
| `bridge` | 265,328 | a success is real and single; a rejection is final; failures and back-off are earned however the threads interleave; every forwarded action returns, from a server that stops too |
| `tailer` | 66,192 | since the last start of the daemon rows come in order and at most once; of a file that only grows by whole rows nothing is skipped and complete rows are delivered in the end, after a restart again from the first |
| `decisions` | 1,347,462 | contexts do not depend on private content, and name exactly the packages of their raw events; the policy denies no local suggestion but for low confidence, and none at all in a window without device penalties, whatever the feedback; the evaluator's batch against a declarative ranking; no approved action of any reply on a package outside the window; prefetch targets of a reply are never denied for their form |
| `replay` | 754,646 | windows tile the trace by captured time; replays of one file to six stages agree; golden traces recorded by drifting revisions are reported in exactly the layers that differ |
| `predictive` | 11,060 | a trained artifact validates; the ascent keeps weights and hit rate together and never loses; rankings from trained, older and damaged files are sound; predictions pass the policy |
| `breaker_timeouts`, `confidence_range`, `replay_hash` | | violations, see section 6 |

### Bounds

* `Capacity = 2`, `MaxBatch = 3`, `MaxEvents = 5`: a batch larger than the
  channel, so the collector waits inside a batch; enough events for a full
  channel, an open window and a closed one at a time. The theorems remove the
  bounds.
* Governance: every single action under every intent, which is all the filters
  look at; and, with `MaxActions = 1`, up to three actions of three kinds in an
  intent and two intents in a batch: actions before, at and beyond the cap, and a
  cap that must start again with the next intent. One window: the policy engine
  and the lifecycle keep nothing from one window to the next.
* Memory: four windows, those in a file that could not be read included, and effect
  windows of 1, 2 and 3, so a pre-warm is registered,
  judged by a later window or expired, and one more window follows, and pre-warms with
  different deadlines are open together after a restart; `recent` 1 or 3, so a
  record leaves the list before it is judged and a restart shrinks the list; decays
  of 0.09, so that a score falls below 0.01 and is dropped within the bounds, of
  0, which clears the scores, and of 0.9, the default; a profile of one or two names;
  `MaxCount = 2` (for `u32::MAX`), so the window count saturates; an interval of 2,
  so that windows with and without a job meet the saturated count; two starts, with a
  crash possible at every step. The theorems remove all of these bounds.
* Router: threshold 2, window 4, gaps of 1 and 3 and calls of 0 and 2, so errors
  lie inside, on and beyond the cutoff; five decisions are a threshold of failures, the
  window given up, and a second threshold of failures, so every run of three windows
  of an outage occurs, with the no-op first, in the middle and last. `BreakerTimeouts.cfg` has the
  default values in units of 5 s.
* Bridge: two actions, a refused client and an authenticated one, two threads, a
  queue of one, a back-off after two failures. Four connections overfill pool and
  queue; a refused client and an expired envelope make up a back-off, and two
  threads are enough to interleave the two atomics. (With two refused clients the
  invariants hold as well, over 2,494,023 states, too many for liveness.)
* Tailer: three rows of the shapes `{x`, `{{` and `{` with a two-byte character,
  one clear, one torn row and one restart; writes may stop after every byte.
* Decisions: a window of up to three events and one of one event, so that
  the second meets the outcomes of the first; an event of every kind with and
  without the features the backends look at; a cloud, a cloud that cannot be
  configured, a summarizer that cannot; memories that are empty or in which every
  local action was rejected and failed; replies with all forms of targets.
  `PrivacyThreshold = 1`, so that one notification of the two sensitive hints is
  over it and three events suffice for every route. `ConfidenceRange.cfg` has the defaults
  and three windows.
* Replay: files of four lines, of five malformed forms and seven events; windows of
  2 ms and captured times 1, 2, 4 and none, so that times fall inside, on and beyond
  the end of a window, repeat, decrease and are missing.
* Predictive: up to four examples of four kinds over two users and three apps, of
  which every other one is held out (`ValModulus = 2`, `ValCutoff = 1`), so that
  there are examples to fit and to validate on; a grid of four weights; an artifact
  file that is missing, sound, old, or damaged in ten ways; logarithms of the numbers up
  to three times the examples, the largest the scores ask for.

Two packages are enough wherever packages occur: one that was seen or opened and
one that was not. Deadlock is checked in the first six runs, where `Stopped` and
`Finished` steps stand for a program that is done or a bound that is reached; not
in `decisions`, `replay` and `predictive`: a replay and a training run end, and the
daemon's windows are bounded.

### Fairness

* `DaemonPipeline`: the tokio runtime keeps polling ready tasks and timers fire,
  so each task's next step is weakly fair. `tokio::select!` starts at a random
  branch, so a ready channel is not passed over for ever in favour of the timer:
  `ReceiveRaw` and `RawChannelClosed` are weakly fair on their own. Signals are
  owed by nobody.
* `ActionBridge`: only the adapter is fair; its socket has a read timeout, so
  either an answer or the timeout ends the wait. Nothing is assumed of the device.
* `JsonlTailer`: the collection loop polls for ever, and an append once begun goes
  on unless the app is killed. No fairness for new rows, clears or kills.

## 4. Proofs

All theorems hold for every value of the constants that meets the assumptions
named below; TLC evaluates these assumptions in the runs. The sources' limits
(`MaxEvents`, `MaxRows`, `MaxWindows` and the like) are any natural numbers in them.
Where a theorem states a property of a run, `PROJECT.json` names it.

Induction. The library's induction theorems cannot be instantiated by the
installed provers. Where a proof needs an induction it takes a least
counterexample instead (the lemma `LeastNatural` of each module that needs it, from
the well-foundedness of `<`): the least index whose verdict, count or row is wrong has a predecessor
that is right. The same works for the existence of a recursively defined
function: the approvals counted so far (`ApprovedCount`) and the lists of a window
summary (`Built`) exist because for each length there is a function that satisfies
the recursion, and a least length without one cannot be. In the longer modules this is
done once, as `UpTo` (a set of naturals with 0 that is closed under successor up to a
bound has all numbers up to it) and `RecursionExists`.

Ranked lists. Where the code sorts, the model ranks: the element at place `n` is the
one with `n - 1` better ones. That every place is taken, once, needs that "better" is a
strict total order and a pigeonhole argument (`PlacesTaken` and its like): places are
distinct and between 1 and the number of elements, so all numbers are places.

### `DaemonPipelineProofs`

| Theorem | Statement |
|---|---|
| `TypeCorrect` | `Spec => []TypeOK`, the bound on the channel included |
| `Invariance` | `Spec => []IInv` |
| `Conservation` | `Spec => []EventsConserved` |
| `StatsAgree` | `Spec => []StatsMatchWindow` |
| `NothingLost` | `Spec => []NothingLostAtShutdown` |
| `TraceInOrder` | `Spec => []TraceFaithful` |
| `Refinement` | `Spec => ImplementsBatching` |

Assumption: `PipelineAssumption` (`Capacity` a positive natural number, the
bounds natural numbers).

`EventsConserved` alone is not inductive: when a step takes the window, the
buffer or the batch, the places it overwrites must be known to be empty.
`IInv` adds this: `BatchInv` (no unsent events outside `send`, so a poll overwrites
nothing), `WindowInv` (a window is held exactly in the two processing states; the
buffer is empty there; once the loop is on its last window the collector is done
and the channel empty, so a shutdown cannot strand events; before start-up is over
nothing was delivered, so a failing start-up is an `Abort`), and `CountInv`
(the counter of processed events, for `NothingLostAtShutdown`). The argument for a
step is that it moves the head of one queue to the end of the one before it
(`MoveHead`) or the whole of it, which leaves the concatenation unchanged.
`Refinement` then needs that the delivered events are a prefix of `1, 2, ...`
(`DeliveredPrefix`): every window is the next run of accepted events. So does
`TraceInOrder`: a line holds a window, hence a run of consecutive events, and lies
behind all lines before it.

### `ActionGovernanceProofs`

For all batches, routes and contexts (`GovernanceAssumption`: a batch is a vector
of intents of the code's type; `PolicyAssumption`: the cap is a natural number, the
risk limit one of the three):

| Theorem | Statement |
|---|---|
| `VerdictsSound` | `Spec => []VerdictsMatchRule`: the pass that counts approvals computes the declarative rule, in which an action is over the cap if enough actions before it are approved |
| `AuditInvariance` | `Spec => []AuditInv` |
| `AuditIsComplete` | `Spec => []AuditComplete` |
| `NothingInvented` | `Spec => []NoInventedPackage` |
| `AuditedOnce` | `Spec => []ExecutionMatchesAudit` |

`AuditInv` says where the pass over the coordinates is: `VerdictInv` (the verdicts
looked up are those of the batch at hand), `StageInv` (the record being built is the
prefix of a legal lifecycle that the stage asks for), `CoverInv` and `OrderInv` (the
coordinates done are those before the current one, in order, without a gap),
`RecordInv` (every finished record is a legal lifecycle, one for each coordinate done)
and `SummaryInv` (the counts of a window). `ExecInv` adds that the adapter
is given approved actions of the window only. `ExecutionMatchesAudit` is stated by
position: the n-th dispatched record is that of the n-th execution, and there are as
many of one as of the other.

### `ModelMemoryProofs`

For all configurations, decays, limits and histories (`MemoryAssumption`), with
crashes and restarts anywhere:

| Theorem | Statement |
|---|---|
| `MemoryInvariance` | `Spec => []MemoryInv` |
| `FileIsPrefix` | `Spec => []DurablePrefix`: a readable file that was loaded or written is an earlier state of the running memory |
| `CountIsExact` | `Spec => []WindowsCounted`: the window count is the length of the history, up to its saturation |
| `AttributionIsExact` | `Spec => []AttributionMatchesHistory`: hits, misses and open pre-warms are those that the history defines |
| `CountersAreExact` | `Spec => []CountersMatchHistory`: counts and scores are those of the history, scores but for a bounded loss |
| `FeedbackIsExact` | `Spec => []FeedbackMatchesHistory`: the feedback and the order of the profile follow from the history |

`load_or_default` starts fresh on any error, so also when a whole file cannot be opened
or read; the memory then has nothing to do with the file until the first save truncates
it. The variable `source`, which no step of the code reads, says whether the process has
loaded the file or begun to write it, and `Backed` that such a file is readable; this is
the condition of `DurablePrefix`. The property then needs that no step takes the memory
back: windows are appended, and a
summary is only replaced by one of a later window. The latter is `JobInv`: one job
at a time, started from all windows observed by then, hence at least as new as the
summary in place, and gone with the process.

The other three rest on `IsMemory(m)`, which says of a memory, of the one in the
file as of the running one, that it is what its history defines; a process that is
down has a memory that says nothing. Its parts, each kept by one more window:

* `AttributedIn`: the pending pre-warms are the open ones of the history, with the
  deadline of the effect window they met, and the hit and miss counts are the numbers of
  the settled ones. A window settles an open pre-warm or leaves it open, and never
  changes a settled one (`CameGrows`, `VerdictsGrow`).
* `RecordedIn`: the recent records are those of a run of the latest windows, with the
  verdicts of now.
* `CountedIn`: `Times` and `Worth` grow by exactly what the window adds; what was
  dropped below `MinScore` stays bounded (`LossBounded`): each step scales the loss by
  the decay and adds less than `MinScore`, so the loss times `1 - decay` stays below
  `MinScore`.
* `LatestIn`: while all decays are below a half, only packages of the latest
  window have a score of a whole unit: all older windows together are worth less. The
  ranking of the profile by score (`BestFirst`) then puts these packages first.

Two properties had to be restated for this, since they held only in the run. A score as
the sum of its separately decayed and rounded parts is exact for the decays the run had
and wrong for others, because the code rounds the sum; `Worth` decays the sum.
That the latest window comes first fails with the default decay of 0.9, where a package
of many earlier windows outweighs it; the property now says for which decays it holds,
and the run includes the default.

### `DecisionRouterProofs`

For all contexts, thresholds, breaker windows and durations (`RouterAssumption`):

| Theorem | Statement |
|---|---|
| `Invariance` | `Spec => []IInv` (type correctness included) |
| `Privacy` | `Spec => []SensitiveStaysLocal` |
| `OneWindowAtMost` | `Spec => []NoLockOut`, if the breaker's threshold is not 0 |
| `BreakerInvariance` | `Spec => []BreakerInv` |
| `OneGivenUpPerRun` | `Spec => []BreakerPaces` |
| `NoOpIsEarned` | `Spec => []NoOpOnlyAfterFailures` |

`IInv` carries two facts over a step: a call under way has passed the privacy gate,
and a no-op has left no errors to count. With a threshold of 0, which the
configuration does not exclude, the breaker is always open and every window a
no-op; the theorem says so by its assumption. `BreakerInv` ties the breaker's list
to what has happened: the timestamps are in order (`Sorted`), they are the ends of the
cloud calls that failed in a row up to now (`ErrorRun`), and a call
under way was let through by a breaker that has not changed since (`CallAllowed`).
The lemma behind the timing is `RecentAreLast`: of timestamps in order the recent
ones are the last ones, so the count reaches `k` exactly when the `k`-th from the
end is recent.

`BreakerPaces` says what the breaker does for a failing cloud. The no-op counts as a
success and clears the list, so the window after it calls the cloud again, however long
the breaker's window is; the breaker saves one call in `threshold + 1` and no more.
In a run of `threshold + 1` windows of an outage that falls within the breaker's window
one at least is given up, or the last would call the cloud right after a threshold of
recent failures (`CallsWait`); and one at most, since the second would need a threshold of
failures since the first (`NoOpOnlyAfterFailures`, `NoOpsRouted`). `OneInTheRun` puts the
two together.

### `ActionBridgeProofs`

For any number of actions, other clients, threads and queue places
(`BridgeAssumption`):

| Theorem | Statement |
|---|---|
| `TypeCorrect` | `Spec => []TypeOK`: the bounds of pool and queue included |
| `Invariance` | `Spec => []IInv` |
| `Success` | `Spec => []SuccessIsReal` |
| `Rejection` | `Spec => []RejectedNotRun` |
| `AuthInvariance` | `Spec => []AuthInv` |
| `Backoff` | `Spec => []BackoffIsEarned` |

`IInv` says what the device has done for an action by the place of its connection
(`Progress`: nothing before `answering`, one run there, no receipt yet) and that
the adapter has at most one action under way and none when it is idle
(`OneAtATime`), without which an action could be offered, and so run, twice. The
back-off's atomics play no role in it: the two properties do not rest on them. Most
steps only move a connection (`Moves`) or refuse it (`Refusal`). `AuthInv` is about
the atomics: between the increment and the store of the back-off a thread holds the
count it got, and neither the counter nor a count that is held exceeds the number of
connections ever counted, which no reset lowers; a connection is counted once, after
it was refused.

### `JsonlTailerProofs`

For rows of all lengths and shapes (`TailerAssumption`: a row opens with a brace and
ends with its only newline), any number of clears, torn rows and restarts, with
writes stopped and polls made after any byte:

| Theorem | Statement |
|---|---|
| `InOrder` | `Spec => []InOrderAtMostOnce` |
| `NoRowSkipped` | `Spec => []NothingSkipped` |

`WriterInv` describes the file with what is still to be written of the last row
(`Written`): rows are numbered in order, a row's bytes stand together and begin with
its brace, and without a torn row every line is one whole row. `TailInv` describes
the tailer: every row that ends beyond the offset is newer than all rows delivered
(`Ahead(offset)`), and either the offset is in step with the file or the file was
cleared and everything in it is newer (`InStep \/ Ahead(0)`). The disjunction is
what a clear needs: after it the offset means nothing, also while the tailer has not
noticed, or never will because the file has grown past the offset again. For
`NoRowSkipped` the delivered rows are the rows that end at or before the offset, so
long as nothing was cleared or torn since the tailer started.

### `DecisionFlowProofs`

For all raw events, envelopes, replies, predictions and memories (`FlowAssumption`:
raw events have the fields of their kind, the names the evaluator compares have an
order, what the predictor comes to is a ranking, the memory keeps at least one record):

| Theorem | Statement |
|---|---|
| `AirGapIsSealed` | `Spec => []AirGapSeals` |
| `PrefetchIsResolved` | `Spec => []PrefetchResolved` |
| `ApprovalsAreGrounded` | `Spec => []ApprovedGrounded` |
| `RulesAreApproved` | `Spec => []RulesApproved`, if the policy's cap is not 0 and no action type is blocked |
| `LocalIsApproved` | `Spec => []LocalApproved`, if the policy's cap is at least 2 and no action type is blocked |
| `NoRejectionSpiral` | `Spec => []NoSpiral`, under the same two conditions |
| `EvaluatorIsRanked` | `Spec => []EvaluatorRanked` |

`FlowInv`: the open window is the raw events, sanitized one by one, and a closed
window is the context built from it. The air-gap is then a matter of one event, kind
by kind (`Sealed`). `ResolveInv` adds that what the cloud decided is resolved:
every prefetch has a URL or no target, by cases over what a reply may write
(`TranslationResolves`). `GroundInv` adds that the context waiting for a verdict is
the one of this window; that the policy's known packages are exactly those the raw
events name (`KnownAreNamed`) needs that the summary's lists, built event by event,
lose and invent none (`BuiltByRounds`, `SummaryAmong`, `PackagesKept`). `SoundInv`
adds that what rules and fallback decided is sound for the window: low risk, certain
enough, one action within the capability of the route with a target the policy knows
(`RulesAreSound`, rule by rule). `RulesApproved` is `LocalApproved` for these two
routes, in a stronger form, since it excludes low confidence as well.

`SuitedInv` is the same for every local route: what the evaluator, the predictor, the
rules or the fallback decided suits the window (low risk, one or two actions in an
intent, each within the capability of the route and with a target the policy accepts),
and is confident unless the device's state lowers confidences. A cap of 2 is what the
largest intent needs (a pre-warm with a heartbeat for an app that came to the
foreground); with a cap of 1, which is a legal configuration, the second action is
denied. `NoSpiral` holds because the penalties for rejected and failed actions are
bounded per action, not per rejection, so that the base score of every candidate stays
above the policy's floor; scores and floor live in two crates. `EvaluatorIsRanked` needs
no condition: the operator that selects the batch by places agrees with the declarative
ranking for all contexts, profiles and feedback.

### `PredictiveBackendProofs`

For all examples, vocabularies, grids, descents and files (`PredictiveAssumption`:
names have an order, the table of logarithms is long enough for the examples, a descent
ends with one integer weight per feature, the validation split and the limits are in
their ranges):

| Theorem | Statement |
|---|---|
| `TrainedIsLoadable` | `Spec => []TrainedLoads`: the validation of the loader accepts whatever training produced, at every stage |
| `AscentIsConsistent` | `Spec => []AscentConsistent`: the weights in place are those whose hit rate is in the books |
| `RankingIsSound` | `Spec => []RankSound`: rankings from any file that loads, sound, old or damaged |
| `PredictionsAreApproved` | `Spec => []PredictionsApproved`, if the policy's cap is not 0 and no action type is blocked |

`ServeInv`: only an artifact that passed validation is asked, and each answer was given
by it. That a ranking names apps of the vocabulary other than the current one, each
once, best first, and at least one if there is one, is the argument on ranked lists
above, for each component and for the fused scores with their tie-breaks. `AscentInv`:
the cache of validation examples is finite, so that hits can be counted, and the best
count in the books is that of the weights in place, and no less than that of the weights
the ascent began with. `TrainInv`: tables and priors built example by example have the
lengths, the keys and the vocabulary that the validation asks for, and the ascent and
the reranker replace only weights. `RankSound` says "best first" only of a file whose
popularity list is itself in order: the attempt to prove it without this condition
showed a file with an unordered list and a combiner without a say, which
`validate_artifact` accepts. The run now has this file.

### Only model-checked

* `WindowsTile`, `StagesAgree` and `GoldenVerdict` of the replay. Their definitions are
  folds over filtered sequences of lines, which would first have to be replaced by
  recursive functions as was done for the window summary.
* Liveness (`EveryForwardReturns`, `EveryRowDelivered`, and the termination and delivery
  properties of the pipeline), which is outside what the prover's backends handle.

## 5. What is not modelled

* Keyword lists, extension tables and site tables are reduced to one member per
  group. Two-word keywords matter only where a title ends and a text begins.
* The boosts the evaluator has for file events of a package are in its operators,
  but the air-gap gives file events no package, so no run reaches them.
* Rationale tags, prompts, HTTP, log lines, latencies.
* The values of the logistic fit, and rounding of `f32` below a hundredth.
* A replay with a cloud or with a model file; a file that is not UTF-8 ends the
  replay (`AbortReplay`) wherever it is met.
* The text of the profile and the rounded numbers in it. `DecisionFlow` keeps the
  packages of the profile as a set: at the default decay they leave only after
  dozens of windows.
* Contents of the daemon's runtime trace; a line is written whole or not at all. In
  the code the record and its newline are two writes.
* A connection to the device server that opens and then fails to write. For every other
  party it is a forward followed at once by the read timeout; the server does not tell a
  request that was cut from one that cannot be verified.
* Scores of an artifact that are not finite, and keys that occur twice in its list of
  feature lifts: the tables of `NextApp` are functions to numbers.
* System collectors, executors and their cache, user interface, benchmarks, command
  line: I/O or offline statistics.
* Start-up and the status preference of the device server, service life cycle: the
  accept thread of a stopped server may overwrite the status of the next one, which
  only the user sees.
* `lab4` is a course exercise of its own.

## 6. Disagreements between code and documents

| Run | Code | Document |
|---|---|---|
| `breaker_timeouts` | with the defaults (60 s window, 15 s timeout, 10 s windows, threshold 5) repeated timeouts never trip the breaker | RFC 0001: opens after N timeouts in a row |
| `confidence_range` | penalties for recent outcomes are subtracted after the clamp; an intent can have a confidence below 0 | doc comment of `Intent::confidence`: 0.0 to 1.0 |
| `replay_hash` | `file_activity` of a summary is in the order of a hash map, which differs between two replays of one file | `replay.rs`: replay is deterministic, identical inputs yield identical hashes |

Met while modelling, without a run: the cap `max_actions_per_batch` starts anew with
each intent; a pre-warm's verdict is written to every outcome with the package as
target, denied ones included; app transitions do not raise the privacy score, as
`decision-routing.md` says they do; after a failure to open or read a sound
memory file the daemon starts without it, and its first save truncates it; after the
no-op the breaker is closed at once, so its window of 60 s bounds which failures count
and not how long the cloud is left alone; after the adapter's read timeout an action is
recorded as failed while the device may still execute it; a trace file that was
cleared and has grown back to a row boundary at or beyond the offset is not
recognised as truncated; hour and weekday transitions of the next-app model share
the keys of one table; with one incomplete environment the router goes on without a
cloud while the summarizer ends the daemon.

## 7. Plan

Done, in this order: the pipeline and its abstract specification, since all
events go through it; its proofs; governance, which decides what happens to the
device; memory with crashes; router; bridge; tailer, with restarts; first proofs
about the bridge and the router; air-gap, backends, cloud and policy composed in
the decision flow; trace engine and replay; the next-app model; proofs of the safety
properties of governance, router, bridge, tailer, memory, decision flow and next-app
model.

Next:

1. Proofs of `WindowsTile`, `StagesAgree` and `GoldenVerdict` of the replay, from a
   first-order account of what reading line by line keeps.
2. A composition of tailer and memory: what a restart of the daemon, which forgets
   the offset and keeps the memory, does to the counters.
3. The runtime trace by bytes, with two writes per line.
4. Starts and stops of the device server, its status preference, maintenance jobs
   and uploader; the volatile cache.
5. An abstract specification of an at-most-once remote call, implemented by
   `ActionBridge`; one of a bounded log for `JsonlTailer`.
