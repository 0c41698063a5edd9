--------------------------- MODULE DaemonPipeline ---------------------------
(***************************************************************************)
(* The two tasks of dipecsd and the bounded raw-event channel between      *)
(* them.  Task 1 (run_collection_loop) polls the sources, pushes every     *)
(* event into the channel and looks for a shutdown once per tick.  Task 2  *)
(* (run_processing_loop) sanitizes events into the current window and      *)
(* closes the window when its deadline passes, or when the channel closes  *)
(* because Task 1 returned and dropped the only sender.                    *)
(*                                                                         *)
(* Events are numbered in the order the sources produced them.  Durations  *)
(* are abstracted: the deadline is a flag that time may raise at any       *)
(* moment, and a sleeping collector may wake at any moment.                *)
(***************************************************************************)
EXTENDS Naturals, Sequences

CONSTANTS
    Capacity,    \* capacity of the raw channel (4096 in lib.rs)
    MaxBatch,    \* bound on the events one poll returns
    MaxEvents    \* bound on the events the sources produce in all

ASSUME PipelineAssumption ==
    /\ Capacity \in Nat \ {0}
    /\ MaxBatch \in Nat
    /\ MaxEvents \in Nat

VARIABLES
    collector,       \* where Task 1 is: "poll", "send", "check", "sleep", "done"
    polled,          \* number of events the sources have produced
    pending,         \* events of this tick that are not yet sent
    signals,         \* the two signal tasks: "armed", "sent" or "gone"
    channel,         \* the raw channel, oldest event first
    processor,       \* where Task 2 is
    buffer,          \* WindowAggregator.buffer
    rawStats,        \* RawEventStats: events recorded since the last close
    deadline,        \* window_deadline: "ahead" of Instant::now() or "passed"
    window,          \* the window process_window is working on
    ordinal,         \* window_ordinal
    eventsProcessed, \* events_processed
    delivered,       \* history: events of all processed windows, in order
    trace            \* lines of the runtime trace file

collectorVars == <<collector, polled, pending>>
windowVars == <<buffer, rawStats, deadline, window, ordinal, eventsProcessed>>
outputs == <<delivered, trace>>
vars == <<collectorVars, signals, channel, processor, windowVars, outputs>>

Signals == {"SIGINT", "SIGTERM"}
NoWindow == [events |-> <<>>, stats |-> 0]
TraceLine == [ordinal : Nat, events : Seq(Nat)]
Numbered(n) == [i \in 1..n |-> i]

\* The receiver lives inside Task 2 and is dropped when Task 2 ends.
ReceiverDropped == processor \in {"failed", "stopped"}

\* Types; the channel the two tasks share never holds more than the capacity
\* mpsc::channel was given, whatever the collector and the processor do.
TypeOK ==
    /\ collector \in {"poll", "send", "check", "sleep", "done"}
    /\ polled \in Nat
    /\ pending \in Seq(Nat)
    /\ signals \in [Signals -> {"armed", "sent", "gone"}]
    /\ channel \in Seq(Nat)
    /\ Len(channel) <= Capacity
    /\ processor \in {"starting", "select", "deadline", "window",
                      "lastWindow", "stopped", "failed"}
    /\ buffer \in Seq(Nat)
    /\ rawStats \in Nat
    /\ deadline \in {"ahead", "passed"}
    /\ window \in [events : Seq(Nat), stats : Nat]
    /\ ordinal \in Nat
    /\ eventsProcessed \in Nat
    /\ delivered \in Seq(Nat)
    /\ trace \in Seq(TraceLine)

Init ==
    /\ collector = "poll"
    /\ polled = 0
    /\ pending = <<>>
    /\ signals = [s \in Signals |-> "armed"]
    /\ channel = <<>>
    /\ processor = "starting"
    /\ buffer = <<>>
    /\ rawStats = 0
    /\ deadline = "ahead"
    /\ window = NoWindow
    /\ ordinal = 0
    /\ eventsProcessed = 0
    /\ delivered = <<>>
    /\ trace = <<>>

-----------------------------------------------------------------------------
(***************************************************************************)
(* Signal tasks.  A task sends one shutdown message and ends, or ends      *)
(* without one when its handler could not be installed.                    *)
(***************************************************************************)

RaiseSignal(s) ==
    /\ signals[s] = "armed"
    /\ signals' = [signals EXCEPT ![s] = "sent"]
    /\ UNCHANGED <<collectorVars, channel, processor, windowVars, outputs>>

LoseHandler(s) ==
    /\ signals[s] = "armed"
    /\ signals' = [signals EXCEPT ![s] = "gone"]
    /\ UNCHANGED <<collectorVars, channel, processor, windowVars, outputs>>

\* try_recv is not Empty: a message is waiting (Ok, or Lagged when both
\* tasks sent one into the channel of capacity 1), or all senders are gone.
ShutdownVisible ==
    \/ \E s \in Signals : signals[s] = "sent"
    \/ \A s \in Signals : signals[s] = "gone"

-----------------------------------------------------------------------------
(***************************************************************************)
(* Task 1: run_collection_loop.                                            *)
(***************************************************************************)

Poll ==
    /\ collector = "poll"
    /\ \E k \in 0..MaxBatch :
        /\ polled + k <= MaxEvents
        /\ pending' = [i \in 1..k |-> polled + i]
        /\ polled' = polled + k
    /\ collector' = "send"
    /\ UNCHANGED <<signals, channel, processor, windowVars, outputs>>

\* Defect variant: an unbounded channel, send never waits.
Send_Unbounded ==
    /\ collector = "send"
    /\ pending # <<>>
    /\ ~ReceiverDropped
    /\ channel' = Append(channel, Head(pending))
    /\ pending' = Tail(pending)
    /\ UNCHANGED <<collector, polled, signals, processor, windowVars, outputs>>

\* raw_tx.send(event).await: waits while the channel is full.
Send ==
    /\ collector = "send"
    /\ pending # <<>>
    /\ ~ReceiverDropped
    /\ Len(channel) < Capacity
    /\ channel' = Append(channel, Head(pending))
    /\ pending' = Tail(pending)
    /\ UNCHANGED <<collector, polled, signals, processor, windowVars, outputs>>

SendFails ==
    /\ collector = "send"
    /\ pending # <<>>
    /\ ReceiverDropped
    /\ collector' = "done"
    /\ pending' = <<>>
    /\ UNCHANGED <<polled, signals, channel, processor, windowVars, outputs>>

BatchSent ==
    /\ collector = "send"
    /\ pending = <<>>
    /\ collector' = "check"
    /\ UNCHANGED <<polled, pending, signals, channel, processor, windowVars,
                   outputs>>

CheckShutdown ==
    /\ collector = "check"
    /\ collector' = IF ShutdownVisible THEN "done" ELSE "sleep"
    /\ UNCHANGED <<polled, pending, signals, channel, processor, windowVars,
                   outputs>>

Wake ==
    /\ collector = "sleep"
    /\ collector' = "poll"
    /\ UNCHANGED <<polled, pending, signals, channel, processor, windowVars,
                   outputs>>

-----------------------------------------------------------------------------
(***************************************************************************)
(* Task 2: start-up in run() and run_processing_loop.                      *)
(***************************************************************************)

\* The remaining start-up steps succeed and the loop begins.
StartProcessing ==
    /\ processor = "starting"
    /\ processor' = "select"
    /\ UNCHANGED <<collectorVars, signals, channel, windowVars, outputs>>

\* A start-up step fails after Task 1 was spawned: run() returns the error
\* and the receiver is dropped with everything the channel holds.
StartFails ==
    /\ processor = "starting"
    /\ processor' = "failed"
    /\ channel' = <<>>
    /\ UNCHANGED <<collectorVars, signals, windowVars, outputs>>

\* The runtime is dropped once run() has returned an error.
AbortCollector ==
    /\ processor = "failed"
    /\ collector # "done"
    /\ collector' = "done"
    /\ pending' = <<>>
    /\ UNCHANGED <<polled, signals, channel, processor, windowVars, outputs>>

DeadlinePasses ==
    /\ processor \in {"select", "deadline"}
    /\ deadline = "ahead"
    /\ deadline' = "passed"
    /\ UNCHANGED <<collectorVars, signals, channel, processor, buffer, rawStats,
                   window, ordinal, eventsProcessed, outputs>>

\* Where the loop goes once a close found nothing to process, or once the
\* closed window has been processed.
After(pc) == IF pc = "lastWindow" THEN "stopped" ELSE "select"

\* Defect variants of closing: the buffer is cloned instead of taken; the
\* statistics are cloned instead of taken; an empty window is processed too.
CloseWindow_BufferKept(pc) ==
    /\ rawStats' = 0
    /\ IF buffer = <<>>
       THEN processor' = After(pc) /\ deadline' = "ahead" /\ UNCHANGED window
       ELSE /\ processor' = pc
            /\ window' = [events |-> buffer, stats |-> rawStats]
            /\ UNCHANGED deadline
    /\ UNCHANGED <<collectorVars, signals, channel, buffer, ordinal,
                   eventsProcessed, outputs>>

CloseWindow_StatsKept(pc) ==
    /\ buffer' = <<>>
    /\ IF buffer = <<>>
       THEN processor' = After(pc) /\ deadline' = "ahead" /\ UNCHANGED window
       ELSE /\ processor' = pc
            /\ window' = [events |-> buffer, stats |-> rawStats]
            /\ UNCHANGED deadline
    /\ UNCHANGED <<collectorVars, signals, channel, rawStats, ordinal,
                   eventsProcessed, outputs>>

CloseWindow_EmptyToo(pc) ==
    /\ rawStats' = 0
    /\ buffer' = <<>>
    /\ processor' = pc
    /\ window' = [events |-> buffer, stats |-> rawStats]
    /\ UNCHANGED <<collectorVars, signals, channel, deadline, ordinal,
                   eventsProcessed, outputs>>

\* take(raw_stats) and WindowAggregator::close.  An empty window only
\* restarts the deadline; otherwise the window is processed next.
CloseWindow(pc) ==
    /\ rawStats' = 0
    /\ buffer' = <<>>
    /\ IF buffer = <<>>
       THEN /\ processor' = After(pc)
            /\ deadline' = "ahead"
            /\ UNCHANGED window
       ELSE /\ processor' = pc
            /\ window' = [events |-> buffer, stats |-> rawStats]
            /\ UNCHANGED deadline
    /\ UNCHANGED <<collectorVars, signals, channel, ordinal, eventsProcessed,
                   outputs>>

\* The select picks the raw channel: stats, sanitize, push.
ReceiveRaw ==
    /\ processor = "select"
    /\ channel # <<>>
    /\ channel' = Tail(channel)
    /\ rawStats' = rawStats + 1
    /\ buffer' = Append(buffer, Head(channel))
    /\ eventsProcessed' = eventsProcessed + 1
    /\ processor' = "deadline"
    /\ UNCHANGED <<collectorVars, signals, deadline, window, ordinal, outputs>>

\* The deadline test after a raw event.
CheckDeadline ==
    /\ processor = "deadline"
    /\ \/ /\ deadline = "passed"
          /\ CloseWindow("window")
       \/ /\ deadline = "ahead"
          /\ processor' = "select"
          /\ UNCHANGED <<collectorVars, signals, channel, windowVars, outputs>>

\* Defect variant: no timer branch, the deadline is seen only after an event.
WindowExpired_NoTimer == FALSE /\ UNCHANGED vars

\* The select picks the timer.
WindowExpired ==
    /\ processor = "select"
    /\ deadline = "passed"
    /\ CloseWindow("window")

\* Defect variants: the loop returns at once without flushing; a sender kept
\* in the bus leaves the channel open for ever.
RawChannelClosed_NoFlush ==
    /\ processor = "select"
    /\ collector = "done"
    /\ channel = <<>>
    /\ processor' = "stopped"
    /\ UNCHANGED <<collectorVars, signals, channel, windowVars, outputs>>

RawChannelClosed_SenderKept == FALSE /\ UNCHANGED vars

\* recv() returns None: no sender is left and the channel is drained.
RawChannelClosed ==
    /\ processor = "select"
    /\ collector = "done"
    /\ channel = <<>>
    /\ CloseWindow("lastWindow")

\* Defect variant: the ordinal is not advanced.
ProcessWindow_SameOrdinal ==
    /\ processor \in {"window", "lastWindow"}
    /\ delivered' = delivered \o window.events
    /\ trace' = Append(trace, [ordinal |-> ordinal, events |-> window.events])
    /\ window' = NoWindow
    /\ deadline' = "ahead"
    /\ processor' = After(processor)
    /\ UNCHANGED <<collectorVars, signals, channel, buffer, rawStats, ordinal,
                   eventsProcessed>>

\* process_window: decisions, actions and memory are other modules; here it
\* takes the window over and writes one trace line, or warns and goes on
\* when the write fails.
ProcessWindow ==
    /\ processor \in {"window", "lastWindow"}
    /\ delivered' = delivered \o window.events
    /\ \/ trace' = Append(trace, [ordinal |-> ordinal, events |-> window.events])
       \/ UNCHANGED trace
    /\ ordinal' = ordinal + 1
    /\ window' = NoWindow
    /\ deadline' = "ahead"
    /\ processor' = After(processor)
    /\ UNCHANGED <<collectorVars, signals, channel, buffer, rawStats,
                   eventsProcessed>>

\* Both tasks have returned: dipecsd has stopped.
Stopped ==
    /\ collector = "done"
    /\ processor \in {"stopped", "failed"}
    /\ UNCHANGED vars

CollectorStep ==
    Poll \/ Send \/ SendFails \/ BatchSent \/ CheckShutdown \/ Wake

ProcessorStep ==
    \/ StartProcessing \/ StartFails \/ ReceiveRaw \/ CheckDeadline
    \/ WindowExpired \/ RawChannelClosed \/ ProcessWindow

Next ==
    \/ CollectorStep \/ AbortCollector
    \/ ProcessorStep \/ DeadlinePasses
    \/ \E s \in Signals : RaiseSignal(s) \/ LoseHandler(s)
    \/ Stopped

\* The runtime keeps both tasks running and time passes; no signal is owed.
\* select! starts at a random branch, so a ready channel is not passed over
\* for ever in favour of the timer: each branch has its own fairness.
Fairness ==
    /\ WF_vars(CollectorStep)
    /\ WF_vars(AbortCollector)
    /\ WF_vars(ProcessorStep)
    /\ WF_vars(ReceiveRaw)
    /\ WF_vars(RawChannelClosed)
    /\ WF_vars(DeadlinePasses)

Spec == Init /\ [][Next]_vars
FairSpec == Spec /\ Fairness
-----------------------------------------------------------------------------
(***************************************************************************)
(* Properties.                                                             *)
(***************************************************************************)

\* Every event is in exactly one place, in the order it was produced:
\* processed windows, the window being processed, the open window, the
\* channel, and the unsent rest of the batch are the produced events.
EventsConserved ==
    processor # "failed" =>
        delivered \o window.events \o buffer \o channel \o pending
            = Numbered(polled)

\* When the processing loop has returned, nothing is left behind: the last
\* partial window was flushed, whichever way the shutdown raced with it.
NothingLostAtShutdown ==
    processor = "stopped" =>
        /\ delivered = Numbered(polled)
        /\ eventsProcessed = polled

\* The statistics handed to process_window count exactly the events of the
\* same window, although they are kept apart and reset separately.
StatsMatchWindow ==
    /\ rawStats = Len(buffer)
    /\ window.stats = Len(window.events)

\* The trace never reorders, splits or repeats windows: a later line has a
\* later ordinal and only later events, each line a run of consecutive events.
TraceFaithful ==
    /\ \A i \in DOMAIN trace :
        LET line == trace[i] IN
        /\ line.ordinal < ordinal
        /\ line.events # <<>>
        /\ line.events = [k \in 1..Len(line.events) |-> line.events[1] + k - 1]
    /\ \A i, j \in DOMAIN trace :
        i < j => /\ trace[i].ordinal < trace[j].ordinal
                 /\ trace[i].events[Len(trace[i].events)] < trace[j].events[1]

\* The pipeline implements the abstract event batching.
Batching == INSTANCE EventBatching WITH
    accepted <- Numbered(polled),
    emitted <- delivered,
    windows <- ordinal,
    phase <- IF processor = "stopped" THEN "drained"
             ELSE IF processor = "failed" THEN "aborted" ELSE "running"
ImplementsBatching == Batching!Spec

\* A shutdown signal brings both tasks to an end, even when it arrives while
\* Task 1 waits on a full channel or Task 2 is inside a window; and so does
\* losing both signal handlers, through the closed broadcast channel.
ShutdownCompletes ==
    (\/ \E s \in Signals : signals[s] = "sent"
     \/ \A s \in Signals : signals[s] = "gone") ~>
        (collector = "done" /\ processor \in {"stopped", "failed"})

\* Every produced event reaches window processing without a shutdown.
EveryEventProcessed ==
    \A n \in 1..MaxEvents :
        polled >= n ~> (Len(delivered) >= n \/ processor = "failed")
=============================================================================
