------------------------ MODULE DaemonPipelineProofs ------------------------
(***************************************************************************)
(* Proofs about DaemonPipeline, for every channel capacity, batch size and *)
(* number of events.                                                       *)
(***************************************************************************)
EXTENDS DaemonPipeline, SequenceTheorems, TLAPS

(***************************************************************************)
(* The inductive invariant: conservation of events needs to know which     *)
(* places are empty at which program points.                               *)
(***************************************************************************)
BatchInv == collector # "send" => pending = <<>>

WindowInv ==
    /\ (window.events # <<>>) <=> (processor \in {"window", "lastWindow"})
    /\ processor \in {"window", "lastWindow", "stopped"} => buffer = <<>>
    /\ processor \in {"lastWindow", "stopped"} =>
        collector = "done" /\ channel = <<>>
    /\ processor \in {"starting", "failed"} =>
        buffer = <<>> /\ delivered = <<>> /\ ordinal = 0

CountInv ==
    eventsProcessed = Len(delivered) + Len(window.events) + Len(buffer)

IInv ==
    /\ TypeOK
    /\ BatchInv
    /\ WindowInv
    /\ CountInv
    /\ StatsMatchWindow
    /\ EventsConserved

-----------------------------------------------------------------------------
(* Facts about sequences of events. *)

\* Concatenation of event sequences is associative.
LEMMA ConcatAssoc ==
    \A s, t, u \in Seq(Nat) : (s \o t) \o u = s \o (t \o u)
  BY ConcatAssociative

\* Moving the oldest element of one queue to the end of the queue before it
\* does not change their concatenation.
LEMMA MoveHead ==
    \A x, c, p \in Seq(Nat) :
        p # <<>> => (x \o Append(c, Head(p))) \o Tail(p) = (x \o c) \o p
<1> SUFFICES ASSUME NEW x \in Seq(Nat), NEW c \in Seq(Nat), NEW p \in Seq(Nat),
                    p # <<>>
             PROVE  (x \o Append(c, Head(p))) \o Tail(p) = (x \o c) \o p
  OBVIOUS
<1>1. Head(p) \in Nat /\ Tail(p) \in Seq(Nat) /\ Len(p) \in Nat \ {0}
  BY HeadTailProperties, EmptySeq
<1>2. Append(c, Head(p)) \in Seq(Nat)
  BY <1>1, AppendProperties
<1>3. /\ Append(c, Head(p)) = c \o <<Head(p)>>
      /\ p = <<Head(p)>> \o Tail(p)
  <2>1. Append(c, Head(p)) = c \o <<Head(p)>>
    BY <1>1, AppendIsConcat
  <2>2. p = <<Head(p)>> \o Tail(p)
    BY <1>1, HeadTailProperties, SMT
  <2>3. QED  BY <2>1, <2>2
<1>4. <<Head(p)>> \in Seq(Nat)
  BY <1>1
<1>5. x \o (c \o <<Head(p)>>) = (x \o c) \o <<Head(p)>>
  BY <1>4, ConcatAssoc, Zenon
<1>6. x \o c \in Seq(Nat)
  BY ConcatProperties
<1>7. ((x \o c) \o <<Head(p)>>) \o Tail(p) = (x \o c) \o (<<Head(p)>> \o Tail(p))
  BY <1>1, <1>4, <1>6, ConcatAssoc, Zenon
<1>8. QED
  BY <1>1, <1>2, <1>3, <1>5, <1>7, Zenon

\* A batch polled behind n events continues the numbering.
LEMMA NumberedGrows ==
    ASSUME NEW n \in Nat, NEW k \in Nat
    PROVE  /\ Numbered(n) \in Seq(Nat)
           /\ Len(Numbered(n)) = n
           /\ [i \in 1..k |-> n + i] \in Seq(Nat)
           /\ Numbered(n) \o [i \in 1..k |-> n + i] = Numbered(n + k)
  BY DEF Numbered

-----------------------------------------------------------------------------
(* Type correctness. *)

\* Every reachable state is well typed; in particular the raw channel never
\* holds more than Capacity events.
THEOREM TypeCorrect == Spec => []TypeOK
<1>1. Init => TypeOK
  <2>1. <<>> \in Seq(Nat) /\ <<>> \in Seq(TraceLine)
        /\ Len(<<>>) = 0
    BY EmptySeq
  <2>2. QED  BY <2>1, PipelineAssumption DEF Init, TypeOK, NoWindow
<1>2. TypeOK /\ [Next]_vars => TypeOK'
  <2> SUFFICES ASSUME TypeOK, [Next]_vars PROVE TypeOK'
    OBVIOUS
  <2> USE PipelineAssumption DEF TypeOK, collectorVars, windowVars, outputs
  <2>1. CASE Poll
    <3>1. PICK k \in 0..MaxBatch :
            /\ pending' = [i \in 1..k |-> polled + i]
            /\ polled' = polled + k
      BY <2>1 DEF Poll
    <3>2. polled' \in Nat /\ pending' \in Seq(Nat)
      BY <3>1, NumberedGrows
    <3>3. QED  BY <2>1, <3>2 DEF Poll
  <2>2. CASE Send
    <3>1. Head(pending) \in Nat /\ Tail(pending) \in Seq(Nat)
      BY <2>2, HeadTailProperties DEF Send
    <3>2. channel' \in Seq(Nat) /\ Len(channel') = Len(channel) + 1
      BY <2>2, <3>1, AppendProperties DEF Send
    <3>3. Len(channel) \in Nat
      BY LenProperties
    <3>4. QED  BY <2>2, <3>1, <3>2, <3>3 DEF Send
  <2>3. CASE SendFails \/ BatchSent \/ CheckShutdown \/ Wake \/ AbortCollector
    <3>1. CASE SendFails       BY <3>1 DEF SendFails
    <3>2. CASE BatchSent       BY <3>2 DEF BatchSent
    <3>3. CASE CheckShutdown   BY <3>3 DEF CheckShutdown
    <3>4. CASE Wake            BY <3>4 DEF Wake
    <3>5. CASE AbortCollector  BY <3>5 DEF AbortCollector
    <3>6. QED  BY <2>3, <3>1, <3>2, <3>3, <3>4, <3>5
  <2>4. CASE StartProcessing \/ StartFails \/ DeadlinePasses
    <3>1. CASE StartProcessing  BY <3>1 DEF StartProcessing
    <3>2. CASE StartFails
      <4>1. channel' \in Seq(Nat) /\ Len(channel') = 0
        BY <3>2, EmptySeq DEF StartFails
      <4>2. QED  BY <3>2, <4>1 DEF StartFails
    <3>3. CASE DeadlinePasses   BY <3>3 DEF DeadlinePasses
    <3>4. QED  BY <2>4, <3>1, <3>2, <3>3
  <2>5. CASE ReceiveRaw
    <3>1. Head(channel) \in Nat /\ Tail(channel) \in Seq(Nat)
          /\ Len(Tail(channel)) = Len(channel) - 1
      BY <2>5, HeadTailProperties DEF ReceiveRaw
    <3>2. buffer' \in Seq(Nat)
      BY <2>5, <3>1, AppendProperties DEF ReceiveRaw
    <3>3. Len(channel) \in Nat
      BY LenProperties
    <3>4. channel' \in Seq(Nat) /\ Len(channel') <= Capacity
      BY <2>5, <3>1, <3>3 DEF ReceiveRaw
    <3>5. QED  BY <2>5, <3>2, <3>4 DEF ReceiveRaw
  <2>6. ASSUME NEW pc \in {"window", "lastWindow"}, CloseWindow(pc)
        PROVE  TypeOK'
    BY <2>6 DEF CloseWindow, After
  <2>7. CASE CheckDeadline
    BY <2>6, <2>7 DEF CheckDeadline
  <2>8. CASE WindowExpired \/ RawChannelClosed
    BY <2>6, <2>8 DEF WindowExpired, RawChannelClosed
  <2>9. CASE ProcessWindow
    <3>1. delivered' \in Seq(Nat)
      BY <2>9, ConcatProperties DEF ProcessWindow
    <3>2. trace' \in Seq(TraceLine)
      <4>1. [ordinal |-> ordinal, events |-> window.events] \in TraceLine
        BY DEF TraceLine
      <4>2. Append(trace, [ordinal |-> ordinal, events |-> window.events])
              \in Seq(TraceLine)
        BY <4>1, AppendProperties
      <4>3. QED  BY <2>9, <4>2 DEF ProcessWindow
    <3>3. QED  BY <2>9, <3>1, <3>2 DEF ProcessWindow, After, NoWindow
  <2>10. ASSUME NEW s \in Signals, RaiseSignal(s) \/ LoseHandler(s)
         PROVE  TypeOK'
    BY <2>10 DEF RaiseSignal, LoseHandler
  <2>11. CASE Stopped \/ UNCHANGED vars
    BY <2>11 DEF Stopped, vars
  <2>12. QED
    BY <2>1, <2>2, <2>3, <2>4, <2>5, <2>7, <2>8, <2>9, <2>10, <2>11
       DEF Next, CollectorStep, ProcessorStep
<1>3. QED
  BY <1>1, <1>2, PTL DEF Spec

-----------------------------------------------------------------------------
(* Conservation of events. *)

\* The empty sequence is neutral for concatenation of event sequences.
LEMMA ConcatEmpty ==
    \A s \in Seq(Nat) : s \o <<>> = s /\ <<>> \o s = s
  BY ConcatEmptySeq

\* Concatenations of event sequences are event sequences.
LEMMA ConcatClosed ==
    \A s, t \in Seq(Nat) : s \o t \in Seq(Nat) /\ Len(s \o t) = Len(s) + Len(t)
  BY ConcatProperties

\* Closing a window keeps the inductive invariant.
LEMMA CloseWindowKeeps ==
    ASSUME IInv, TypeOK', NEW pc \in {"window", "lastWindow"},
           CloseWindow(pc), processor \in {"select", "deadline"},
           pc = "lastWindow" => collector = "done" /\ channel = <<>>
    PROVE  IInv'
<1> USE DEF CloseWindow, After, collectorVars, outputs
<1>1. window.events = <<>>
  BY DEF IInv, WindowInv
<1>2. BatchInv'
  BY DEF IInv, BatchInv
<1>3. WindowInv'
  <2>1. CASE buffer = <<>>
    BY <2>1, <1>1 DEF IInv, WindowInv
  <2>2. CASE buffer # <<>>
    <3>1. window'.events = buffer
      BY <2>2
    <3>2. QED  BY <2>2, <3>1, <1>1 DEF IInv, WindowInv
  <2>3. QED  BY <2>1, <2>2
<1>4. /\ window'.events \o buffer' = window.events \o buffer
      /\ (delivered \o window'.events) \o buffer'
           = (delivered \o window.events) \o buffer
      /\ Len(window'.events) + Len(buffer') = Len(window.events) + Len(buffer)
  <2>1. buffer' = <<>> /\ buffer \in Seq(Nat) /\ delivered \in Seq(Nat)
        /\ Len(<<>>) = 0 /\ Len(buffer) \in Nat
    BY EmptySeq, LenProperties DEF IInv, TypeOK
  <2>2. window'.events = buffer
    <3>1. CASE buffer = <<>>  BY <3>1, <1>1
    <3>2. CASE buffer # <<>>  BY <3>2
    <3>3. QED  BY <3>1, <3>2
  <2>3. delivered \o buffer \in Seq(Nat)
    BY <2>1, ConcatClosed
  <2>4. /\ buffer \o <<>> = <<>> \o buffer
        /\ (delivered \o buffer) \o <<>> = (delivered \o <<>>) \o buffer
    BY <2>1, <2>3, ConcatEmpty, Zenon
  <2>5. QED  BY <1>1, <2>1, <2>2, <2>4
<1>5. CountInv'
  <2>1. /\ Len(delivered) \in Nat /\ Len(window.events) \in Nat
        /\ Len(buffer) \in Nat /\ Len(window'.events) \in Nat
        /\ Len(buffer') \in Nat
    BY LenProperties DEF IInv, TypeOK
  <2>2. QED  BY <1>4, <2>1 DEF IInv, CountInv
<1>6. StatsMatchWindow'
  <2>1. Len(<<>>) = 0
    BY EmptySeq
  <2>2. CASE buffer = <<>>  BY <2>1, <2>2 DEF IInv, StatsMatchWindow
  <2>3. CASE buffer # <<>>  BY <2>1, <2>3 DEF IInv, StatsMatchWindow
  <2>4. QED  BY <2>2, <2>3
<1>7. EventsConserved'
  BY <1>4 DEF IInv, EventsConserved
<1>8. QED  BY <1>2, <1>3, <1>5, <1>6, <1>7 DEF IInv

\* The inductive invariant holds in every reachable state.
THEOREM Invariance == Spec => []IInv
<1>1. Init => IInv
  <2> SUFFICES ASSUME Init PROVE IInv
    OBVIOUS
  <2>1. <<>> \in Seq(Nat) /\ <<>> \in Seq(TraceLine) /\ Len(<<>>) = 0
    BY EmptySeq
  <2>2. TypeOK
    BY <2>1, PipelineAssumption DEF Init, TypeOK, NoWindow
  <2>3. BatchInv /\ WindowInv /\ CountInv /\ StatsMatchWindow
    BY <2>1 DEF Init, BatchInv, WindowInv, CountInv, StatsMatchWindow, NoWindow
  <2>4. EventsConserved
    <3>1. Numbered(0) = <<>>
      BY DEF Numbered
    <3>2. QED  BY <2>1, <3>1, ConcatEmpty DEF Init, EventsConserved, NoWindow
  <2>5. QED  BY <2>2, <2>3, <2>4 DEF IInv
<1>2. IInv /\ TypeOK' /\ [Next]_vars => IInv'
  <2> SUFFICES ASSUME IInv, TypeOK', [Next]_vars PROVE IInv'
    OBVIOUS
  <2> USE DEF collectorVars, windowVars, outputs
  <2>0. /\ delivered \in Seq(Nat) /\ window.events \in Seq(Nat)
        /\ buffer \in Seq(Nat) /\ channel \in Seq(Nat) /\ pending \in Seq(Nat)
        /\ delivered \o window.events \in Seq(Nat)
        /\ (delivered \o window.events) \o buffer \in Seq(Nat)
        /\ ((delivered \o window.events) \o buffer) \o channel \in Seq(Nat)
    BY ConcatClosed DEF IInv, TypeOK
  <2>1. CASE Poll
    <3>1. PICK k \in 0..MaxBatch :
            /\ pending' = [i \in 1..k |-> polled + i]
            /\ polled' = polled + k
      BY <2>1 DEF Poll
    <3>2. EventsConserved'
      <4>1. pending = <<>>
        BY <2>1 DEF Poll, IInv, BatchInv
      <4>2. CASE processor # "failed"
        <5>1. ((delivered \o window.events) \o buffer) \o channel = Numbered(polled)
          BY <2>0, <4>1, <4>2, ConcatEmpty DEF IInv, EventsConserved
        <5>2. Numbered(polled) \o pending' = Numbered(polled')
          <6>1. polled \in Nat /\ k \in Nat
            BY PipelineAssumption DEF IInv, TypeOK
          <6>2. Numbered(polled) \o [i \in 1..k |-> polled + i] = Numbered(polled + k)
            BY <6>1, NumberedGrows
          <6>3. QED  BY <3>1, <6>2
        <5>3. QED  BY <2>1, <5>1, <5>2 DEF Poll, EventsConserved
      <4>3. QED  BY <2>1, <4>2 DEF Poll, EventsConserved
    <3>3. BatchInv' /\ WindowInv' /\ CountInv' /\ StatsMatchWindow'
      BY <2>1 DEF Poll, IInv, BatchInv, WindowInv, CountInv, StatsMatchWindow
    <3>4. QED  BY <3>2, <3>3 DEF IInv
  <2>2. CASE Send
    <3>1. EventsConserved'
      <4>1. (((delivered \o window.events) \o buffer) \o Append(channel, Head(pending)))
              \o Tail(pending)
            = (((delivered \o window.events) \o buffer) \o channel) \o pending
        <5> DEFINE x == (delivered \o window.events) \o buffer
        <5>1. pending # <<>>  BY <2>2 DEF Send
        <5>2. x \in Seq(Nat) /\ channel \in Seq(Nat) /\ pending \in Seq(Nat)
          BY <2>0
        <5> HIDE DEF x
        <5>3. (x \o Append(channel, Head(pending))) \o Tail(pending)
              = (x \o channel) \o pending
          BY <5>1, <5>2, MoveHead, Zenon
        <5>4. QED  BY <5>3 DEF x
      <4>2. QED  BY <2>2, <4>1 DEF Send, IInv, EventsConserved
    <3>2. BatchInv' /\ WindowInv' /\ CountInv' /\ StatsMatchWindow'
      BY <2>2 DEF Send, ReceiverDropped, IInv, BatchInv, WindowInv, CountInv,
                  StatsMatchWindow
    <3>3. QED  BY <3>1, <3>2 DEF IInv
  <2>3. CASE SendFails
    <3>1. processor = "failed"
      BY <2>3 DEF SendFails, ReceiverDropped, IInv, WindowInv
    <3>2. QED
      BY <2>3, <3>1 DEF SendFails, IInv, BatchInv, WindowInv, CountInv,
                        StatsMatchWindow, EventsConserved
  <2>4. CASE BatchSent \/ CheckShutdown \/ Wake
    <3>1. BatchInv' /\ WindowInv' /\ CountInv' /\ StatsMatchWindow'
      BY <2>4 DEF BatchSent, CheckShutdown, Wake, IInv, BatchInv, WindowInv,
                  CountInv, StatsMatchWindow
    <3>2. EventsConserved'
      BY <2>4 DEF BatchSent, CheckShutdown, Wake, IInv, EventsConserved
    <3>3. QED  BY <3>1, <3>2 DEF IInv
  <2>5. CASE AbortCollector
    BY <2>5 DEF AbortCollector, IInv, BatchInv, WindowInv, CountInv,
                StatsMatchWindow, EventsConserved
  <2>6. CASE StartProcessing \/ DeadlinePasses
    <3>1. BatchInv' /\ WindowInv' /\ CountInv' /\ StatsMatchWindow'
      BY <2>6 DEF StartProcessing, DeadlinePasses, IInv, BatchInv, WindowInv,
                  CountInv, StatsMatchWindow
    <3>2. EventsConserved'
      BY <2>6 DEF StartProcessing, DeadlinePasses, IInv, EventsConserved
    <3>3. QED  BY <3>1, <3>2 DEF IInv
  <2>7. CASE StartFails
    BY <2>7 DEF StartFails, IInv, BatchInv, WindowInv, CountInv,
                StatsMatchWindow, EventsConserved
  <2>8. CASE ReceiveRaw
    <3>1. /\ Len(buffer') = Len(buffer) + 1
          /\ Len(buffer) \in Nat /\ Len(delivered) \in Nat
          /\ Len(window.events) \in Nat
      <4>1. Head(channel) \in Nat
        BY <2>0, <2>8, HeadTailProperties DEF ReceiveRaw
      <4>2. QED  BY <2>0, <2>8, <4>1, AppendProperties, LenProperties DEF ReceiveRaw
    <3>2. EventsConserved'
      <4>1. ((delivered \o window.events) \o Append(buffer, Head(channel)))
              \o Tail(channel)
            = ((delivered \o window.events) \o buffer) \o channel
        <5> DEFINE x == delivered \o window.events
        <5>1. channel # <<>>  BY <2>8 DEF ReceiveRaw
        <5>2. x \in Seq(Nat) /\ buffer \in Seq(Nat) /\ channel \in Seq(Nat)
          BY <2>0
        <5> HIDE DEF x
        <5>3. (x \o Append(buffer, Head(channel))) \o Tail(channel)
              = (x \o buffer) \o channel
          BY <5>1, <5>2, MoveHead, Zenon
        <5>4. QED  BY <5>3 DEF x
      <4>2. QED  BY <2>8, <4>1 DEF ReceiveRaw, IInv, EventsConserved
    <3>3. CountInv' /\ StatsMatchWindow'
      <4>1. /\ eventsProcessed' = eventsProcessed + 1 /\ rawStats' = rawStats + 1
            /\ delivered' = delivered /\ window' = window
        BY <2>8 DEF ReceiveRaw
      <4>2. /\ eventsProcessed = Len(delivered) + Len(window.events) + Len(buffer)
            /\ rawStats = Len(buffer) /\ window.stats = Len(window.events)
        BY DEF IInv, CountInv, StatsMatchWindow
      <4>3. eventsProcessed' = Len(delivered') + Len(window'.events) + Len(buffer')
        <5>1. (Len(delivered) + Len(window.events) + Len(buffer)) + 1
              = Len(delivered) + Len(window.events) + (Len(buffer) + 1)
          <6>1. \A l, m, n \in Nat : (l + m + n) + 1 = l + m + (n + 1)
            OBVIOUS
          <6>2. QED  BY <3>1, <6>1, Zenon
        <5>2. QED  BY <3>1, <4>1, <4>2, <5>1, Zenon
      <4>4. QED  BY <3>1, <4>1, <4>2, <4>3 DEF CountInv, StatsMatchWindow
    <3>4. BatchInv' /\ WindowInv'
      BY <2>8 DEF ReceiveRaw, IInv, BatchInv, WindowInv
    <3>5. QED  BY <3>2, <3>3, <3>4 DEF IInv
  <2>9. CASE CheckDeadline
    <3>1. CASE CloseWindow("window")
      BY <2>9, <3>1, CloseWindowKeeps DEF CheckDeadline
    <3>2. CASE ~CloseWindow("window")
      <4>1. BatchInv' /\ WindowInv' /\ CountInv' /\ StatsMatchWindow'
        BY <2>9, <3>2 DEF CheckDeadline, IInv, BatchInv, WindowInv, CountInv,
                          StatsMatchWindow
      <4>2. EventsConserved'
        BY <2>9, <3>2 DEF CheckDeadline, IInv, EventsConserved
      <4>3. QED  BY <4>1, <4>2 DEF IInv
    <3>3. QED  BY <3>1, <3>2
  <2>10. CASE WindowExpired
    BY <2>10, CloseWindowKeeps DEF WindowExpired
  <2>11. CASE RawChannelClosed
    BY <2>11, CloseWindowKeeps DEF RawChannelClosed
  <2>12. CASE ProcessWindow
    <3>1. /\ window'.events = <<>> /\ window'.stats = 0
          /\ delivered' = delivered \o window.events
          /\ buffer' = buffer
      BY <2>12 DEF ProcessWindow, NoWindow
    <3>2. EventsConserved'
      <4>1. (delivered \o window.events) \o window'.events = delivered \o window.events
        BY <2>0, <3>1, ConcatEmpty
      <4>2. QED  BY <2>12, <3>1, <4>1 DEF ProcessWindow, IInv, EventsConserved
    <3>3. /\ Len(delivered') = Len(delivered) + Len(window.events)
          /\ Len(window'.events) = 0
          /\ Len(buffer) \in Nat /\ Len(delivered) \in Nat
          /\ Len(window.events) \in Nat
      BY <2>0, <3>1, ConcatClosed, EmptySeq, LenProperties
    <3>4. CountInv' /\ StatsMatchWindow'
      BY <2>12, <3>1, <3>3 DEF ProcessWindow, IInv, CountInv, StatsMatchWindow
    <3>5. BatchInv' /\ WindowInv'
      BY <2>12, <3>1 DEF ProcessWindow, After, IInv, BatchInv, WindowInv
    <3>6. QED  BY <3>2, <3>4, <3>5 DEF IInv
  <2>13. ASSUME NEW s \in Signals, RaiseSignal(s) \/ LoseHandler(s)
         PROVE  IInv'
    BY <2>13 DEF RaiseSignal, LoseHandler, IInv, BatchInv, WindowInv, CountInv,
                 StatsMatchWindow, EventsConserved
  <2>14. CASE Stopped \/ UNCHANGED vars
    BY <2>14 DEF Stopped, vars, IInv, BatchInv, WindowInv, CountInv,
                 StatsMatchWindow, EventsConserved
  <2>15. QED
    BY <2>1, <2>2, <2>3, <2>4, <2>5, <2>6, <2>7, <2>8, <2>9, <2>10, <2>11,
       <2>12, <2>13, <2>14 DEF Next, CollectorStep, ProcessorStep
<1>3. QED
  BY <1>1, <1>2, TypeCorrect, PTL DEF Spec

\* Every event is in exactly one place, in order, from the moment a source
\* produced it (unless start-up failed).
THEOREM Conservation == Spec => []EventsConserved
<1>1. IInv => EventsConserved
  BY DEF IInv
<1>2. QED  BY <1>1, Invariance, PTL

\* The statistics process_window is given are those of the window it is given,
\* whichever of the two closing points in run_processing_loop was taken.
THEOREM StatsAgree == Spec => []StatsMatchWindow
<1>1. IInv => StatsMatchWindow
  BY DEF IInv
<1>2. QED  BY <1>1, Invariance, PTL

\* When the processing loop returns, every produced event has been processed:
\* the last partial window is flushed under every interleaving.
THEOREM NothingLost == Spec => []NothingLostAtShutdown
<1>1. IInv => NothingLostAtShutdown
  <2> SUFFICES ASSUME IInv, processor = "stopped"
               PROVE  delivered = Numbered(polled) /\ eventsProcessed = polled
    BY DEF NothingLostAtShutdown
  <2>1. /\ window.events = <<>> /\ buffer = <<>> /\ channel = <<>>
        /\ pending = <<>> /\ delivered \in Seq(Nat)
    BY DEF IInv, TypeOK, WindowInv, BatchInv
  <2>2. delivered = Numbered(polled)
    BY <2>1, ConcatEmpty DEF IInv, EventsConserved
  <2>3. Len(delivered) = polled /\ Len(<<>>) = 0 /\ polled \in Nat
    BY <2>2, NumberedGrows, EmptySeq DEF IInv, TypeOK
  <2>4. eventsProcessed = polled
    BY <2>1, <2>3 DEF IInv, CountInv
  <2>5. QED  BY <2>2, <2>4
<1>2. QED  BY <1>1, Invariance, PTL

-----------------------------------------------------------------------------
(* Refinement of the abstract event batching. *)

\* Cutting a numbered sequence leaves a numbered sequence.
LEMMA NumberedPrefix ==
    \A n, m \in Nat : m <= n => SubSeq(Numbered(n), 1, m) = Numbered(m)
  BY DEF Numbered

\* A sequence that some other sequence completes to 1, ..., n is 1, ..., m.
LEMMA PrefixNumbered ==
    \A s, t \in Seq(Nat), n \in Nat :
        s \o t = Numbered(n) => Len(s) <= n /\ s = Numbered(Len(s))
<1> SUFFICES ASSUME NEW s \in Seq(Nat), NEW t \in Seq(Nat), NEW n \in Nat,
                    s \o t = Numbered(n)
             PROVE  Len(s) <= n /\ s = Numbered(Len(s))
  OBVIOUS
<1>1. Len(s) \in Nat /\ Len(t) \in Nat
  BY LenProperties
<1>2. /\ Len(s \o t) = Len(s) + Len(t)
      /\ \A i \in 1..Len(s) : (s \o t)[i] = s[i]
  BY <1>1, ConcatProperties
<1>3. Len(s) + Len(t) = n
  BY <1>2, NumberedGrows
<1>4. \A i \in 1..Len(s) : s[i] = i
  <2> SUFFICES ASSUME NEW i \in 1..Len(s) PROVE s[i] = i
    OBVIOUS
  <2>1. i \in 1..n
    BY <1>1, <1>3
  <2>2. Numbered(n)[i] = i
    BY <2>1 DEF Numbered
  <2>3. QED  BY <1>2, <2>2
<1>5. Numbered(Len(s)) \in Seq(Nat) /\ Len(Numbered(Len(s))) = Len(s)
  BY <1>1, NumberedGrows
<1>6. \A i \in 1..Len(s) : Numbered(Len(s))[i] = s[i]
  BY <1>4 DEF Numbered
<1>7. s = Numbered(Len(s))
  BY <1>5, <1>6, SeqEqual
<1>8. QED  BY <1>1, <1>3, <1>7

\* What the processing loop has taken into windows, delivered or being
\* processed, is always an initial run of the produced events.
LEMMA TakenPrefix ==
    IInv /\ processor # "failed" =>
        LET x == delivered \o window.events
        IN  x \in Seq(Nat) /\ Len(x) <= polled /\ x = Numbered(Len(x))
<1> SUFFICES ASSUME IInv, processor # "failed"
             PROVE  LET x == delivered \o window.events
                    IN  x \in Seq(Nat) /\ Len(x) <= polled /\ x = Numbered(Len(x))
  OBVIOUS
<1> DEFINE x == delivered \o window.events
           y == x \o buffer
           z == y \o channel
<1>1. /\ delivered \in Seq(Nat) /\ window.events \in Seq(Nat)
      /\ buffer \in Seq(Nat) /\ channel \in Seq(Nat) /\ pending \in Seq(Nat)
      /\ polled \in Nat
  BY DEF IInv, TypeOK
<1>2. x \in Seq(Nat)  BY <1>1, ConcatClosed
<1>3. y \in Seq(Nat)  BY <1>1, <1>2, ConcatClosed
<1>4. z \in Seq(Nat)  BY <1>1, <1>3, ConcatClosed
<1>5. z \o pending = Numbered(polled)
  BY DEF IInv, EventsConserved
<1>6. Len(x) \in Nat /\ Len(y) \in Nat /\ Len(z) \in Nat
  BY <1>1, <1>2, <1>3, <1>4, LenProperties
<1> HIDE DEF z
<1>7. Len(z) <= polled /\ z = Numbered(Len(z))
  BY <1>1, <1>4, <1>5, PrefixNumbered, Zenon
<1> HIDE DEF y
<1>8. Len(y) <= Len(z) /\ y = Numbered(Len(y))
  BY <1>1, <1>3, <1>6, <1>7, PrefixNumbered, Zenon DEF z
<1> HIDE DEF x
<1>9. Len(x) <= Len(y) /\ x = Numbered(Len(x))
  BY <1>1, <1>2, <1>6, <1>8, PrefixNumbered, Zenon DEF y
<1>10. x \in Seq(Nat) /\ Len(x) <= polled /\ x = Numbered(Len(x))
  BY <1>1, <1>2, <1>6, <1>7, <1>8, <1>9
<1>11. QED  BY <1>10 DEF x

\* What has been delivered is always an initial run of the produced events.
LEMMA DeliveredPrefix ==
    IInv /\ processor # "failed" =>
        Len(delivered) <= polled /\ delivered = Numbered(Len(delivered))
<1> SUFFICES ASSUME IInv, processor # "failed"
             PROVE  Len(delivered) <= polled /\ delivered = Numbered(Len(delivered))
  OBVIOUS
<1> DEFINE x == delivered \o window.events
<1>1. /\ delivered \in Seq(Nat) /\ window.events \in Seq(Nat) /\ polled \in Nat
  BY DEF IInv, TypeOK
<1>2. x \in Seq(Nat) /\ Len(x) <= polled /\ x = Numbered(Len(x))
  BY TakenPrefix
<1>3. Len(delivered) \in Nat /\ Len(x) \in Nat
  BY <1>1, <1>2, LenProperties
<1> HIDE DEF x
<1>4. Len(delivered) <= Len(x) /\ delivered = Numbered(Len(delivered))
  BY <1>1, <1>2, <1>3, PrefixNumbered, Zenon DEF x
<1>5. QED  BY <1>1, <1>2, <1>3, <1>4

\* The window being processed continues the numbering where the delivered
\* windows ended.
LEMMA WindowContinues ==
    IInv /\ processor # "failed" =>
        \A k \in 1..Len(window.events) : window.events[k] = Len(delivered) + k
<1> SUFFICES ASSUME IInv, processor # "failed", NEW k \in 1..Len(window.events)
             PROVE  window.events[k] = Len(delivered) + k
  OBVIOUS
<1> DEFINE x == delivered \o window.events
<1>1. delivered \in Seq(Nat) /\ window.events \in Seq(Nat)
  BY DEF IInv, TypeOK
<1>2. x = Numbered(Len(x))
  BY TakenPrefix
<1>3. Len(delivered) \in Nat /\ Len(window.events) \in Nat
  BY <1>1, LenProperties
<1>4. /\ Len(x) = Len(delivered) + Len(window.events)
      /\ x[Len(delivered) + k] = window.events[k]
  BY <1>1, <1>3, ConcatProperties
<1>5. Len(delivered) + k \in 1..Len(x)
  BY <1>3, <1>4
<1> HIDE DEF x
<1>6. x[Len(delivered) + k] = Len(delivered) + k
  BY <1>2, <1>5 DEF Numbered
<1>7. QED  BY <1>4, <1>6

\* The daemon's ingest path implements the abstract batching: whatever the
\* interleaving of the tasks, events come out in order, each in one window.
THEOREM Refinement == Spec => ImplementsBatching
<1>1. Init => Batching!Init
  BY DEF Init, Batching!Init, Numbered
<1>2. IInv /\ IInv' /\ [Next]_vars => [Batching!Next]_Batching!vars
  <2> SUFFICES ASSUME IInv, IInv', [Next]_vars
               PROVE  [Batching!Next]_Batching!vars
    OBVIOUS
  <2> USE DEF collectorVars, windowVars, outputs
  <2>0. /\ polled \in Nat /\ polled' \in Nat
        /\ Len(Numbered(polled)) = polled /\ Len(Numbered(polled')) = polled'
    BY NumberedGrows DEF IInv, TypeOK
  <2>1. CASE Poll
    <3>1. processor # "stopped"
      BY <2>1 DEF Poll, IInv, WindowInv
    <3>2. polled <= polled'
      BY <2>0, <2>1 DEF Poll
    <3>3. Numbered(polled) = SubSeq(Numbered(polled'), 1, polled)
      BY <2>0, <3>2, NumberedPrefix
    <3>4. Batching!Accept
      BY <2>0, <2>1, <3>1, <3>2, <3>3 DEF Poll, Batching!Accept
    <3>5. QED  BY <3>4 DEF Batching!Next
  <2>2. CASE StartFails
    <3>1. Batching!Abort
      BY <2>2 DEF StartFails, Batching!Abort, IInv, WindowInv
    <3>2. QED  BY <3>1 DEF Batching!Next
  <2>3. ASSUME CloseWindow("window"), processor \in {"select", "deadline"}
        PROVE  UNCHANGED Batching!vars
    BY <2>3 DEF CloseWindow, After, Batching!vars
  <2>4. CASE CheckDeadline \/ WindowExpired
    BY <2>3, <2>4 DEF CheckDeadline, WindowExpired, Batching!vars
  <2>5. CASE RawChannelClosed
    <3>1. CASE buffer # <<>>
      BY <2>5, <3>1 DEF RawChannelClosed, CloseWindow, Batching!vars
    <3>2. CASE buffer = <<>>
      <4>1. processor = "select" /\ processor' = "stopped"
            /\ UNCHANGED <<polled, delivered, ordinal>>
        BY <2>5, <3>2 DEF RawChannelClosed, CloseWindow, After
      <4>2. /\ window.events = <<>> /\ channel = <<>> /\ pending = <<>>
            /\ delivered \in Seq(Nat)
        BY <2>5 DEF RawChannelClosed, IInv, TypeOK, WindowInv, BatchInv
      <4>3. delivered = Numbered(polled)
        BY <3>2, <4>1, <4>2, ConcatEmpty DEF IInv, EventsConserved
      <4>4. Batching!Drain
        BY <4>1, <4>3 DEF Batching!Drain
      <4>5. QED  BY <4>4 DEF Batching!Next
    <3>3. QED  BY <3>1, <3>2
  <2>6. CASE ProcessWindow
    <3>1. /\ processor \in {"window", "lastWindow"}
          /\ processor' = After(processor) /\ polled' = polled
          /\ ordinal' = ordinal + 1 /\ delivered' = delivered \o window.events
      BY <2>6 DEF ProcessWindow
    <3>2. Len(delivered) < Len(delivered')
      <4>1. delivered \in Seq(Nat) /\ window.events \in Seq(Nat)
        BY DEF IInv, TypeOK
      <4>2. Len(window.events) \in Nat \ {0} /\ Len(delivered) \in Nat
        BY <3>1, <4>1, EmptySeq, LenProperties DEF IInv, WindowInv
      <4>3. Len(delivered') = Len(delivered) + Len(window.events)
        BY <3>1, <4>1, ConcatClosed
      <4>4. QED  BY <4>2, <4>3
    <3>3. Len(delivered') <= polled /\ delivered' = Numbered(Len(delivered'))
      <4>1. processor' # "failed"
        BY <3>1 DEF After
      <4>2. (IInv /\ processor # "failed")' =>
              (Len(delivered) <= polled /\ delivered = Numbered(Len(delivered)))'
        BY DeliveredPrefix, PTL
      <4>3. QED  BY <3>1, <4>1, <4>2
    <3>4. delivered' = SubSeq(Numbered(polled), 1, Len(delivered'))
      <4>1. Len(delivered') \in Nat
        BY LenProperties DEF IInv, TypeOK
      <4>2. SubSeq(Numbered(polled), 1, Len(delivered')) = Numbered(Len(delivered'))
        BY <2>0, <3>3, <4>1, NumberedPrefix, Zenon
      <4>3. QED  BY <3>3, <4>2, Zenon
    <3>5. processor' = "stopped" => delivered' = Numbered(polled)
      <4>1. SUFFICES ASSUME processor' = "stopped"
                     PROVE  delivered' = Numbered(polled)
        OBVIOUS
      <4>2. /\ window'.events = <<>> /\ buffer' = <<>> /\ channel' = <<>>
            /\ pending' = <<>> /\ delivered' \in Seq(Nat)
        BY <4>1 DEF IInv, TypeOK, WindowInv, BatchInv
      <4>3. QED
        BY <3>1, <4>1, <4>2, ConcatEmpty DEF IInv, EventsConserved
    <3>6. Batching!Emit
      BY <2>0, <3>1, <3>2, <3>3, <3>4, <3>5 DEF Batching!Emit, After
    <3>7. QED  BY <3>6 DEF Batching!Next
  <2>7. CASE Send \/ SendFails \/ BatchSent \/ CheckShutdown \/ Wake
             \/ AbortCollector \/ StartProcessing \/ DeadlinePasses \/ ReceiveRaw
    BY <2>7 DEF Send, SendFails, BatchSent, CheckShutdown, Wake, AbortCollector,
                StartProcessing, DeadlinePasses, ReceiveRaw, Batching!vars
  <2>8. ASSUME NEW s \in Signals, RaiseSignal(s) \/ LoseHandler(s)
        PROVE  UNCHANGED Batching!vars
    BY <2>8 DEF RaiseSignal, LoseHandler, Batching!vars
  <2>9. CASE Stopped \/ UNCHANGED vars
    BY <2>9 DEF Stopped, vars, Batching!vars
  <2>10. QED
    BY <2>1, <2>2, <2>4, <2>5, <2>6, <2>7, <2>8, <2>9
       DEF Next, CollectorStep, ProcessorStep
<1>3. QED
  BY <1>1, <1>2, Invariance, PTL DEF Spec, ImplementsBatching, Batching!Spec

-----------------------------------------------------------------------------
(* The runtime trace. *)

\* What TraceFaithful needs to be inductive: no line names an event that has
\* not been delivered yet.
LinesDelivered ==
    \A i \in DOMAIN trace :
        trace[i].events[Len(trace[i].events)] <= Len(delivered)

\* What TraceFaithful says of the events of one line.
IsRun(events) ==
    /\ events # <<>>
    /\ events = [k \in 1..Len(events) |-> events[1] + k - 1]

\* The trace file lists windows in the order they were processed: a write
\* that failed leaves a gap, and never a line out of place or a line whose
\* events overlap another's.
THEOREM TraceInOrder == Spec => []TraceFaithful
<1> DEFINE TraceInv == TraceFaithful /\ LinesDelivered
<1>1. Init => TraceInv
  BY DEF Init, TraceFaithful, LinesDelivered
<1>2. IInv /\ TraceInv /\ [Next]_vars => TraceInv'
  <2> SUFFICES ASSUME IInv, TraceFaithful, LinesDelivered, [Next]_vars
               PROVE  TraceInv'
    OBVIOUS
  <2>1. CASE ProcessWindow /\ trace' # trace
    <3> DEFINE w == window.events
               n == Len(trace)
               old == Len(delivered)
    <3>1. /\ processor \in {"window", "lastWindow"}
          /\ delivered' = delivered \o w
          /\ trace' = Append(trace, [ordinal |-> ordinal, events |-> w])
          /\ ordinal' = ordinal + 1
      BY <2>1 DEF ProcessWindow
    <3>2. /\ w \in Seq(Nat) /\ delivered \in Seq(Nat) /\ trace \in Seq(TraceLine)
          /\ ordinal \in Nat
      BY DEF IInv, TypeOK
    <3>3. Len(w) \in Nat \ {0} /\ old \in Nat /\ n \in Nat
      BY <3>1, <3>2, EmptySeq, LenProperties DEF IInv, WindowInv
    <3>4. \A k \in 1..Len(w) : w[k] = old + k
      BY <3>1, WindowContinues
    <3>5. Len(delivered') = old + Len(w)
      BY <3>1, <3>2, ConcatClosed
    <3>6. [ordinal |-> ordinal, events |-> w] \in TraceLine
      BY <3>2 DEF TraceLine
    <3>7. /\ DOMAIN trace = 1..n /\ DOMAIN trace' = 1..(n + 1)
          /\ \A i \in 1..n : trace'[i] = trace[i]
          /\ trace'[n + 1] = [ordinal |-> ordinal, events |-> w]
      BY <3>1, <3>2, <3>6, AppendProperties, LenProperties
    <3>8. \A i \in 1..n : trace[i] \in TraceLine
      BY <3>2, <3>7
    <3>9. IsRun(w)
      <4>1. w = [k \in 1..Len(w) |-> w[k]]
        BY <3>2, LenProperties
      <4>2. w[1] = old + 1
        BY <3>3, <3>4
      <4>3. \A k \in 1..Len(w) : w[k] = w[1] + k - 1
        BY <3>3, <3>4, <4>2
      <4>4. w # <<>>
        BY <3>3, EmptySeq
      <4>5. QED  BY <4>1, <4>3, <4>4 DEF IsRun
    <3> HIDE DEF w, n, old
    <3>10. \A i \in 1..n :
             /\ trace[i].ordinal < ordinal /\ trace[i].ordinal \in Nat
             /\ IsRun(trace[i].events)
             /\ trace[i].events[Len(trace[i].events)] <= old
             /\ trace[i].events[Len(trace[i].events)] \in Nat
      <4> SUFFICES ASSUME NEW i \in 1..n
                   PROVE  /\ trace[i].ordinal < ordinal /\ trace[i].ordinal \in Nat
                          /\ IsRun(trace[i].events)
                          /\ trace[i].events[Len(trace[i].events)] <= old
                          /\ trace[i].events[Len(trace[i].events)] \in Nat
        OBVIOUS
      <4>1. trace[i] \in TraceLine /\ i \in DOMAIN trace
        BY <3>7, <3>8
      <4>2. trace[i].ordinal \in Nat /\ trace[i].events \in Seq(Nat)
        BY <4>1 DEF TraceLine
      <4>3. /\ trace[i].ordinal < ordinal /\ trace[i].events # <<>>
            /\ IsRun(trace[i].events)
        BY <4>1 DEF TraceFaithful, IsRun
      <4>4. Len(trace[i].events) \in 1..Len(trace[i].events)
        BY <4>2, <4>3, EmptySeq, LenProperties
      <4>5. trace[i].events[Len(trace[i].events)] \in Nat
        BY <4>2, <4>4, ElementOfSeq
      <4>6. QED  BY <4>1, <4>2, <4>3, <4>5 DEF LinesDelivered, old
    <3>11. w[1] = old + 1 /\ w[Len(w)] = Len(delivered')
      BY <3>3, <3>4, <3>5
    <3>12. ASSUME NEW i \in DOMAIN trace'
           PROVE  /\ trace'[i].ordinal < ordinal'
                  /\ IsRun(trace'[i].events)
                  /\ trace'[i].events[Len(trace'[i].events)] <= Len(delivered')
      <4>1. CASE i \in 1..n
        <5>1. trace'[i] = trace[i]  BY <3>7, <4>1
        <5>2. IsRun(trace[i].events)
          BY <3>10, <4>1
        <5>3. /\ trace[i].ordinal < ordinal + 1
              /\ trace[i].events[Len(trace[i].events)] <= Len(delivered')
          <6> DEFINE o == trace[i].ordinal
                     last == trace[i].events[Len(trace[i].events)]
          <6>1. o < ordinal /\ o \in Nat /\ last <= old /\ last \in Nat
            BY <3>10, <4>1
          <6> HIDE DEF o, last
          <6>2. o < ordinal + 1 /\ last <= Len(delivered')
            BY <3>2, <3>3, <3>5, <6>1
          <6>3. QED  BY <6>2 DEF o, last
        <5>4. QED  BY <3>1, <5>1, <5>2, <5>3
      <4>2. CASE i = n + 1
        <5>1. trace'[i].ordinal = ordinal /\ trace'[i].events = w
          BY <3>7, <4>2
        <5>2. w[Len(w)] <= Len(delivered')
          BY <3>3, <3>5, <3>11
        <5>3. QED  BY <3>1, <3>2, <3>9, <5>1, <5>2
      <4>3. QED  BY <3>3, <3>7, <4>1, <4>2
    <3>13. ASSUME NEW i \in DOMAIN trace', NEW j \in DOMAIN trace', i < j
           PROVE  /\ trace'[i].ordinal < trace'[j].ordinal
                  /\ trace'[i].events[Len(trace'[i].events)] < trace'[j].events[1]
      <4>1. i \in 1..n
        BY <3>3, <3>7, <3>13
      <4>2. CASE j \in 1..n
        BY <3>7, <3>13, <4>1, <4>2 DEF TraceFaithful
      <4>3. CASE j = n + 1
        <5>1. trace'[j].ordinal = ordinal /\ trace'[j].events[1] = old + 1
          BY <3>7, <3>11, <4>3
        <5>2. trace'[i] = trace[i]  BY <3>7, <4>1
        <5>3. QED  BY <3>3, <3>10, <4>1, <5>1, <5>2
      <4>4. QED  BY <3>3, <3>7, <4>2, <4>3
    <3>14. QED  BY <3>12, <3>13 DEF TraceFaithful, LinesDelivered, IsRun
  <2>2. CASE ProcessWindow /\ trace' = trace
    <3>1. delivered \in Seq(Nat) /\ window.events \in Seq(Nat) /\ ordinal \in Nat
          /\ trace \in Seq(TraceLine)
      BY DEF IInv, TypeOK
    <3>2. delivered' = delivered \o window.events /\ ordinal' = ordinal + 1
      BY <2>2 DEF ProcessWindow
    <3>3. Len(delivered) \in Nat /\ Len(delivered') \in Nat
          /\ Len(delivered) <= Len(delivered')
      <4>1. Len(window.events) \in Nat /\ Len(delivered) \in Nat
            /\ Len(delivered') = Len(delivered) + Len(window.events)
        BY <3>1, <3>2, ConcatClosed, LenProperties
      <4>2. QED  BY <4>1
    <3>4. \A i \in DOMAIN trace :
            /\ trace[i].ordinal \in Nat
            /\ trace[i].events[Len(trace[i].events)] \in Nat
      <4> SUFFICES ASSUME NEW i \in DOMAIN trace
                   PROVE  /\ trace[i].ordinal \in Nat
                          /\ trace[i].events[Len(trace[i].events)] \in Nat
        OBVIOUS
      <4>1. trace[i] \in TraceLine
        BY <3>1
      <4>2. trace[i].ordinal \in Nat /\ trace[i].events \in Seq(Nat)
        BY <4>1 DEF TraceLine
      <4>3. trace[i].events # <<>>
        BY DEF TraceFaithful
      <4>4. Len(trace[i].events) \in 1..Len(trace[i].events)
        BY <4>2, <4>3, EmptySeq, LenProperties
      <4>5. QED  BY <4>2, <4>4, ElementOfSeq
    <3>5. LinesDelivered'
      BY <2>2, <3>3, <3>4 DEF LinesDelivered
    <3>6. TraceFaithful'
      BY <2>2, <3>1, <3>2, <3>4 DEF TraceFaithful
    <3>7. QED  BY <3>5, <3>6
  <2>3. CASE ~ProcessWindow
    <3>1. UNCHANGED <<trace, ordinal, delivered>>
      BY <2>3 DEF Next, CollectorStep, ProcessorStep, Poll, Send, SendFails,
                  BatchSent, CheckShutdown, Wake, AbortCollector,
                  StartProcessing, StartFails, ReceiveRaw, CheckDeadline,
                  WindowExpired, RawChannelClosed, CloseWindow, DeadlinePasses,
                  RaiseSignal, LoseHandler, Stopped, vars, windowVars, outputs
    <3>2. QED  BY <3>1 DEF TraceFaithful, LinesDelivered
  <2>4. QED  BY <2>1, <2>2, <2>3
<1>3. TraceInv => TraceFaithful
  OBVIOUS
<1>4. QED  BY <1>1, <1>2, <1>3, Invariance, PTL DEF Spec

=============================================================================
