---------------------------- MODULE EventBatching ----------------------------
(***************************************************************************)
(* What the daemon's ingest path promises to the rest of the system, with  *)
(* no tasks, channels, buffers or clocks: events are accepted one batch at *)
(* a time, and handed to window processing in the order they were          *)
(* accepted, in non-empty windows, each event in exactly one window.  The  *)
(* path may drain only when nothing that was accepted is outstanding; it   *)
(* may give up ("aborted") only before it has handed over anything.        *)
(***************************************************************************)
EXTENDS Naturals, Sequences

VARIABLES
    accepted,   \* the sequence of events the sources produced
    emitted,    \* the sequence of events handed to window processing
    windows,    \* how many windows they were handed over in
    phase       \* "running", "drained" or "aborted"

vars == <<accepted, emitted, windows, phase>>

Init ==
    /\ accepted = <<>>
    /\ emitted = <<>>
    /\ windows = 0
    /\ phase = "running"

\* A source produces a batch, appended behind what is already accepted.
Accept ==
    /\ phase # "drained"
    /\ Len(accepted) <= Len(accepted')
    /\ accepted = SubSeq(accepted', 1, Len(accepted))
    /\ UNCHANGED <<emitted, windows, phase>>

\* The next n accepted events, n > 0, become one window; the last window may
\* be handed over and the path drained in one step.
Emit ==
    /\ phase = "running"
    /\ Len(emitted) < Len(emitted')
    /\ Len(emitted') <= Len(accepted)
    /\ emitted' = SubSeq(accepted, 1, Len(emitted'))
    /\ windows' = windows + 1
    /\ phase' \in {"running", "drained"}
    /\ phase' = "drained" => emitted' = accepted
    /\ UNCHANGED accepted

Drain ==
    /\ phase = "running"
    /\ emitted = accepted
    /\ phase' = "drained"
    /\ UNCHANGED <<accepted, emitted, windows>>

Abort ==
    /\ phase = "running"
    /\ emitted = <<>>
    /\ phase' = "aborted"
    /\ UNCHANGED <<accepted, emitted, windows>>

Next == Accept \/ Emit \/ Drain \/ Abort

Spec == Init /\ [][Next]_vars
==============================================================================
