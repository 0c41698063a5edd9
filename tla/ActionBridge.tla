---------------------------- MODULE ActionBridge ----------------------------
(***************************************************************************)
(* The Android action bridge: AndroidAdapter in the daemon forwards one    *)
(* authorized action at a time over a TCP connection of its own and waits  *)
(* for the receipt; AuthorizedActionSocketServer on the device accepts     *)
(* connections, hands them to a bounded thread pool, authenticates, runs   *)
(* the action and answers.  Other local clients connect as well: "bad"     *)
(* ones time out or send something that is refused, "ping" ones send an    *)
(* authenticated message outside the execute protocol.                     *)
(*                                                                         *)
(* The pool's threads interleave, and the pair of atomics behind the       *)
(* back-off is read and written one at a time, as in the code.  Time is    *)
(* abstracted: a read times out, a freshness window runs out and a         *)
(* back-off ends at any moment.                                            *)
(***************************************************************************)
EXTENDS Naturals, FiniteSets

CONSTANTS
    Requests,     \* bound: the actions the adapter forwards, 1..Requests
    BadClients,   \* other connections that are refused
    Pings,        \* other connections that are authenticated
    Threads,      \* MAX_CLIENT_THREADS
    Pending,      \* MAX_PENDING_CLIENTS
    MaxFailures   \* MAX_AUTH_FAILURES_BEFORE_BACKOFF

ASSUME BridgeAssumption ==
    /\ Requests \in Nat
    /\ Threads \in Nat \ {0}
    /\ Pending \in Nat
    /\ MaxFailures \in Nat \ {0}
    /\ IsFiniteSet(BadClients) /\ IsFiniteSet(Pings)
    /\ (1..Requests) \cap (BadClients \cup Pings) = {}
    /\ BadClients \cap Pings = {}

Actions == 1..Requests
Clients == Actions \cup BadClients \cup Pings

VARIABLES
    server,      \* "running" or "stopped"
    conn,        \* where each connection is
    fresh,       \* freshness of each action's envelope: "fresh" or "expired"
    counted,     \* failures a thread has read back from incrementAndGet
    failedAuth,  \* failedAuthCount
    backoff,     \* "on" while now < rejectUntilMs
    device,      \* what the device did for each action: "none", "ok", "error"
    runs,        \* history: how often the device ran each action
    receipt,     \* the answer on each action's connection
    adapter,     \* "idle" or "waiting"
    result       \* what forward() returned: "none", "Succeeded", "Failed"

auth == <<counted, failedAuth, backoff>>
effects == <<device, runs, receipt>>
daemon == <<adapter, result>>
vars == <<server, conn, fresh, auth, effects, daemon>>

\* Connection states in which a pool thread is at work.
Handling == {"reading", "verifying", "failing", "backing", "clearing",
             "unlocking", "executing", "answering"}
Busy == Cardinality({c \in Clients : conn[c] \in Handling})
Queued == Cardinality({c \in Clients : conn[c] = "queued"})

Init ==
    /\ server = "running"
    /\ conn = [c \in Clients |-> "none"]
    /\ fresh = [a \in Actions |-> "fresh"]
    /\ counted = [c \in Clients |-> 0]
    /\ failedAuth = 0
    /\ backoff = "off"
    /\ device = [a \in Actions |-> "none"]
    /\ runs = [a \in Actions |-> 0]
    /\ receipt = [a \in Actions |-> "none"]
    /\ adapter = "idle"
    /\ result = [a \in Actions |-> "none"]

Goto(c, state) == conn' = [conn EXCEPT ![c] = state]

-----------------------------------------------------------------------------
(***************************************************************************)
(* AndroidAdapter.                                                         *)
(***************************************************************************)

\* Actions are forwarded one after the other: the window waits for each.
Turn(a) ==
    /\ adapter = "idle"
    /\ result[a] = "none"
    /\ \A b \in 1..(a - 1) : result[b] # "none"

\* The request is connected and written; or signing, connecting or writing it
\* fails, as it must when nobody listens.
Forward(a) ==
    /\ Turn(a)
    /\ \/ /\ server = "running"
          /\ adapter' = "waiting"
          /\ Goto(a, "offered")
          /\ UNCHANGED result
       \/ /\ result' = [result EXCEPT ![a] = "Failed"]
          /\ UNCHANGED <<adapter, conn>>
    /\ UNCHANGED <<server, fresh, auth, effects>>

Return(a, value) ==
    /\ result' = [result EXCEPT ![a] = value]
    /\ adapter' = "idle"
    /\ UNCHANGED <<server, conn, fresh, auth, effects>>

Waits(a) == adapter = "waiting" /\ result[a] = "none" /\ conn[a] # "none"

\* Defect variant: a request that was written counts as executed.
Receive_WriteIsSuccess(a) ==
    /\ Waits(a)
    /\ receipt[a] # "none" \/ conn[a] = "closed"
    /\ Return(a, "Succeeded")

\* A receipt is read, or the end of a connection closed without one.  A
\* receipt that is too long or does not parse is an error, whatever it says.
Receive(a) ==
    /\ Waits(a)
    /\ receipt[a] # "none" \/ conn[a] = "closed"
    /\ \/ receipt[a] = "ok" /\ Return(a, "Succeeded")
       \/ Return(a, "Failed")

\* Defect variant: the stream has no read timeout.
ReadTimeout_None(a) == FALSE /\ UNCHANGED vars

\* Five seconds without a byte.
ReadTimeout(a) ==
    /\ Waits(a)
    /\ receipt[a] = "none"
    /\ Return(a, "Failed")

-----------------------------------------------------------------------------
(***************************************************************************)
(* AuthorizedActionSocketServer.                                           *)
(***************************************************************************)

\* Another local client connects.
Connect(c) ==
    /\ c \notin Actions
    /\ server = "running"
    /\ conn[c] = "none"
    /\ Goto(c, "offered")
    /\ UNCHANGED <<server, fresh, auth, effects, daemon>>

\* The accept loop hands the connection to the pool: to a thread, else to the
\* queue, else it is closed unanswered.
Accept(c) ==
    /\ server = "running"
    /\ conn[c] = "offered"
    /\ Goto(c, CASE Busy < Threads -> "reading"
                 [] Busy >= Threads /\ Queued < Pending -> "queued"
                 [] OTHER -> "closed")
    /\ UNCHANGED <<server, fresh, auth, effects, daemon>>

\* A free thread takes a queued connection; the order is left open.
TakeQueued(c) ==
    /\ server = "running"
    /\ conn[c] = "queued"
    /\ Busy < Threads
    /\ Goto(c, "reading")
    /\ UNCHANGED <<server, fresh, auth, effects, daemon>>

\* sendBridgeResponse: the write may fail, which is only recorded.
Respond(c, status) ==
    \/ c \in Actions /\ receipt' = [receipt EXCEPT ![c] = status]
    \/ UNCHANGED receipt

\* readPayload, then isRateLimited.  What cannot be read or parsed is a
\* failure before the back-off is looked at.
Read(c) ==
    /\ conn[c] = "reading"
    /\ \/ c \in BadClients /\ Goto(c, "failing") /\ UNCHANGED receipt
       \/ backoff = "off" /\ Goto(c, "verifying") /\ UNCHANGED receipt
       \/ backoff = "on" /\ Goto(c, "closed") /\ Respond(c, "rejected")
    /\ UNCHANGED <<server, fresh, auth, device, runs, daemon>>

\* verifyExecuteEnvelope and validatePayload.
Verify(c) ==
    /\ conn[c] = "verifying"
    /\ Goto(c, IF c \in BadClients \/ (c \in Actions /\ fresh[c] = "expired")
               THEN "failing" ELSE "clearing")
    /\ UNCHANGED <<server, fresh, auth, effects, daemon>>

\* recordAuthFailure: the counter, then the back-off.
CountFailure(c) ==
    /\ conn[c] = "failing"
    /\ failedAuth' = failedAuth + 1
    /\ counted' = [counted EXCEPT ![c] = failedAuth + 1]
    /\ Goto(c, "backing")
    /\ UNCHANGED <<server, fresh, backoff, effects, daemon>>

\* Defect variant: the comparison is off by one.
BackOff_Early(c) ==
    /\ conn[c] = "backing"
    /\ backoff' = IF counted[c] + 1 >= MaxFailures THEN "on" ELSE backoff
    /\ Goto(c, "closed")
    /\ UNCHANGED <<server, fresh, counted, failedAuth, effects, daemon>>

\* Defect variant: the handler does not return after the refusal.
BackOff_RunsOn(c) ==
    /\ conn[c] = "backing"
    /\ backoff' = IF counted[c] >= MaxFailures THEN "on" ELSE backoff
    /\ Respond(c, "rejected")
    /\ Goto(c, IF c \in Actions THEN "executing" ELSE "closed")
    /\ UNCHANGED <<server, fresh, counted, failedAuth, device, runs, daemon>>

\* The client is refused and the connection closed.
BackOff(c) ==
    /\ conn[c] = "backing"
    /\ backoff' = IF counted[c] >= MaxFailures THEN "on" ELSE backoff
    /\ Respond(c, "rejected")
    /\ Goto(c, "closed")
    /\ UNCHANGED <<server, fresh, counted, failedAuth, device, runs, daemon>>

\* A client has proved itself: failedAuthCount, then rejectUntilMs is reset.
ClearFailures(c) ==
    /\ conn[c] = "clearing"
    /\ failedAuth' = 0
    /\ Goto(c, "unlocking")
    /\ UNCHANGED <<server, fresh, counted, backoff, effects, daemon>>

ClearBackoff(c) ==
    /\ conn[c] = "unlocking"
    /\ backoff' = "off"
    /\ Goto(c, IF c \in Actions THEN "executing" ELSE "closed")
    /\ UNCHANGED <<server, fresh, counted, failedAuth, effects, daemon>>

\* executeSystemAction, on the device.
Execute(c) ==
    /\ conn[c] = "executing"
    /\ \E outcome \in {"ok", "error"} : device' = [device EXCEPT ![c] = outcome]
    /\ runs' = [runs EXCEPT ![c] = @ + 1]
    /\ Goto(c, "answering")
    /\ UNCHANGED <<server, fresh, auth, receipt, daemon>>

\* The result is sent, and client.use closes the connection.
Answer(c) ==
    /\ conn[c] = "answering"
    /\ Respond(c, device[c])
    /\ Goto(c, "closed")
    /\ UNCHANGED <<server, fresh, auth, device, runs, daemon>>

\* stop(): the listening socket is closed and with it what was not accepted;
\* shutdownNow drops the queued connections without closing them.  Threads at
\* work finish what they are doing.
Stop ==
    /\ server = "running"
    /\ server' = "stopped"
    /\ conn' = [c \in Clients |->
                    CASE conn[c] = "offered" -> "closed"
                      [] conn[c] = "queued" -> "dropped"
                      [] OTHER -> conn[c]]
    /\ UNCHANGED <<fresh, auth, effects, daemon>>

-----------------------------------------------------------------------------
\* Time passes: an envelope's freshness window, the back-off.
Expire(a) ==
    /\ conn[a] # "none"
    /\ fresh[a] = "fresh"
    /\ fresh' = [fresh EXCEPT ![a] = "expired"]
    /\ UNCHANGED <<server, conn, auth, effects, daemon>>

BackoffEnds ==
    /\ backoff = "on"
    /\ backoff' = "off"
    /\ UNCHANGED <<server, conn, fresh, counted, failedAuth, effects, daemon>>

\* Every action has been forwarded and every thread is done.
Finished ==
    /\ \A a \in Actions : result[a] # "none"
    /\ UNCHANGED vars

AdapterStep(a) == Forward(a) \/ Receive(a) \/ ReadTimeout(a)

ServerStep(c) ==
    \/ Accept(c) \/ TakeQueued(c) \/ Read(c) \/ Verify(c) \/ CountFailure(c)
    \/ BackOff(c) \/ ClearFailures(c) \/ ClearBackoff(c) \/ Execute(c) \/ Answer(c)

Next ==
    \/ \E a \in Actions : AdapterStep(a) \/ Expire(a)
    \/ \E c \in Clients : Connect(c) \/ ServerStep(c)
    \/ Stop \/ BackoffEnds \/ Finished

Spec == Init /\ [][Next]_vars

\* The daemon's thread runs; read timeouts fire; the device owes nothing.
FairSpec == Spec /\ \A a \in Actions : WF_vars(AdapterStep(a))

-----------------------------------------------------------------------------
(***************************************************************************)
(* Properties.                                                             *)
(***************************************************************************)

\* Types, and the bounds of the pool: never more than Threads connections at
\* work and Pending ones waiting.
TypeOK ==
    /\ server \in {"running", "stopped"}
    /\ conn \in [Clients -> Handling \cup {"none", "offered", "queued", "dropped", "closed"}]
    /\ Busy <= Threads
    /\ Queued <= Pending
    /\ failedAuth \in 0..Cardinality(Clients)
    /\ backoff \in {"on", "off"}
    /\ device \in [Actions -> {"none", "ok", "error"}]
    /\ receipt \in [Actions -> {"none", "ok", "error", "rejected"}]
    /\ adapter \in {"idle", "waiting"}
    /\ result \in [Actions -> {"none", "Succeeded", "Failed"}]

\* The adapter never reports a success the device did not have: a succeeded
\* action was run, once, and ended well, whatever timed out, was turned away
\* or was dropped on the way.
SuccessIsReal ==
    \A a \in Actions :
        /\ runs[a] <= 1
        /\ result[a] = "Succeeded" => device[a] = "ok"

\* A receipt that says rejected means that the action has not been and will not
\* be run.
RejectedNotRun ==
    \A a \in Actions :
        receipt[a] = "rejected" => runs[a] = 0 /\ conn[a] = "closed"

\* Only refused clients and expired envelopes count as failures, a sound request
\* met by the back-off does not prolong it, and the back-off needs MaxFailures
\* failures, however the threads interleave.
BackoffIsEarned ==
    /\ failedAuth <= Cardinality({c \in Clients :
            c \in BadClients /\ conn[c] \in {"backing", "closed"}})
        + Cardinality({a \in Actions : fresh[a] = "expired"})
    /\ backoff = "on" =>
        Cardinality({c \in Clients : counted[c] > 0}) >= MaxFailures

\* Every action the daemon forwards comes back to it, also from a server that
\* stops and drops its queue without closing the connections.
EveryForwardReturns ==
    \A a \in Actions : Waits(a) ~> result[a] # "none"

=============================================================================
