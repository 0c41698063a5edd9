------------------------- MODULE ActionBridgeProofs -------------------------
(***************************************************************************)
(* Proofs about ActionBridge, for every number of actions, other clients,  *)
(* threads and queue places.                                               *)
(***************************************************************************)
EXTENDS ActionBridge, FiniteSetTheorems, TLAPS

ConnStates == Handling \cup {"none", "offered", "queued", "dropped", "closed"}

\* The part of the types the argument needs; the sizes of the pool and of the
\* queue play no role in it.
Types ==
    /\ conn \in [Clients -> ConnStates]
    /\ device \in [Actions -> {"none", "ok", "error"}]
    /\ runs \in [Actions -> Nat]
    /\ receipt \in [Actions -> {"none", "ok", "error", "rejected"}]
    /\ adapter \in {"idle", "waiting"}
    /\ result \in [Actions -> {"none", "Succeeded", "Failed"}]

\* The adapter has at most one action under way, and none when it is idle, so
\* that it never offers an action a second time.
Outstanding(a) == result[a] = "none" /\ conn[a] # "none"
OneAtATime ==
    /\ \A a, b \in Actions : Outstanding(a) /\ Outstanding(b) => a = b
    /\ adapter = "idle" => \A a \in Actions : ~Outstanding(a)

\* What the device has done for an action, by the place of its connection.
Untouched(a) == runs[a] = 0 /\ device[a] = "none" /\ receipt[a] = "none"
Progress(a) ==
    /\ conn[a] \notin {"answering", "closed"} => Untouched(a)
    /\ conn[a] = "answering" =>
        runs[a] = 1 /\ device[a] # "none" /\ receipt[a] = "none"
    /\ runs[a] <= 1
    /\ receipt[a] = "ok" => device[a] = "ok"
    /\ receipt[a] = "rejected" => runs[a] = 0
    /\ result[a] = "Succeeded" => device[a] = "ok"

IInv ==
    /\ Types
    /\ OneAtATime
    /\ \A a \in Actions : Progress(a)

\* A step that moves connections but neither creates one for an action nor lets
\* one reach the device, and leaves the daemon and the effects alone.
LEMMA Moves ==
    ASSUME IInv, UNCHANGED <<effects, daemon>>,
           conn' \in [Clients -> ConnStates],
           \A a \in Actions :
              \/ conn'[a] = conn[a]
              \/ /\ conn[a] \notin {"none", "answering", "closed"}
                 /\ conn'[a] \notin {"none", "answering"}
    PROVE  IInv'
<1> USE DEF IInv, effects, daemon
<1>1. Types'
  BY DEF Types
<1>2. \A a \in Actions : Outstanding(a)' => Outstanding(a)
  BY DEF Outstanding
<1>3. OneAtATime'
  BY <1>2 DEF OneAtATime
<1>4. ASSUME NEW a \in Actions PROVE Progress(a)'
  BY <1>4 DEF Progress, Untouched, Types
<1>5. QED
  BY <1>1, <1>3, <1>4

\* One connection moves, and its receipt may be written: a refusal before the
\* action has run, or the device's result after it.
LEMMA Refusal ==
    ASSUME IInv, NEW c \in Clients, UNCHANGED <<device, runs, daemon>>,
           conn[c] \notin {"none", "answering", "closed"},
           Goto(c, "closed"), Respond(c, "rejected")
    PROVE  IInv'
<1> USE DEF IInv, daemon, Goto, Respond
<1>1. Types'
  BY DEF Types, ConnStates
<1>2. \A a \in Actions : Outstanding(a)' => Outstanding(a)
  BY DEF Outstanding, Types
<1>3. OneAtATime'
  BY <1>2 DEF OneAtATime
<1>4. ASSUME NEW a \in Actions PROVE Progress(a)'
  BY <1>4 DEF Progress, Untouched, Types
<1>5. QED
  BY <1>1, <1>3, <1>4

\* The bridge keeps the inductive invariant.
THEOREM Invariance == Spec => []IInv
<1> USE DEF Clients
<1>1. Init => IInv
  BY DEF Init, IInv, Types, ConnStates, OneAtATime, Outstanding, Progress,
         Untouched
<1>2. IInv /\ [Next]_vars => IInv'
  <2> SUFFICES ASSUME IInv, [Next]_vars PROVE IInv'
    OBVIOUS
  <2>a. conn \in [Clients -> ConnStates]
    BY DEF IInv, Types
  <2>1. ASSUME NEW a \in Actions, Forward(a) PROVE IInv'
    <3>1. result[a] = "none" /\ adapter = "idle" /\ conn[a] = "none"
      BY <2>1 DEF Forward, Turn, IInv, OneAtATime, Outstanding
    <3>2. CASE Goto(a, "offered") /\ adapter' = "waiting" /\ UNCHANGED result
      <4>1. Types'
        BY <2>1, <3>2 DEF Forward, IInv, Types, Goto, ConnStates, effects
      <4>2. \A b \in Actions : Outstanding(b)' => b = a
        BY <3>1, <3>2 DEF IInv, OneAtATime, Outstanding, Goto, Types
      <4>3. \A b \in Actions : Progress(b)'
        BY <2>1, <3>1, <3>2 DEF Forward, IInv, Types, Goto, effects, Progress,
                                Untouched
      <4>4. QED
        BY <3>2, <4>1, <4>2, <4>3 DEF IInv, OneAtATime
    <3>3. CASE result' = [result EXCEPT ![a] = "Failed"]
               /\ UNCHANGED <<adapter, conn>>
      <4>1. Types'
        BY <2>1, <3>3 DEF Forward, IInv, Types, effects
      <4>2. \A b \in Actions : Outstanding(b)' => Outstanding(b)
        BY <3>3 DEF IInv, Outstanding, Types
      <4>3. \A b \in Actions : Progress(b)'
        BY <2>1, <3>3 DEF Forward, IInv, Types, effects, Progress, Untouched
      <4>4. QED
        BY <3>3, <4>1, <4>2, <4>3 DEF IInv, OneAtATime
    <3>4. QED
      BY <2>1, <3>2, <3>3 DEF Forward
  <2>2. ASSUME NEW a \in Actions, NEW v \in {"Succeeded", "Failed"}, Waits(a),
               Return(a, v), v = "Succeeded" => receipt[a] = "ok"
        PROVE  IInv'
    <3>1. Types'
      BY <2>2 DEF Return, IInv, Types, effects
    <3>2. \A b \in Actions : ~Outstanding(b)'
      BY <2>2 DEF Return, Waits, IInv, OneAtATime, Outstanding, Types
    <3>3. \A b \in Actions : Progress(b)'
      BY <2>2 DEF Return, IInv, Types, effects, Progress, Untouched
    <3>4. QED
      BY <3>1, <3>2, <3>3 DEF IInv, OneAtATime
  <2>3. ASSUME NEW a \in Actions, Receive(a) PROVE IInv'
    BY <2>2, <2>3 DEF Receive
  <2>4. ASSUME NEW a \in Actions, ReadTimeout(a) PROVE IInv'
    BY <2>2, <2>4 DEF ReadTimeout
  <2>5. ASSUME NEW a \in Actions, Expire(a) PROVE IInv'
    BY <2>5, <2>a, Moves DEF Expire
  <2>6. ASSUME NEW c \in Clients, Connect(c) PROVE IInv'
    BY <2>6, <2>a, Moves DEF Connect, Goto, ConnStates
  <2>7. ASSUME NEW c \in Clients, Accept(c) PROVE IInv'
    <3>1. PICK s \in {"reading", "queued", "closed"} : Goto(c, s)
      BY <2>7 DEF Accept
    <3>2. QED
      BY <2>7, <3>1, <2>a, Moves DEF Accept, Goto, ConnStates, Handling
  <2>8. ASSUME NEW c \in Clients, TakeQueued(c) PROVE IInv'
    BY <2>8, <2>a, Moves DEF TakeQueued, Goto, ConnStates, Handling
  <2>9. ASSUME NEW c \in Clients, Read(c) PROVE IInv'
    <3>1. CASE backoff = "on" /\ Goto(c, "closed") /\ Respond(c, "rejected")
      BY <2>9, <3>1, Refusal DEF Read
    <3>2. CASE (Goto(c, "failing") \/ Goto(c, "verifying")) /\ UNCHANGED receipt
      BY <2>9, <3>2, <2>a, Moves DEF Read, Goto, ConnStates, Handling, effects
    <3>3. QED
      BY <2>9, <3>1, <3>2 DEF Read
  <2>10. ASSUME NEW c \in Clients, Verify(c) PROVE IInv'
    <3>1. PICK s \in {"failing", "clearing"} : Goto(c, s)
      BY <2>10 DEF Verify
    <3>2. QED
      BY <2>10, <3>1, <2>a, Moves DEF Verify, Goto, ConnStates, Handling
  <2>11. ASSUME NEW c \in Clients, CountFailure(c) PROVE IInv'
    BY <2>11, <2>a, Moves DEF CountFailure, Goto, ConnStates, Handling
  <2>12. ASSUME NEW c \in Clients, BackOff(c) PROVE IInv'
    BY <2>12, Refusal DEF BackOff
  <2>13. ASSUME NEW c \in Clients, ClearFailures(c) PROVE IInv'
    BY <2>13, <2>a, Moves DEF ClearFailures, Goto, ConnStates, Handling
  <2>14. ASSUME NEW c \in Clients, ClearBackoff(c) PROVE IInv'
    <3>1. PICK s \in {"executing", "closed"} : Goto(c, s)
      BY <2>14 DEF ClearBackoff
    <3>2. QED
      BY <2>14, <3>1, <2>a, Moves DEF ClearBackoff, Goto, ConnStates, Handling
  <2>15. ASSUME NEW c \in Clients, Execute(c) PROVE IInv'
    <3>a. PICK outcome \in {"ok", "error"} : device' = [device EXCEPT ![c] = outcome]
      BY <2>15 DEF Execute
    <3>b. device' \in [Actions -> {"none", "ok", "error"}]
      BY <3>a DEF IInv, Types
    <3>c. runs' \in [Actions -> Nat]
      <4>1. CASE c \in Actions
        BY <2>15, <4>1 DEF Execute, IInv, Types
      <4>2. CASE c \notin Actions
        BY <2>15, <4>2 DEF Execute, IInv, Types
      <4>3. QED  BY <4>1, <4>2
    <3>1. Types'
      BY <2>15, <3>b, <3>c DEF Execute, IInv, Types, Goto, ConnStates, Handling,
                              daemon
    <3>2. \A b \in Actions : Outstanding(b)' => Outstanding(b)
      BY <2>15 DEF Execute, IInv, Outstanding, Types, Goto, daemon
    <3>3. \A b \in Actions : Progress(b)'
      BY <2>15 DEF Execute, IInv, Types, Goto, daemon, Progress, Untouched
    <3>4. QED
      BY <2>15, <3>1, <3>2, <3>3 DEF IInv, OneAtATime, Execute, daemon
  <2>16. ASSUME NEW c \in Clients, Answer(c) PROVE IInv'
    <3>1. Types'
      BY <2>16 DEF Answer, Respond, IInv, Types, Goto, ConnStates, daemon
    <3>2. \A b \in Actions : Outstanding(b)' => Outstanding(b)
      BY <2>16 DEF Answer, IInv, Outstanding, Types, Goto, daemon
    <3>3. \A b \in Actions : Progress(b)'
      BY <2>16 DEF Answer, Respond, IInv, Types, Goto, daemon, Progress, Untouched
    <3>4. QED
      BY <2>16, <3>1, <3>2, <3>3 DEF IInv, OneAtATime, Answer, daemon
  <2>17. CASE Stop
    BY <2>17, <2>a, Moves DEF Stop, ConnStates, Handling
  <2>18. CASE BackoffEnds
    BY <2>18, <2>a, Moves DEF BackoffEnds
  <2>19. CASE UNCHANGED vars
    BY <2>19, <2>a, Moves DEF vars
  <2>20. ASSUME NEW a \in Actions, AdapterStep(a) PROVE IInv'
    BY <2>1, <2>3, <2>4, <2>20 DEF AdapterStep
  <2>21. ASSUME NEW c \in Clients, ServerStep(c) PROVE IInv'
    BY <2>7, <2>8, <2>9, <2>10, <2>11, <2>12, <2>13, <2>14, <2>15, <2>16, <2>21
    DEF ServerStep
  <2>22. CASE Finished
    BY <2>19, <2>22 DEF Finished
  <2>23. QED
    BY <2>5, <2>6, <2>17, <2>18, <2>19, <2>20, <2>21, <2>22 DEF Next
<1>3. QED
  BY <1>1, <1>2, PTL DEF Spec

\* AndroidAdapter::forward never reports a success the device did not have, and
\* the device runs no action twice, under every interleaving of its threads.
THEOREM Success == Spec => []SuccessIsReal
<1>1. IInv => SuccessIsReal
  BY DEF IInv, Progress, SuccessIsReal
<1>2. QED  BY <1>1, Invariance, PTL

\* A rejected receipt is final: the action has not run and its connection is
\* closed, so that it never will.
THEOREM Rejection == Spec => []RejectedNotRun
<1>1. IInv => RejectedNotRun
  BY DEF IInv, Types, ConnStates, Clients, Progress, Untouched, RejectedNotRun
<1>2. QED  BY <1>1, Invariance, PTL

-----------------------------------------------------------------------------
(***************************************************************************)
(* The back-off.  failedAuthCount is reset at any moment by a client that  *)
(* proves itself, and a thread acts later on the value it read back from   *)
(* its own increment: what bounds both is the number of clients that have  *)
(* ever been counted, which no reset lowers.                               *)
(***************************************************************************)
Counted == {c \in Clients : counted[c] > 0}
Earned(c) == c \in BadClients \/ (c \in Actions /\ fresh[c] = "expired")

AuthTypes ==
    /\ fresh \in [Actions -> {"fresh", "expired"}]
    /\ counted \in [Clients -> Nat]
    /\ failedAuth \in Nat
    /\ backoff \in {"on", "off"}

\* A client is counted once, after it was refused, and never comes back.
Refused ==
    \A c \in Clients :
        /\ counted[c] > 0 => conn[c] \in {"backing", "closed"} /\ Earned(c)
        /\ conn[c] = "failing" => Earned(c)

Bounded ==
    /\ failedAuth <= Cardinality(Counted)
    /\ \A c \in Clients : counted[c] <= Cardinality(Counted)
    /\ backoff = "on" => Cardinality(Counted) >= MaxFailures

AuthInv == AuthTypes /\ Refused /\ Bounded

\* There are finitely many connections.
LEMMA ClientsFinite ==
    /\ IsFiniteSet(Actions) /\ IsFiniteSet(Clients)
    /\ \A S \in SUBSET Clients :
        /\ IsFiniteSet(S) /\ Cardinality(S) \in Nat
        /\ Cardinality(S) <= Cardinality(Clients)
<1>1. IsFiniteSet(Actions)
  BY BridgeAssumption, FS_Interval DEF Actions
<1>2. IsFiniteSet(Actions \cup BadClients)
  BY <1>1, BridgeAssumption, FS_Union
<1>3. IsFiniteSet(Clients)
  BY <1>2, BridgeAssumption, FS_Union DEF Clients
<1>4. QED  BY <1>1, <1>3, FS_Subset, FS_CardinalityType

\* A step that counts no failure keeps the bounds, as long as it moves no refused
\* client on, refuses only those who earned it and switches no back-off on.
LEMMA AuthMoves ==
    ASSUME AuthInv, UNCHANGED counted,
           failedAuth' \in {failedAuth, 0}, backoff' \in {backoff, "off"},
           fresh' \in [Actions -> {"fresh", "expired"}],
           \A a \in Actions : fresh[a] = "expired" => fresh'[a] = "expired",
           \A c \in Clients :
              /\ conn[c] \in {"backing", "closed"}
                    => conn'[c] \in {"backing", "closed"}
              /\ conn'[c] = "failing" => conn[c] = "failing" \/ Earned(c)
    PROVE  AuthInv'
<1>1. Counted' = Counted
  BY DEF Counted
<1>2. AuthTypes' /\ Cardinality(Counted) \in Nat
  BY ClientsFinite DEF AuthInv, AuthTypes, Counted
<1>3. \A c \in Clients : Earned(c) => Earned(c)'
  BY DEF Earned
<1>4. Refused'
  BY <1>3 DEF AuthInv, Refused
<1>5. Bounded'
  BY <1>1, <1>2 DEF AuthInv, AuthTypes, Bounded
<1>6. QED  BY <1>2, <1>4, <1>5 DEF AuthInv

\* Every failure counted is a client of its own, and the back-off is switched on
\* only by a thread that has read back a large enough count.
LEMMA AuthStep == IInv /\ AuthInv /\ [Next]_vars => AuthInv'
<1> SUFFICES ASSUME IInv, AuthInv, [Next]_vars PROVE AuthInv'
  OBVIOUS
<1>a. /\ conn \in [Clients -> ConnStates]
      /\ fresh \in [Actions -> {"fresh", "expired"}]
      /\ backoff \in {"on", "off"}
  BY DEF IInv, Types, AuthInv, AuthTypes
<1>1. ASSUME NEW c \in Clients, CountFailure(c) PROVE AuthInv'
  <2>1. /\ conn[c] = "failing" /\ conn' = [conn EXCEPT ![c] = "backing"]
        /\ failedAuth' = failedAuth + 1
        /\ counted' = [counted EXCEPT ![c] = failedAuth + 1]
        /\ UNCHANGED <<fresh, backoff>>
    BY <1>1 DEF CountFailure, Goto
  <2>2. AuthTypes /\ Refused /\ Bounded /\ BridgeAssumption
    BY BridgeAssumption DEF AuthInv
  <2>3. c \notin Counted /\ Earned(c)
    BY <2>1, <2>2 DEF Refused, Counted
  <2>4. Counted' = Counted \cup {c}
    BY <2>1, <2>2 DEF Counted, AuthTypes
  <2>5. /\ Cardinality(Counted) \in Nat
        /\ Cardinality(Counted') = Cardinality(Counted) + 1
    <3>1. IsFiniteSet(Counted) /\ Cardinality(Counted) \in Nat
      BY ClientsFinite DEF Counted
    <3>2. QED  BY <2>3, <2>4, <3>1, FS_AddElement
  <2>6. AuthTypes'
    BY <2>1, <2>2 DEF AuthTypes
  <2>7. Refused'
    BY <1>a, <2>1, <2>2, <2>3 DEF Refused, Earned, AuthTypes
  <2>8. Bounded'
    <3>1. failedAuth' <= Cardinality(Counted')
      BY <2>1, <2>2, <2>5 DEF Bounded, AuthTypes
    <3>2. ASSUME NEW d \in Clients PROVE counted'[d] <= Cardinality(Counted')
      BY <2>1, <2>2, <2>5, <3>1 DEF Bounded, AuthTypes
    <3>3. backoff' = "on" => Cardinality(Counted') >= MaxFailures
      BY <2>1, <2>2, <2>5 DEF Bounded, BridgeAssumption
    <3>4. QED  BY <3>1, <3>2, <3>3 DEF Bounded
  <2>9. QED  BY <2>6, <2>7, <2>8 DEF AuthInv
<1>2. ASSUME NEW c \in Clients, BackOff(c) PROVE AuthInv'
  <2>1. /\ conn[c] = "backing" /\ conn' = [conn EXCEPT ![c] = "closed"]
        /\ UNCHANGED <<fresh, counted, failedAuth>>
        /\ backoff' = IF counted[c] >= MaxFailures THEN "on" ELSE backoff
    BY <1>2 DEF BackOff, Goto
  <2>2. AuthTypes /\ Refused /\ Bounded /\ MaxFailures \in Nat
    BY BridgeAssumption DEF AuthInv
  <2>3. Counted' = Counted /\ Cardinality(Counted) \in Nat
    BY <2>1, ClientsFinite DEF Counted
  <2>4. AuthTypes'
    BY <2>1, <2>2 DEF AuthTypes
  <2>5. Refused'
    BY <1>a, <2>1, <2>2 DEF Refused, Earned
  <2>6. Bounded'
    <3>1. counted[c] \in Nat /\ counted[c] <= Cardinality(Counted)
      BY <2>2 DEF AuthTypes, Bounded
    <3>2. backoff' = "on" => Cardinality(Counted) >= MaxFailures
      BY <2>1, <2>2, <2>3, <3>1 DEF Bounded
    <3>3. QED  BY <2>1, <2>2, <2>3, <3>2 DEF Bounded
  <2>7. QED  BY <2>4, <2>5, <2>6 DEF AuthInv
<1>3. ASSUME NEW c \in Clients,
             \/ Connect(c) \/ Accept(c) \/ TakeQueued(c)
             \/ Execute(c) \/ Answer(c)
      PROVE  AuthInv'
  <2>1. PICK t \in {"offered", "reading", "queued", "closed", "answering"} :
            conn' = [conn EXCEPT ![c] = t]
    BY <1>3 DEF Connect, Accept, TakeQueued, Execute, Answer, Goto
  <2>2. conn[c] \notin {"backing", "closed"}
    BY <1>3 DEF Connect, Accept, TakeQueued, Execute, Answer
  <2>3. UNCHANGED <<counted, failedAuth, backoff, fresh>>
    BY <1>3 DEF Connect, Accept, TakeQueued, Execute, Answer, auth
  <2>4. QED  BY <1>a, <2>1, <2>2, <2>3, AuthMoves
<1>4. ASSUME NEW c \in Clients, Read(c) PROVE AuthInv'
  <2>1. PICK t \in {"failing", "verifying", "closed"} :
            conn' = [conn EXCEPT ![c] = t] /\ (t = "failing" => c \in BadClients)
    BY <1>4 DEF Read, Goto
  <2>2. conn[c] = "reading" /\ UNCHANGED <<counted, failedAuth, backoff, fresh>>
    BY <1>4 DEF Read, auth
  <2>3. QED  BY <1>a, <2>1, <2>2, AuthMoves DEF Earned
<1>5. ASSUME NEW c \in Clients, Verify(c) PROVE AuthInv'
  <2>1. PICK t \in {"failing", "clearing"} :
            conn' = [conn EXCEPT ![c] = t] /\ (t = "failing" => Earned(c))
    BY <1>5 DEF Verify, Goto, Earned
  <2>2. conn[c] = "verifying" /\ UNCHANGED <<counted, failedAuth, backoff, fresh>>
    BY <1>5 DEF Verify, auth
  <2>3. QED  BY <1>a, <2>1, <2>2, AuthMoves
<1>6. ASSUME NEW c \in Clients, ClearFailures(c) \/ ClearBackoff(c)
      PROVE  AuthInv'
  <2>1. PICK t \in {"unlocking", "executing", "closed"} :
            conn' = [conn EXCEPT ![c] = t]
    BY <1>6 DEF ClearFailures, ClearBackoff, Goto
  <2>2. /\ conn[c] \in {"clearing", "unlocking"}
        /\ failedAuth' \in {failedAuth, 0} /\ backoff' \in {backoff, "off"}
        /\ UNCHANGED <<counted, fresh>>
    BY <1>6 DEF ClearFailures, ClearBackoff
  <2>3. QED  BY <1>a, <2>1, <2>2, AuthMoves
<1>7. ASSUME NEW a \in Actions, Forward(a) PROVE AuthInv'
  <2>1. conn[a] = "none" /\ a \in Clients
    BY <1>7 DEF Forward, Turn, IInv, OneAtATime, Outstanding, Clients
  <2>2. conn' = conn \/ conn' = [conn EXCEPT ![a] = "offered"]
    BY <1>7 DEF Forward, Goto
  <2>3. UNCHANGED <<counted, failedAuth, backoff, fresh>>
    BY <1>7 DEF Forward, auth
  <2>4. QED  BY <1>a, <2>1, <2>2, <2>3, AuthMoves
<1>8. ASSUME NEW a \in Actions, Expire(a) PROVE AuthInv'
  <2>1. /\ UNCHANGED <<conn, counted, failedAuth, backoff>>
        /\ fresh' = [fresh EXCEPT ![a] = "expired"]
    BY <1>8 DEF Expire, auth
  <2>2. QED  BY <1>a, <2>1, AuthMoves
<1>9. CASE Stop
  <2>1. UNCHANGED <<counted, failedAuth, backoff, fresh>>
    BY <1>9 DEF Stop, auth
  <2>2. \A c \in Clients :
            \/ conn'[c] = conn[c]
            \/ conn[c] \in {"offered", "queued"} /\ conn'[c] \in {"closed", "dropped"}
    BY <1>9 DEF Stop
  <2>3. QED  BY <1>a, <2>1, <2>2, AuthMoves
<1>10. CASE BackoffEnds
  BY <1>10, <1>a, AuthMoves DEF BackoffEnds
<1>11. ASSUME NEW a \in Actions, Receive(a) \/ ReadTimeout(a) PROVE AuthInv'
  <2>1. UNCHANGED <<conn, counted, failedAuth, backoff, fresh>>
    BY <1>11 DEF Receive, ReadTimeout, Return, auth
  <2>2. QED  BY <1>a, <2>1, AuthMoves
<1>12. CASE Finished \/ UNCHANGED vars
  <2>1. UNCHANGED <<conn, counted, failedAuth, backoff, fresh>>
    BY <1>12 DEF Finished, vars, auth
  <2>2. QED  BY <1>a, <2>1, AuthMoves
<1>13. ASSUME NEW c \in Clients, ServerStep(c) PROVE AuthInv'
  BY <1>13, <1>1, <1>2, <1>3, <1>4, <1>5, <1>6 DEF ServerStep
<1>14. ASSUME NEW a \in Actions, AdapterStep(a) PROVE AuthInv'
  BY <1>14, <1>7, <1>11 DEF AdapterStep
<1>15. QED
  BY <1>3, <1>8, <1>9, <1>10, <1>12, <1>13, <1>14 DEF Next

\* The bounds on the failure counters hold in every reachable state.
THEOREM AuthInvariance == Spec => []AuthInv
<1>1. Init => AuthInv
  <2> SUFFICES ASSUME Init PROVE AuthInv
    OBVIOUS
  <2>1. AuthTypes /\ Refused /\ Counted = {}
    BY DEF Init, AuthTypes, Refused, Counted
  <2>2. Bounded
    BY <2>1, FS_EmptySet DEF Init, Bounded
  <2>3. QED  BY <2>1, <2>2 DEF AuthInv
<1>2. QED  BY <1>1, AuthStep, Invariance, PTL DEF Spec

\* The rate limiter is driven by refused clients and expired envelopes alone, and
\* needs MaxFailures of them, however handleClient's threads interleave on the
\* two atomics of recordAuthFailure.
THEOREM Backoff == Spec => []BackoffIsEarned
<1>1. IInv /\ AuthInv => BackoffIsEarned
  <2> SUFFICES ASSUME IInv, AuthInv PROVE BackoffIsEarned
    OBVIOUS
  <2> DEFINE B == {c \in Clients : c \in BadClients /\ conn[c] \in {"backing", "closed"}}
             X == {a \in Actions : fresh[a] = "expired"}
  <2>1. B \subseteq Clients /\ X \subseteq Clients /\ B \cup X \subseteq Clients
    BY DEF Clients
  <2>2. Counted \subseteq B \cup X
    BY DEF AuthInv, Refused, Earned, Counted
  <2>3. /\ IsFiniteSet(B) /\ IsFiniteSet(X) /\ IsFiniteSet(B \cup X)
        /\ Cardinality(B) \in Nat /\ Cardinality(X) \in Nat
        /\ Cardinality(B \cup X) \in Nat
    BY <2>1, ClientsFinite
  <2>4. Cardinality(B \cap X) \in Nat
    BY <2>3, FS_Intersection, FS_CardinalityType
  <2>5. Cardinality(B \cup X) <= Cardinality(B) + Cardinality(X)
    <3>1. Cardinality(B \cup X)
            = Cardinality(B) + Cardinality(X) - Cardinality(B \cap X)
      BY <2>3, FS_Union
    <3>2. QED  BY <2>3, <2>4, <3>1
  <2>6. Cardinality(Counted) <= Cardinality(B \cup X) /\ Cardinality(Counted) \in Nat
    <3>1. Cardinality(Counted) \in Nat
      BY ClientsFinite DEF Counted
    <3>2. QED  BY <2>2, <2>3, <3>1, FS_Subset
  <2>7. failedAuth <= Cardinality(Counted) /\ failedAuth \in Nat
    BY DEF AuthInv, Bounded, AuthTypes
  <2> HIDE DEF B, X
  <2>8. failedAuth <= Cardinality(B) + Cardinality(X)
    BY <2>3, <2>5, <2>6, <2>7
  <2>9. backoff = "on" => Cardinality({c \in Clients : counted[c] > 0}) >= MaxFailures
    BY DEF AuthInv, Bounded, Counted
  <2>10. QED  BY <2>8, <2>9 DEF B, X, BackoffIsEarned
<1>2. QED  BY <1>1, Invariance, AuthInvariance, PTL

-----------------------------------------------------------------------------
(* The pool. *)

\* The sets the pool's bounds are about; a step adds at most one connection to
\* them, and only where there is room.
InPool(states) == {c \in Clients : conn[c] \in states}
PoolInv ==
    /\ server \in {"running", "stopped"}
    /\ Cardinality(InPool(Handling)) <= Threads
    /\ Cardinality(InPool({"queued"})) <= Pending

\* What InPool counts is what the model calls Busy and Queued.
LEMMA PoolCounts ==
    /\ Busy = Cardinality(InPool(Handling))
    /\ Queued = Cardinality(InPool({"queued"}))
<1>1. {c \in Clients : conn[c] = "queued"} = InPool({"queued"})
  BY DEF InPool
<1>2. QED  BY <1>1 DEF Busy, Queued, InPool

\* A step that brings no connection to a thread or to the queue.
LEMMA PoolShrinks ==
    ASSUME PoolInv, server' \in {"running", "stopped"},
           \A c \in Clients : /\ conn'[c] \in Handling => conn[c] \in Handling
                              /\ conn'[c] = "queued" => conn[c] = "queued"
    PROVE  PoolInv'
<1>1. ASSUME NEW states, NEW n \in Nat, InPool(states)' \subseteq InPool(states),
             Cardinality(InPool(states)) <= n
      PROVE  Cardinality(InPool(states)') <= n
  <2> DEFINE P == InPool(states)
             Q == InPool(states)'
  <2>1. P \subseteq Clients /\ Q \subseteq Clients
    BY DEF InPool
  <2>2. IsFiniteSet(P) /\ Cardinality(P) \in Nat /\ Cardinality(Q) \in Nat
    BY <2>1, ClientsFinite
  <2> HIDE DEF P, Q
  <2>3. Cardinality(Q) <= Cardinality(P)
    BY <1>1, <2>2, FS_Subset DEF P, Q
  <2>4. QED  BY <1>1, <2>2, <2>3 DEF P, Q
<1>2. InPool(Handling)' \subseteq InPool(Handling)
      /\ InPool({"queued"})' \subseteq InPool({"queued"})
  BY DEF InPool
<1>3. Threads \in Nat /\ Pending \in Nat
  BY BridgeAssumption
<1>4. QED  BY <1>1, <1>2, <1>3 DEF PoolInv

\* A connection is given a thread, or a place in the queue, when there is one.
LEMMA PoolGrows ==
    ASSUME NEW c \in Clients, NEW n \in Nat, NEW states,
           Cardinality(InPool(states)) < n,
           InPool(states)' \subseteq InPool(states) \cup {c}
    PROVE  Cardinality(InPool(states)') <= n
<1> DEFINE P == InPool(states)
           Q == InPool(states)'
<1>1. P \subseteq Clients /\ Q \subseteq Clients
  BY DEF InPool
<1>2. IsFiniteSet(P) /\ Cardinality(P) \in Nat /\ Cardinality(Q) \in Nat
  BY <1>1, ClientsFinite
<1> HIDE DEF P, Q
<1>3. /\ IsFiniteSet(P \cup {c}) /\ Cardinality(P \cup {c}) \in Nat
      /\ Cardinality(P \cup {c}) <= Cardinality(P) + 1
  <2>1. /\ IsFiniteSet(P \cup {c})
        /\ Cardinality(P \cup {c}) = IF c \in P THEN Cardinality(P)
                                                ELSE Cardinality(P) + 1
    BY <1>2, FS_AddElement
  <2>2. QED  BY <1>2, <2>1
<1>4. Cardinality(Q) <= Cardinality(P \cup {c})
  BY <1>3, FS_Subset DEF P, Q
<1>5. Cardinality(P) < n
  BY DEF P
<1>6. Cardinality(Q) <= n
  BY <1>2, <1>3, <1>4, <1>5
<1>7. QED  BY <1>6 DEF Q

\* The server never has more threads at work or more connections waiting than
\* its pool was built for.
LEMMA PoolStep == IInv /\ PoolInv /\ [Next]_vars => PoolInv'
<1> SUFFICES ASSUME IInv, PoolInv, [Next]_vars PROVE PoolInv'
  OBVIOUS
<1>a. /\ conn \in [Clients -> ConnStates] /\ server \in {"running", "stopped"}
      /\ Threads \in Nat /\ Pending \in Nat
  BY BridgeAssumption DEF IInv, Types, PoolInv
<1>b. /\ Cardinality(InPool(Handling)) \in Nat
      /\ Cardinality(InPool({"queued"})) \in Nat
  BY ClientsFinite DEF InPool
<1>1. ASSUME NEW c \in Clients, Accept(c) PROVE PoolInv'
  <2>1. conn[c] = "offered" /\ server' = server
    BY <1>1 DEF Accept
  <2>2. CASE Busy < Threads
    <3>0. ~(Busy >= Threads)
      BY <1>a, <1>b, <2>2, PoolCounts
    <3>1. conn' = [conn EXCEPT ![c] = "reading"]
      BY <1>1, <2>2, <3>0 DEF Accept, Goto
    <3>2. InPool(Handling)' \subseteq InPool(Handling) \cup {c}
          /\ InPool({"queued"})' = InPool({"queued"})
      BY <1>a, <2>1, <3>1 DEF InPool
    <3>3. Cardinality(InPool(Handling)) < Threads
      BY <2>2, PoolCounts
    <3>4. Cardinality(InPool(Handling)') <= Threads
      BY <1>a, <3>2, <3>3, PoolGrows
    <3>5. QED  BY <2>1, <3>2, <3>4 DEF PoolInv
  <2>3. CASE ~(Busy < Threads) /\ Queued < Pending
    <3>1. Busy >= Threads
      BY <1>a, <1>b, <2>3, PoolCounts
    <3>2. conn' = [conn EXCEPT ![c] = "queued"]
      BY <1>1, <2>3, <3>1 DEF Accept, Goto
    <3>3. InPool({"queued"})' \subseteq InPool({"queued"}) \cup {c}
          /\ InPool(Handling)' = InPool(Handling)
      BY <1>a, <2>1, <3>2 DEF InPool, Handling
    <3>4. Cardinality(InPool({"queued"})) < Pending
      BY <2>3, PoolCounts
    <3>5. Cardinality(InPool({"queued"})') <= Pending
      BY <1>a, <3>3, <3>4, PoolGrows
    <3>6. QED  BY <2>1, <3>3, <3>5 DEF PoolInv
  <2>4. CASE ~(Busy < Threads) /\ ~(Queued < Pending)
    <3>1. conn' = [conn EXCEPT ![c] = "closed"]
      BY <1>1, <2>4 DEF Accept, Goto
    <3>2. QED  BY <1>a, <2>1, <3>1, PoolShrinks DEF Handling
  <2>5. QED  BY <2>2, <2>3, <2>4
<1>2. ASSUME NEW c \in Clients, TakeQueued(c) PROVE PoolInv'
  <2>1. /\ conn[c] = "queued" /\ server' = server /\ Busy < Threads
        /\ conn' = [conn EXCEPT ![c] = "reading"]
    BY <1>2 DEF TakeQueued, Goto
  <2>2. /\ InPool(Handling)' \subseteq InPool(Handling) \cup {c}
        /\ InPool({"queued"})' \subseteq InPool({"queued"}) \cup {c}
        /\ InPool({"queued"})' \subseteq InPool({"queued"})
    BY <1>a, <2>1 DEF InPool
  <2>3. Cardinality(InPool(Handling)) < Threads
    BY <2>1, PoolCounts
  <2>4. Cardinality(InPool(Handling)') <= Threads
    BY <1>a, <2>2, <2>3, PoolGrows
  <2>5. Cardinality(InPool({"queued"})') <= Pending
    <3>1. InPool({"queued"}) \subseteq Clients
          /\ IsFiniteSet(InPool({"queued"}))
      BY ClientsFinite DEF InPool
    <3>2. /\ Cardinality(InPool({"queued"})') <= Cardinality(InPool({"queued"}))
          /\ Cardinality(InPool({"queued"})') \in Nat
      BY <2>2, <3>1, FS_Subset, FS_CardinalityType
    <3>3. QED  BY <1>a, <1>b, <3>2 DEF PoolInv
  <2>6. QED  BY <1>a, <2>1, <2>4, <2>5 DEF PoolInv
<1>3. ASSUME NEW c \in Clients,
             \/ Read(c) \/ Verify(c) \/ CountFailure(c) \/ BackOff(c)
             \/ ClearFailures(c) \/ ClearBackoff(c) \/ Execute(c) \/ Answer(c)
      PROVE  PoolInv'
  <2>1. PICK t \in (Handling \cup {"closed"}) : conn' = [conn EXCEPT ![c] = t]
    BY <1>3 DEF Read, Verify, CountFailure, BackOff, ClearFailures, ClearBackoff,
                Execute, Answer, Goto, Handling
  <2>2. conn[c] \in Handling
    BY <1>3 DEF Read, Verify, CountFailure, BackOff, ClearFailures, ClearBackoff,
                Execute, Answer, Handling
  <2>3. server' = server
    BY <1>3 DEF Read, Verify, CountFailure, BackOff, ClearFailures, ClearBackoff,
                Execute, Answer
  <2>4. t # "queued"
    BY <2>1 DEF Handling
  <2>5. QED  BY <1>a, <2>1, <2>2, <2>3, <2>4, PoolShrinks
<1>4. ASSUME NEW c \in Clients, Connect(c) PROVE PoolInv'
  <2>1. conn' = [conn EXCEPT ![c] = "offered"] /\ server' = server
    BY <1>4 DEF Connect, Goto
  <2>2. QED  BY <1>a, <2>1, PoolShrinks DEF Handling
<1>5. ASSUME NEW a \in Actions, AdapterStep(a) \/ Expire(a) PROVE PoolInv'
  <2>1. /\ conn' = conn \/ conn' = [conn EXCEPT ![a] = "offered"]
        /\ server' = server
    BY <1>5 DEF AdapterStep, Forward, Receive, ReadTimeout, Return, Expire, Goto
  <2>2. QED  BY <1>a, <2>1, PoolShrinks DEF Handling
<1>6. CASE Stop
  <2>1. \A c \in Clients : conn'[c] = conn[c] \/ conn'[c] \in {"closed", "dropped"}
    BY <1>6 DEF Stop
  <2>2. server' = "stopped"
    BY <1>6 DEF Stop
  <2>3. QED  BY <2>1, <2>2, PoolShrinks DEF Handling
<1>7. CASE BackoffEnds \/ Finished \/ UNCHANGED vars
  <2>1. UNCHANGED <<conn, server>>
    BY <1>7 DEF BackoffEnds, Finished, vars
  <2>2. QED  BY <1>a, <2>1, PoolShrinks
<1>8. QED
  BY <1>1, <1>2, <1>3, <1>4, <1>5, <1>6, <1>7 DEF Next, ServerStep

\* The pool of the device's server keeps its bounds, its failure counter never
\* exceeds the number of connections, and every state is well typed.
THEOREM TypeCorrect == Spec => []TypeOK
<1>1. Init => PoolInv
  <2> SUFFICES ASSUME Init PROVE PoolInv
    OBVIOUS
  <2>1. InPool(Handling) = {} /\ InPool({"queued"}) = {} /\ server = "running"
    BY DEF Init, InPool, Handling
  <2>2. QED  BY <2>1, FS_EmptySet, BridgeAssumption DEF PoolInv
<1>2. IInv /\ AuthInv /\ PoolInv => TypeOK
  <2> SUFFICES ASSUME IInv, AuthInv, PoolInv PROVE TypeOK
    OBVIOUS
  <2>1. Busy <= Threads /\ Queued <= Pending
    BY PoolCounts DEF PoolInv
  <2>2. failedAuth \in 0..Cardinality(Clients)
    <3>1. Counted \subseteq Clients /\ Clients \subseteq Clients
      BY DEF Counted
    <3>2. /\ Cardinality(Counted) \in Nat /\ Cardinality(Clients) \in Nat
          /\ Cardinality(Counted) <= Cardinality(Clients)
      BY <3>1, ClientsFinite
    <3>3. failedAuth \in Nat /\ failedAuth <= Cardinality(Counted)
      BY DEF AuthInv, AuthTypes, Bounded
    <3>4. QED  BY <3>2, <3>3
  <2>3. QED
    BY <2>1, <2>2 DEF TypeOK, IInv, Types, ConnStates, AuthInv, AuthTypes, PoolInv
<1>3. QED
  BY <1>1, <1>2, PoolStep, Invariance, AuthInvariance, PTL DEF Spec
=============================================================================
