-------------------------- MODULE ActionGovernance --------------------------
(***************************************************************************)
(* ActionLifecycle: how the untrusted intents of one window become         *)
(* executed, denied or rejected actions under the verdicts of PolicyEngine,*)
(* and the audit record each of them leaves.                               *)
(***************************************************************************)
EXTENDS PolicyEngine

CONSTANTS
    Batches,        \* intent batches the backends may return
    Routes,         \* decision routes they may have come from
    Contexts,       \* sets of packages a window may have seen
    MaxWindows      \* bound on the windows processed

TerminalStates ==
    {"Succeeded", "RejectedInvalidSchema", "DeniedByCapability",
     "DeniedByPolicy", "Failed"}

\* An IntentBatch as the backends build it: a vector of intents, each with a
\* vector of actions of the types the daemon knows.
IsVec(s) == s \in Seq({s[i] : i \in DOMAIN s})
IsIntent(intent) ==
    /\ intent.risk \in {"Low", "Medium", "High"}
    /\ intent.confident \in BOOLEAN
    /\ IsVec(intent.actions)
    /\ \A n \in DOMAIN intent.actions : intent.actions[n].type \in ActionTypes

ASSUME GovernanceAssumption ==
    /\ \A b \in Batches : IsVec(b) /\ \A i \in DOMAIN b : IsIntent(b[i])
    /\ Routes \subseteq {"RuleBased", "LocalEvaluator", "CloudLlm", "FallbackNoOp"}
    /\ MaxWindows \in Nat

-----------------------------------------------------------------------------
(***************************************************************************)
(* ActionLifecycle.                                                        *)
(***************************************************************************)

VARIABLES
    windowOrdinal,  \* window_ordinal of the window being governed
    batch,          \* its intent batch
    route,          \* the route the batch came from
    known,          \* KnownTargets of its context
    verdicts,       \* decisions_by_coord
    todo,           \* coordinates run() has not visited yet
    stage,          \* what happens next: "idle", "propose", "schema", "policy",
                    \* "execute"
    record,         \* the audit record being built
    records,        \* the audit records of this window
    executed,       \* history: coordinates the adapter executed this window
    summary         \* the counts process_window derives from the records

window == <<windowOrdinal, batch, route, known, verdicts>>
vars == <<window, todo, stage, record, records, executed, summary>>

Coords(b) == UNION {{<<i, n>> : n \in DOMAIN b[i].actions} : i \in DOMAIN b}
ActionAt(b, c) == b[c[1]].actions[c[2]]

\* The nested loops visit coordinates intent by intent, action by action.
Before(c, d) == c[1] < d[1] \/ (c[1] = d[1] /\ c[2] < d[2])
First(coords) == CHOOSE c \in coords : \A d \in coords \ {c} : Before(c, d)

NoRecord == [coord |-> <<0, 0>>, transitions |-> <<>>, reason |-> "none"]
Terminal(r) == r.transitions[Len(r.transitions)]
Transition(r, states) == [r EXCEPT !.transitions = @ \o states]
NoSummary == [succeeded |-> 0, denied |-> 0, failed |-> 0]

Init ==
    /\ windowOrdinal = 0
    /\ batch = <<>>
    /\ route \in Routes
    /\ known = {}
    /\ verdicts = <<>>
    /\ todo = {}
    /\ stage = "idle"
    /\ record = NoRecord
    /\ records = <<>>
    /\ executed = <<>>
    /\ summary = NoSummary

\* evaluate_batch_with_context: all verdicts are computed before any action
\* of the batch is looked at by run().
BeginWindow ==
    /\ stage = "idle"
    /\ windowOrdinal < MaxWindows
    /\ \E b \in Batches, r \in Routes, k \in Contexts :
        /\ batch' = b
        /\ route' = r
        /\ known' = k
        /\ verdicts' = [c \in Coords(b) |-> EvaluateAction(b[c[1]], c[2], r, k)]
        /\ todo' = Coords(b)
    /\ records' = <<>>
    /\ executed' = <<>>
    /\ summary' = NoSummary
    /\ stage' = "propose"
    /\ UNCHANGED <<windowOrdinal, record>>

Propose ==
    /\ stage = "propose"
    /\ todo # {}
    /\ record' = [coord |-> First(todo), transitions |-> <<"Proposed">>,
                  reason |-> "none"]
    /\ todo' = todo \ {First(todo)}
    /\ stage' = "schema"
    /\ UNCHANGED <<window, records, executed, summary>>

\* The record is complete and run() goes on to the next action.
PushRecord(r) ==
    /\ records' = Append(records, r)
    /\ record' = NoRecord
    /\ stage' = "propose"

ValidateSchema ==
    /\ stage = "schema"
    /\ LET c == record.coord IN
       IF SchemaValid(batch[c[1]], ActionAt(batch, c))
       THEN /\ record' = Transition(record, <<"SchemaValidated">>)
            /\ stage' = "policy"
            /\ UNCHANGED records
       ELSE PushRecord(Transition(record, <<"RejectedInvalidSchema">>))
    /\ UNCHANGED <<window, todo, executed, summary>>

\* The verdict is looked up by coordinate: a missing one fails the action, an
\* approval seals and dispatches it, a denial ends it.
CheckPolicy ==
    /\ stage = "policy"
    /\ LET c == record.coord IN
       IF c \notin DOMAIN verdicts
       THEN PushRecord(Transition(record, <<"Failed">>))
       ELSE IF verdicts[c] = "Approved"
       THEN /\ record' = Transition(record, <<"PolicyChecked", "Dispatched">>)
            /\ stage' = "execute"
            /\ UNCHANGED records
       ELSE PushRecord([Transition(record, <<"PolicyChecked",
                                            DenialToTerminal(verdicts[c])>>)
                        EXCEPT !.reason = verdicts[c]])
    /\ UNCHANGED <<window, todo, executed, summary>>

\* Defect variant: a failed execution is retried and leaves two records.
Execute_Retried ==
    /\ stage = "execute"
    /\ \/ /\ executed' = Append(executed, record.coord)
          /\ PushRecord(Transition(record, <<"Succeeded">>))
       \/ /\ executed' = executed \o <<record.coord, record.coord>>
          /\ PushRecord(Transition(record, <<"Failed">>))
    /\ UNCHANGED <<window, todo, summary>>

\* adapter.execute(&authorized): the adapter reports success or an error.
Execute ==
    /\ stage = "execute"
    /\ executed' = Append(executed, record.coord)
    /\ \E outcome \in {"Succeeded", "Failed"} :
        PushRecord(Transition(record, <<outcome>>))
    /\ UNCHANGED <<window, todo, summary>>

\* Defect variant: rejected proposals are not counted as denied.
EndWindow_RejectedUncounted ==
    /\ stage = "propose"
    /\ todo = {}
    /\ LET n(states) == Cardinality({i \in DOMAIN records :
                                        Terminal(records[i]) \in states})
       IN  summary' = [succeeded |-> n({"Succeeded"}), failed |-> n({"Failed"}),
                       denied |-> n({"DeniedByCapability", "DeniedByPolicy"})]
    /\ windowOrdinal' = windowOrdinal + 1
    /\ stage' = "idle"
    /\ UNCHANGED <<batch, route, known, verdicts, todo, record, records, executed>>

CountTerminal(states) ==
    Cardinality({i \in DOMAIN records : Terminal(records[i]) \in states})

\* run() returns; process_window counts the outcomes and the loop advances
\* the ordinal.
EndWindow ==
    /\ stage = "propose"
    /\ todo = {}
    /\ summary' = [succeeded |-> CountTerminal({"Succeeded"}),
                   denied |-> CountTerminal({"RejectedInvalidSchema",
                                             "DeniedByCapability",
                                             "DeniedByPolicy"}),
                   failed |-> CountTerminal({"Failed"})]
    /\ windowOrdinal' = windowOrdinal + 1
    /\ stage' = "idle"
    /\ UNCHANGED <<batch, route, known, verdicts, todo, record, records, executed>>

\* The bound on windows is reached.
Finished == stage = "idle" /\ windowOrdinal = MaxWindows /\ UNCHANGED vars

Next ==
    BeginWindow \/ Propose \/ ValidateSchema \/ CheckPolicy \/ Execute
        \/ EndWindow \/ Finished

Spec == Init /\ [][Next]_vars

-----------------------------------------------------------------------------
(***************************************************************************)
(* Properties.                                                             *)
(***************************************************************************)

\* The lifecycles the code can take an action through, as states.md lists them.
\* In particular the "missing policy decision" failure never happens.
Lifecycles ==
    {<<"Proposed", "RejectedInvalidSchema">>}
    \cup {<<"Proposed", "SchemaValidated", "PolicyChecked", t>> :
            t \in {"DeniedByCapability", "DeniedByPolicy"}}
    \cup {<<"Proposed", "SchemaValidated", "PolicyChecked", "Dispatched", t>> :
            t \in {"Succeeded", "Failed"}}

\* Every proposed action ends in exactly one record with a legal lifecycle, in
\* loop order, and the window's counts put each record in exactly one class.
AuditComplete ==
    /\ \A i \in DOMAIN records : records[i].transitions \in Lifecycles
    /\ stage = "idle" =>
        /\ {records[i].coord : i \in DOMAIN records} = Coords(batch)
        /\ \A i, j \in DOMAIN records :
            i < j => Before(records[i].coord, records[j].coord)
        /\ windowOrdinal > 0 =>
            summary.succeeded + summary.denied + summary.failed
                = Cardinality(Coords(batch))

\* The adapter ran exactly the actions whose records say "Dispatched", each
\* once and in the order of the records: the n-th dispatched record is that of
\* the n-th execution, and there are as many of one as of the other.
Dispatched(r) == \E i \in DOMAIN r.transitions : r.transitions[i] = "Dispatched"
DispatchedUpTo(n) == Cardinality({i \in 1..n : Dispatched(records[i])})
ExecutionMatchesAudit ==
    /\ Len(executed) = DispatchedUpTo(Len(records))
    /\ \A i \in DOMAIN records :
        Dispatched(records[i]) => executed[DispatchedUpTo(i)] = records[i].coord

\* No executed action names a package its own window never saw, whatever the
\* backend suggested: the gate against invented targets.
NoInventedPackage ==
    \A i \in DOMAIN executed :
        LET action == ActionAt(batch, executed[i]) IN
        (action.type # "NoOp" /\ action.target[1] \in {"pkg", "bare"})
            => action.target[2] \in known

\* The running count of the loop computes what the rule says: an action is
\* approved iff its intent passes, it passes the filters itself, and fewer
\* than MaxActions earlier actions of the intent pass them.  Policy judges the
\* whole batch before the schema is validated; still no action the schema
\* rejects is approved, so none of them uses up its intent's cap.
VerdictsMatchRule ==
    \A c \in DOMAIN verdicts :
        LET intent == batch[c[1]]
            passes(n) == FilterAction(intent.actions[n], route, known) = "Approved"
        IN  /\ verdicts[c] = "Approved" <=>
                /\ RiskRank(intent.risk) <= RiskRank(MaxRisk(route))
                /\ RiskRank(intent.risk) <= RiskRank(MaxAutoRisk)
                /\ intent.confident
                /\ passes(c[2])
                /\ Cardinality({n \in 1..(c[2] - 1) : passes(n)}) < MaxActions
            /\ verdicts[c] = "Approved" => SchemaValid(intent, ActionAt(batch, c))
=============================================================================
