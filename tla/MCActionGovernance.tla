------------------------- MODULE MCActionGovernance -------------------------
(* Inputs for model checking ActionGovernance. *)
EXTENDS ActionGovernance

CONSTANTS p1, p2    \* packages

Targets ==
    {<<f, p1>> : f \in Forms} \cup {<<f, p2>> : f \in {"pkg", "bare"}}
AllActions == [type : ActionTypes, target : Targets, urgency : Urgencies]
Risks == {"Low", "Medium", "High"}

\* Every single action under every intent: the whole policy table.
SingleActionBatches ==
    {<<[risk |-> r, confident |-> c, actions |-> <<a>>]>> :
        r \in Risks, c \in BOOLEAN, a \in AllActions}

\* One intent of up to three actions or two of up to two: an approvable action, one
\* the schema rejects, one a filter denies.
SomeActions ==
    {[type |-> "PreWarmProcess", target |-> <<"pkg", p1>>, urgency |-> "Immediate"],
     [type |-> "PreWarmProcess", target |-> <<"empty", p1>>, urgency |-> "Immediate"],
     [type |-> "NoOp", target |-> <<"none", p1>>, urgency |-> "Deferred"]}
Intents(risks, most) ==
    {[risk |-> r, confident |-> TRUE, actions |-> s] :
        r \in risks, s \in UNION {[1..n -> SomeActions] : n \in 0..most}}
MultiActionBatches ==
    {<<>>} \cup {<<i>> : i \in Intents({"Low", "High"}, 3)}
           \cup {<<i, j>> : i, j \in Intents({"Low"}, 2)}

AllBatches == SingleActionBatches \cup MultiActionBatches

OneSeen == {{p1}}
AnySeen == SUBSET {p1}
=============================================================================
