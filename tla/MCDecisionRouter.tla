-------------------------- MODULE MCDecisionRouter --------------------------
(* Inputs for model checking DecisionRouter. *)
EXTENDS DecisionRouter

Ctx(score, transitions, actionable, hints) ==
    [score |-> score, transitions |-> transitions, actionable |-> actionable,
     hints |-> hints]

\* One context for each way through determine_route, each sensitive one with
\* features that would send it elsewhere were it not sensitive.
EveryContext ==
    {Ctx(0, 0, "no", 1), Ctx(0, 0, "yes", 2), Ctx(2, 0, "no", 2),
     Ctx(3, 0, "no", 4), Ctx(3, 0, "yes", 1)}

\* Windows that all go to the cloud.
CloudContexts == {Ctx(0, 0, "no", 2)}

=============================================================================
