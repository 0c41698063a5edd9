---------------------------- MODULE MCModelMemory ----------------------------
(* Inputs for model checking ModelMemory. *)
EXTENDS ModelMemory

CONSTANTS p, q    \* packages

Action(type, form, package, terminal) ==
    [type |-> type, target |-> <<form, package>>, terminal |-> terminal]
Window(fg, notified, hints, acts) ==
    [foreground |-> fg, notified |-> notified, hints |-> hints, actions |-> acts]
MCNameOrder == <<"FileMention", "KeepAlive", "NoOp", "PreWarmProcess", p, q>>

Warm == Action("PreWarmProcess", "pkg", p, "Succeeded")

\* A quiet window, one that opens a package and pre-warms it again, one that
\* pre-warms it twice and another in vain, and one that opens the other package,
\* with pre-warms of a package and of an own resource next to other actions.
SomeInputs ==
    {Window({}, {}, {}, <<>>),
     Window({p}, {q}, {"FileMention"}, <<Warm>>),
     Window({}, {p}, {}, <<Warm, Warm, Action("PreWarmProcess", "pkg", q, "Failed")>>),
     Window({q}, {p}, {}, <<Action("PreWarmProcess", "own", p, "Succeeded"),
                   Action("PreWarmProcess", "pkg", q, "Succeeded"),
                   Action("KeepAlive", "pkg", p, "Succeeded"),
                   Action("NoOp", "own", p, "DeniedByPolicy")>>)}

\* Few records, one name and a quick decay; more of them and no momentum; the
\* default decay and a longer wait.
SomeLimits == {[recent |-> 1, top |-> 1, decay |-> 90, effect |-> 2],
               [recent |-> 3, top |-> 2, decay |-> 0, effect |-> 1],
               [recent |-> 3, top |-> 2, decay |-> 900, effect |-> 3]}
=============================================================================
