---------------------------- MODULE MCTraceReplay ----------------------------
(* Inputs for model checking TraceReplay. *)
EXTENDS TraceReplay

MCPackageNames == {"chat"}
MCSiteOf == [chat |-> "lark"]
MCNameOrder == <<"", "Document", "Image", "chat">>

Line(form) == [form |-> form, at |-> {}, raw |-> {}]
Event(at, raw) == [form |-> "event", at |-> at, raw |-> raw]
Foreground == [kind |-> "AppTransition", at |-> 7, package |-> "chat",
               transition |-> "Foreground"]
File(extension) == [kind |-> "FileSystemAccess", at |-> 7, access |-> "OpenRead",
                    path |-> [name |-> "secret", extension |-> extension]]
LowBatteryOn(network) == [kind |-> "SystemState", at |-> 7, battery |-> {10},
                          charging |-> FALSE, network |-> network]
ScreenOff == [kind |-> "ScreenState", at |-> 7, state |-> "NonInteractive"]

\* An app in the foreground, a low battery on two networks and a dark screen
\* make a window whose intent the policy denies.
MCLines ==
    {Line(form) : form \in {"blank", "notJson", "wrongShape", "noRawEvent", "unreadable"}}
    \cup {Event({}, Foreground), Event({4}, Foreground),
          Event({1}, File("pdf")), Event({2}, File("png")),
          Event({1}, LowBatteryOn("Offline")), Event({1}, LowBatteryOn("Cellular")),
          Event({1}, ScreenOff)}

AllStages == <<"Ingest", "Sanitize", "Context", "Decision", "Policy", "Execute">>
TwicePolicy == <<"Policy", "Policy">>

MCDrifts == {"sanitization", "policy", "execution"} \X {"cut", "longer", "changed"}
            \cup {<<"sanitization", "later">>, <<"execution", "later">>}
NoDrifts == {}
=============================================================================
