---------------------------- MODULE MCDecisionFlow ----------------------------
(* Inputs for model checking DecisionFlow. *)
EXTENDS DecisionFlow

\* "android" is a package name without a dot.
MCPackageNames == {"chat", "docs"}
MCSiteOf == [android |-> "none", chat |-> "lark", docs |-> "drive"]
MCNameOrder == <<"", "Archive", "Audio", "Code", "Document", "Image", "Other",
                 "Unknown", "Video", "android", "chat", "docs",
                 "inter_app_interaction">>

Env(enabled, provider, summary) ==
    [enabled |-> enabled, provider |-> provider, endpoint |-> "", model |-> "",
     apiKey |-> "", deepseekKey |-> "k", dashscopeKey |-> "", thinking |-> "",
     summary |-> summary]

\* A cloud; an endpoint missing, without and with the summarizer.
AllEnvs == {Env("True", "", ""), Env("1", "generic", "True"), Env("1", "generic", "1")}
LocalEnvs == {Env("", "", "")}

Public(raw) == [schema |-> SupportedSchema, tier |-> "PublicApi", raw |-> raw]
Text(chars, topics, edge) ==
    [chars |-> chars, topics |-> topics, edge |-> edge, wording |-> "secret"]
NoWords == Text(<<>>, {}, "none")

Foreground(p, at) ==
    [kind |-> "AppTransition", at |-> at, package |-> p, transition |-> "Foreground"]
Posted(p, title, text, hints, ongoing) ==
    [kind |-> "NotificationPosted", at |-> 1, package |-> p, title |-> title,
     text |-> text, titleHint |-> {}, textHint |-> {}, hints |-> hints,
     ongoing |-> ongoing, group |-> {"secret"}]
Status(battery, charging, network) ==
    [kind |-> "SystemState", at |-> 1, battery |-> battery, charging |-> charging,
     network |-> network]
Screen(state) == [kind |-> "ScreenState", at |-> 1, state |-> state]
Proc(package, rssMb, swapMb) ==
    [kind |-> "ProcStateChange", at |-> 1, package |-> package,
     rssKb |-> 1024 * rssMb, swapKb |-> 1024 * swapMb]
File(extension) ==
    [kind |-> "FileSystemAccess", at |-> 1, access |-> "OpenRead",
     path |-> [name |-> "secret", extension |-> extension]]
Binder(method) ==
    [kind |-> "BinderTransaction", at |-> 1, service |-> "activity",
     method |-> method, payload |-> "secret"]

DeviceEvents == {Status({10}, FALSE, "Offline"), Status({10}, FALSE, "Cellular"),
                 Screen("NonInteractive")}

MCEnvelopes ==
    {Public(raw) : raw \in DeviceEvents \cup
        {Foreground("chat", 2), Foreground("android", 1),
         Posted("chat", NoWords, NoWords, <<"FileMention", "LinkAttachment">>, TRUE),
         Posted("chat", NoWords, NoWords, <<"ImageMention">>, FALSE),
         Posted("docs", Text(<<"Latin">>, {}, "mentioned"),
                Text(<<"Latin", "Hanzi">>, {"CalendarInvitation"}, "you"), <<>>, FALSE),
         Posted("docs", NoWords, NoWords, <<"FinancialContext", "VerificationCode">>, FALSE),
         [kind |-> "NotificationInteraction", at |-> 1, package |-> "docs", key |-> "secret"],
         Status({}, FALSE, "Wifi"), Screen("Interactive")}}
    \cup {[Public(Foreground("docs", 1)) EXCEPT !.schema = "dipecs.collector.v0"]}
MCInternal == {Proc({"docs"}, 2048, 0), Proc({}, 0, 200), File("pdf"),
               Binder({"startActivity"})}

LoopEnvelopes == {Public(raw) : raw \in DeviceEvents \cup {Foreground("chat", 1)}}
NoEvents == {}

\* Replies: not delivered, prose, and intents that use the table of targets.
ModelAction(type, target, urgency) ==
    [type |-> type, target |-> target, urgency |-> urgency]
ModelIntent(type, confidence, risk, actions) ==
    [type |-> type, target |-> {<<"bare", "chat">>}, category |-> {"Document"},
     confidence |-> confidence, risk |-> risk, actions |-> actions]
Json(intents) ==
    [delivered |-> TRUE, content |-> [form |-> "json", intents |-> intents],
     reasoning |-> [form |-> "absent", intents |-> <<>>]]
RawTargets == {{}, {<<"blank", "">>}, {<<"url", "u">>}, {<<"http", "u">>}, {<<"pkg", "chat">>},
               {<<"bare", "chat">>}, {<<"bare", "android">>}, {<<"own", "resources">>}}
MCReplies ==
    {[Json(<<>>) EXCEPT !.delivered = FALSE],
     [Json(<<>>) EXCEPT !.content.form = "prose"],
     [Json(<<>>) EXCEPT !.content.form = "blank",
                        !.reasoning = [form |-> "json", intents |-> <<>>]],
     Json(<<ModelIntent("Idle", 40, "Low", <<>>), ModelIntent("bogus", 40, "Low", <<>>)>>),
     Json(<<ModelIntent("Idle", -5, "Medium", <<>>)>>)}
    \cup {Json(<<ModelIntent(t, 120, "Low", <<ModelAction(a, target, u)>>)>>) :
            t \in {"OpenApp", "HandleFile"}, a \in {"PrefetchFile", "PreWarmProcess"},
            target \in RawTargets, u \in {{}, {"Deferred"}}}
NoReplies == {}

\* What the predictive backend may come to: nothing, or an app that the window
\* may have seen, with a score below the floor.
MCPredictions == {<<>>, <<[app |-> "docs", score |-> 12]>>}
NoPredictions == {}

\* A memory that has seen every local action on "chat" rejected and failed.
Troubled ==
    LET keys == {<<"PreWarmProcess", <<"pkg", "chat">>>>,
                 <<"PreWarmProcess", <<"own", "resources">>>>,
                 <<"KeepAlive", <<"work", "collector_heartbeat">>>>,
                 <<"PrefetchFile", DefaultPrefetchTarget("Document", {})>>,
                 <<"ReleaseMemory", <<"cache", "prefetch">>>>}
    IN  <<[key : keys, terminal : {"Failed"}], [key : keys, terminal : {"DeniedByPolicy"}]>>
MCHistories == {<<>>, Troubled}
NoHistory == {<<>>}

TwoWindows == <<3, 1>>
ThreeWindows == <<1, 3, 3>>
=============================================================================
