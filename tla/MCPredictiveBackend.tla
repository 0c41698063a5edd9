------------------------- MODULE MCPredictiveBackend -------------------------
(* Inputs for model checking PredictiveBackend. *)
EXTENDS PredictiveBackend

MCPackageNames == {"chat", "docs", "mail"}
MCSiteOf == [chat |-> "none", docs |-> "none", mail |-> "none"]
MCNameOrder == <<"", "chat", "docs", "mail">>

Example(user, current, history, hour, weekday, label) ==
    [user |-> user, current |-> current, history |-> history, hour |-> hour,
     weekday |-> weekday, event |-> "app_transition", label |-> label]

\* Hour 4 and weekday 4 collide; "mail" is also only seen in a history.
MCExamples ==
    {Example("ann", "chat", <<"chat">>, 4, 5, "docs"),
     Example("ann", "chat", <<"mail", "chat">>, 9, 4, "mail"),
     Example("bob", "docs", <<"mail">>, 4, 4, "chat"),
     Example("bob", "chat", <<>>, 9, 5, "chat")}

MCLogs == <<0, 69, 110, 139, 161, 179, 195, 208, 220, 230, 240, 248>>

MCWeightGrid == <<0, 40, 300, 1200>>

\* A descent that trusts the popular apps, and one that trusts the user's.
MCDescents ==
    {[i \in DOMAIN RerankerFeatures |-> IF RerankerFeatures[i][1] = c THEN 90 ELSE -10] :
        c \in {"popularity", "user_recency"}}

\* The artifact itself, one of an older version, and damaged ones.
MCFilesOf(a) ==
    LET mail == [app |-> "mail", score |-> 10]
        head(list) == Append(list, Head(list))
    IN  {{}, {a},
         {[a EXCEPT !.combiner = NoCombiner, !.reranker = NoReranker, !.frequency = <<>>,
                    !.recency = <<>>, !.context = <<>>, !.order2 = <<>>]},
         {[a EXCEPT !.vocab = Append(@, Head(@))]},
         {[a EXCEPT !.vocab = <<Head(@)>>]},
         {[a EXCEPT !.priors = Front(@)]},
         {[a EXCEPT !.popularity = <<mail>>]},
         {[a EXCEPT !.popularity = Front(@)]},
         {[a EXCEPT !.frequency = [u \in DOMAIN @ |-> head(@[u])], !.reranker = NoReranker]},
         {[a EXCEPT !.global = [c \in DOMAIN @ |-> head(@[c])], !.reranker = NoReranker]},
         {[a EXCEPT !.combiner = [components |-> <<"user_recency">>, weights |-> <<100>>],
                    !.reranker = NoReranker]},
         {[a EXCEPT !.popularity = Reverse(@), !.reranker = NoReranker,
                    !.combiner = [components |-> <<"user_recency">>, weights |-> <<0>>]]},
         {[a EXCEPT !.combiner = [components |-> <<"markov">>, weights |-> <<-100>>]]}}

Window(events) ==
    LET raws == events IN
    StructuredContext([i \in DOMAIN raws |->
                        SanitizeWithTier([raw |-> raws[i], tier |-> "PublicApi"])])
Foreground(p) == [kind |-> "AppTransition", at |-> 1, package |-> p, transition |-> "Foreground"]
Proc(p) == [kind |-> "ProcStateChange", at |-> 1, package |-> {p}, rssKb |-> 0, swapKb |-> 0]
ScreenOn == [kind |-> "ScreenState", at |-> 1, state |-> "Interactive"]

Ask(events, feedback, user, hours) ==
    [context |-> Window(events), feedback |-> feedback, user |-> user, end |-> 3600000 * hours]
MCInputs ==
    {Ask(<<Foreground("docs"), Foreground("chat")>>, <<<<"mail">>, <<"chat">>>>, {"ann"}, 4),
     Ask(<<Proc("mail"), Proc("docs")>>, <<<<"chat", "docs", "mail">>, <<"docs", "chat", "mail">>>>,
         {"bob"}, 9),
     Ask(<<ScreenOn>>, <<<<"docs">>>>, {}, 33),
     Ask(<<Foreground("chat"), ScreenOn>>, <<>>, {"eve"}, 9)}
=============================================================================
