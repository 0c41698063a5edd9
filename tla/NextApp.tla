------------------------------- MODULE NextApp -------------------------------
(***************************************************************************)
(* The next-app model: the tables training counts, the validation of an    *)
(* artifact, the component rankers and their fusion.                       *)
(*                                                                         *)
(* Scores, weights and logarithms are the f32 values of the code in        *)
(* hundredths; exponentials are rounded to powers of two, which keeps the  *)
(* order of what they are applied to, and rankings are ordered before that *)
(* rounding.  A key such as "{user}\t{current}" is a pair.  A score list   *)
(* is a sequence of [app, score].  An example is [user, current, history,  *)
(* hour, weekday, event, label]; features have optional fields.            *)
(***************************************************************************)
EXTENDS DecisionRules

CONSTANTS
    MaxFeatures,    \* MAX_TRAINED_FEATURES (128)
    MaxIntents,     \* MAX_BACKEND_INTENTS (5)
    Logs            \* logarithms of 1, 2, ..., in hundredths

-----------------------------------------------------------------------------
(***************************************************************************)
(* Numbers, sequences and orders.                                          *)
(***************************************************************************)

Ln(n) == Logs[n]

\* e to the power of -x, in units of 1/1024, for x hundredths.
ExpNeg(x) ==
    IF x \div 69 > 10 THEN 0
    ELSE <<1024, 512, 256, 128, 64, 32, 16, 8, 4, 2, 1>>[x \div 69 + 1]

\* The sum of a sequence of integers.
SumOf(terms) ==
    LET sum[n \in 0..Len(terms)] == IF n = 0 THEN 0 ELSE sum[n - 1] + terms[n]
    IN  sum[Len(terms)]

\* The elements of a sequence that have one of the indices, in their order.
Kept(s, indices) ==
    LET kept[n \in 0..Len(s)] ==
            IF n = 0 THEN <<>>
            ELSE IF n \in indices THEN Append(kept[n - 1], s[n])
            ELSE kept[n - 1]
    IN  kept[Len(s)]

\* An option as a sequence.
AsSeq(option) == IF option = {} THEN <<>> ELSE <<Some(option)>>

\* A score list: by descending score, then by name.
ScoredBefore(x, y) ==
    \/ x.score > y.score
    \/ x.score = y.score /\ Rank(NameOrder, x.app) < Rank(NameOrder, y.app)
ScorePlace(x, scored) == Cardinality({y \in scored : ScoredBefore(y, x)}) + 1
Ranking(score) ==
    LET scored == {[app |-> app, score |-> score[app]] : app \in DOMAIN score}
    IN  [k \in 1..Cardinality(scored) |-> CHOOSE x \in scored : ScorePlace(x, scored) = k]

AppsOf(scores) == [i \in DOMAIN scores |-> scores[i].app]

\* Positions of a score list, counted from 0.
RankIn(scores, app) == (CHOOSE i \in DOMAIN scores : scores[i].app = app) - 1
ScoreIn(scores, app) == scores[RankIn(scores, app) + 1].score

-----------------------------------------------------------------------------
(***************************************************************************)
(* train_base_artifact.                                                    *)
(***************************************************************************)

\* previous_app and previous_feature_app: the latest app that is not current.
PreviousApp(history, current) ==
    LET others == SelectSeq(history, LAMBDA app : app # current)
    IN  IF others = <<>> THEN {} ELSE {Last(others)}

FeaturesOf(e) ==
    [user |-> {e.user}, current |-> {e.current}, history |-> e.history,
     hour |-> {e.hour}, weekday |-> {e.weekday}, event |-> {e.event}]

\* feature_keys: each is there or not; the last three of the history count,
\* and the last one twice.
KeyOptions(f) ==
    LET tagged(tag, option) == {<<tag, x>> : x \in option}
        back(n) == IF n < Len(f.history) THEN {f.history[Len(f.history) - n]} ELSE {}
    IN  <<tagged("user", f.user), tagged("current", f.current), tagged("prev", back(0)),
          tagged("hist0", back(0)), tagged("hist1", back(1)), tagged("hist2", back(2)),
          tagged("hour", f.hour), tagged("weekday", f.weekday), tagged("event", f.event)>>
FeatureKeys(f) == UNION ToSet(KeyOptions(f))

\* The counts behind a table: keys[i] are the keys under which the label of
\* the i-th example is counted, one of them twice if it is there twice.
Under(keys, key) ==
    {p \in UNION {{<<i, k>> : k \in DOMAIN keys[i]} : i \in DOMAIN keys} :
        keys[p[1]][p[2]] = key}

\* transition_scores: for each key the shares of the labels counted under it.
TransitionScores(examples, keys) ==
    LET labelled(key, app) == {p \in Under(keys, key) : examples[p[1]].label = app}
        shares(key) == [app \in {examples[p[1]].label : p \in Under(keys, key)} |->
                            (100 * Cardinality(labelled(key, app)))
                                \div Cardinality(Under(keys, key))]
    IN  [key \in UNION {ToSet(keys[i]) : i \in DOMAIN keys} |-> Ranking(shares(key))]

\* user_recency: the last write wins.
RecencyOf(examples) ==
    LET from(i) == <<examples[i].user, examples[i].current>>
        last(key) == CHOOSE i \in DOMAIN examples :
                        from(i) = key /\ \A j \in DOMAIN examples : from(j) = key => j <= i
    IN  [key \in {from(i) : i \in DOMAIN examples} |-> examples[last(key)].label]

\* Defect variant: only the labels are collected.
VocabOf_LabelsOnly(examples) ==
    Kept(NameOrder, {n \in DOMAIN NameOrder :
                        \E i \in DOMAIN examples : NameOrder[n] = examples[i].label})

\* A BTreeSet is in the order of the names.
VocabOf(examples) ==
    Kept(NameOrder, {n \in DOMAIN NameOrder : \E i \in DOMAIN examples :
                        NameOrder[n] \in {examples[i].current, examples[i].label}})

NoCombiner == [components |-> <<>>, weights |-> <<>>]
NoReranker == [features |-> <<>>, weights |-> <<>>]

\* The artifact of a non-empty sequence of examples, without the ensemble.
TrainBaseArtifact(examples) ==
    LET vocab == VocabOf(examples)
        total == Len(examples)
        class(app) == CHOOSE c \in DOMAIN vocab : vocab[c] = app
        has(i, key) == key \in FeatureKeys(FeaturesOf(examples[i]))
        \* class_counts, feature_counts and feature_frequency
        count(c) == Cardinality({i \in DOMAIN examples : examples[i].label = vocab[c]})
        with(key, c) == Cardinality({i \in DOMAIN examples :
                                        examples[i].label = vocab[c] /\ has(i, key)})
        frequency(key) == Cardinality({i \in DOMAIN examples : has(i, key)})
        keys == UNION {FeatureKeys(FeaturesOf(examples[i])) : i \in DOMAIN examples}
        priors == [c \in DOMAIN vocab |-> Ln(count(c) + 1) - Ln(total + Len(vocab))]
        \* counts_to_log_lift_scores
        lift(key) == [app \in ToSet(vocab) |->
                        Ln(with(key, class(app)) + 1) - Ln(frequency(key) + Len(vocab))
                        - priors[class(app)]]
        \* of equally frequent features any may be the last
        kept == IF Cardinality(keys) <= MaxFeatures THEN keys
                ELSE CHOOSE K \in kSubset(MaxFeatures, keys) :
                        \A k \in K, l \in keys \ K : frequency(k) >= frequency(l)
    IN  [vocab |-> vocab,
         \* counts_to_scores
         popularity |-> Ranking([app \in ToSet(vocab) |->
                            (100 * (count(class(app)) + 1)) \div (total + Len(vocab))]),
         priors |-> priors,
         unknown |-> [c \in DOMAIN vocab |-> -Ln(count(c) + 2)],
         likelihoods |-> [key \in keys |-> [c \in DOMAIN vocab |->
                                Ln(with(key, c) + 1) - Ln(count(c) + 2)]],
         base |-> priors,
         trees |-> [key \in kept |-> Ranking(lift(key))],
         global |-> TransitionScores(examples, [i \in DOMAIN examples |->
                        <<examples[i].current>>]),
         user |-> TransitionScores(examples, [i \in DOMAIN examples |->
                        <<<<examples[i].user, examples[i].current>>>>]),
         order2 |-> TransitionScores(examples, [i \in DOMAIN examples |->
                        LET e == examples[i] IN
                        AsSeq({<<p, e.current>> : p \in PreviousApp(e.history, e.current)})]),
         \* hours and weekdays are keys of one table
         context |-> TransitionScores(examples, [i \in DOMAIN examples |->
                        LET e == examples[i] IN
                        <<<<e.current, e.hour>>, <<e.current, e.weekday>>>>]),
         frequency |-> TransitionScores(examples, [i \in DOMAIN examples |->
                        <<examples[i].user>>]),
         recency |-> RecencyOf(examples),
         combiner |-> NoCombiner,
         reranker |-> NoReranker]

-----------------------------------------------------------------------------
(***************************************************************************)
(* validate_artifact.                                                      *)
(***************************************************************************)

Components == <<"naive_bayes", "markov_order2", "markov", "markov_context",
                "feature_lift", "recency", "user_frequency", "user_recency",
                "popularity">>
RerankerFeatures == [i \in 1 .. 3 * Len(Components) |->
                        <<Components[(i - 1) \div 3 + 1], (i - 1) % 3>>]

\* What serde makes of a file it can parse.  Names are among NameOrder.
Names == ToSet(NameOrder)
ScoreLists == Seq([app : Names, score : Int])
IsArtifact(a) ==
    LET lists(table) == \A key \in DOMAIN table : table[key] \in ScoreLists
    IN  /\ a.vocab \in Seq(Names)
        /\ a.popularity \in ScoreLists
        /\ {a.priors, a.unknown, a.base} \subseteq Seq(Int)
        /\ \A key \in DOMAIN a.likelihoods : a.likelihoods[key] \in Seq(Int)
        /\ lists(a.trees) /\ lists(a.global) /\ lists(a.user) /\ lists(a.order2)
        /\ lists(a.context) /\ lists(a.frequency)
        /\ a.combiner.components \in Seq(ToSet(a.combiner.components))
        /\ {a.combiner.weights, a.reranker.weights} \subseteq Seq(Int)

ValidScoreList(scores, vocab, full) ==
    /\ full => Len(scores) = Len(vocab)
    /\ ToSet(AppsOf(scores)) \subseteq ToSet(vocab)
    /\ IsInjective(AppsOf(scores))

ValidCombiner(combiner) ==
    \/ combiner = NoCombiner
    \/ /\ combiner.components # <<>>
       /\ Len(combiner.components) = Len(combiner.weights)
       /\ ToSet(combiner.components) \subseteq ToSet(Components)
       /\ IsInjective(combiner.components)
       /\ \A w \in ToSet(combiner.weights) : w >= 0

ValidReranker(reranker) ==
    \/ reranker = NoReranker
    \/ /\ reranker.features = RerankerFeatures
       /\ Len(reranker.weights) = Len(RerankerFeatures)

\* The keys of the three tables by current app end in an app of the vocabulary;
\* those of markov_context and user_frequency are not looked at.
ValidArtifact(a) ==
    LET classes == Len(a.vocab)
        apps == ToSet(a.vocab)
        lists(table) == \A key \in DOMAIN table : ValidScoreList(table[key], a.vocab, FALSE)
    IN  /\ a.vocab # <<>>
        /\ IsInjective(a.vocab)
        /\ {Len(a.priors), Len(a.unknown), Len(a.base)} = {classes}
        /\ \A key \in DOMAIN a.likelihoods : Len(a.likelihoods[key]) = classes
        /\ ValidScoreList(a.popularity, a.vocab, TRUE)
        /\ \A key \in DOMAIN a.trees : ValidScoreList(a.trees[key], a.vocab, TRUE)
        /\ lists(a.global) /\ DOMAIN a.global \subseteq apps
        /\ lists(a.user) /\ \A key \in DOMAIN a.user : key[2] \in apps
        /\ lists(a.order2) /\ \A key \in DOMAIN a.order2 : key[2] \in apps
        /\ lists(a.context)
        /\ lists(a.frequency)
        /\ \A key \in DOMAIN a.recency : {key[2], a.recency[key]} \subseteq apps
        /\ ValidCombiner(a.combiner)
        /\ ValidReranker(a.reranker)

-----------------------------------------------------------------------------
(***************************************************************************)
(* The component rankers; features f, artifact a.                          *)
(***************************************************************************)

\* rank_from_logits.
RankFromLogits(vocab, logits) ==
    LET max == Max(ToSet(logits))
        mass == [c \in DOMAIN vocab |-> ExpNeg(max - logits[c])]
        sum == SumOf(mass)
        class(app) == CHOOSE c \in DOMAIN vocab : vocab[c] = app
        ranked == Ranking([app \in ToSet(vocab) |-> logits[class(app)]])
    IN  [i \in DOMAIN ranked |->
            [app |-> ranked[i].app,
             score |-> (100 * mass[class(ranked[i].app)]) \div sum]]

\* What the table has under one of the keys.
Found(table, keys) == {table[key] : key \in keys \cap DOMAIN table}

\* The sum over the features there are.
RankNaiveBayes(a, f) ==
    LET options == KeyOptions(f)
        evidence(keys, c) ==
            IF keys = {} THEN 0
            ELSE UnwrapOr(Found(a.likelihoods, keys), a.unknown)[c]
    IN  RankFromLogits(a.vocab,
            [c \in DOMAIN a.vocab |-> a.priors[c] +
                SumOf([n \in DOMAIN options |-> evidence(options[n], c)])])

RankFeatureLift(a, f) ==
    LET options == KeyOptions(f)
        lift(keys, c) == IF Found(a.trees, keys) = {} THEN 0
                         ELSE ScoreIn(Some(Found(a.trees, keys)), a.vocab[c])
    IN  RankFromLogits(a.vocab,
            [c \in DOMAIN a.vocab |-> a.base[c] +
                SumOf([n \in DOMAIN options |-> lift(options[n], c)])])

UserKeys(f) == {<<u, c>> : u \in f.user, c \in f.current}

\* rank_recency: the user's own transitions, or nothing.
RankRecency(a, f) == UnwrapOr(Found(a.user, UserKeys(f)), <<>>)

\* rank_markov: the user's, the current app's, the last app's, the popular.
RankMarkov(a, f) ==
    LET last == IF f.history = <<>> THEN {} ELSE {Last(f.history)} IN
    UnwrapOr(Found(a.user, UserKeys(f)),
             UnwrapOr(Found(a.global, f.current),
                      UnwrapOr(Found(a.global, last), a.popularity)))

RankMarkovOrder2(a, f) ==
    UnwrapOr(Found(a.order2, UNION {{<<p, c>> : p \in PreviousApp(f.history, c)} :
                                        c \in f.current}), <<>>)

RankUserFrequency(a, f) == UnwrapOr(Found(a.frequency, f.user), <<>>)

RankUserRecency(a, f) ==
    AsSeq({[app |-> app, score |-> 100] : app \in Found(a.recency, UserKeys(f))})

\* Adds up what the lists give the apps, each list a function of its apps.
Summed(shares) ==
    [app \in UNION {DOMAIN shares[i] : i \in DOMAIN shares} |->
        SumOf([i \in DOMAIN shares |->
                IF app \in DOMAIN shares[i] THEN shares[i][app] ELSE 0])]

ScoresOf(list) == [app \in ToSet(AppsOf(list)) |-> ScoreIn(list, app)]

RankMarkovContext(a, f) ==
    LET of(option) == AsSeq(Found(a.context, f.current \X option))
        lists == of(f.hour) \o of(f.weekday)
    IN  Ranking(Summed([i \in DOMAIN lists |-> ScoresOf(lists[i])]))

\* component_rankings.
ComponentRankings(a, f) ==
    <<RankNaiveBayes(a, f), RankMarkovOrder2(a, f), RankMarkov(a, f),
      RankMarkovContext(a, f), RankFeatureLift(a, f), RankRecency(a, f),
      RankUserFrequency(a, f), RankUserRecency(a, f), a.popularity>>

-----------------------------------------------------------------------------
(***************************************************************************)
(* Fusion.                                                                 *)
(***************************************************************************)

\* weight * (1 / (1 + rank) + score / 2), in units of 1/20000; a list without
\* weight adds nothing.
Fused(rankings, weights) ==
    LET share(i, app) == weights[i] * (2 * (100 \div (1 + RankIn(rankings[i], app)))
                                       + ScoreIn(rankings[i], app))
        apps(i) == IF weights[i] = 0 THEN {} ELSE ToSet(AppsOf(rankings[i]))
    IN  Summed([i \in DOMAIN rankings |-> [app \in apps(i) |-> share(i, app)]])

Hundredths(ranking, unit) ==
    [i \in DOMAIN ranking |-> [ranking[i] EXCEPT !.score = @ \div unit]]

\* rank_ensemble_rrf; a component without a weight is left out.
RankRrf(a, f) ==
    LET weight(i) == LET named == {j \in DOMAIN a.combiner.components :
                                    a.combiner.components[j] = Components[i]}
                     IN  UnwrapOr({a.combiner.weights[j] : j \in named}, 0)
    IN  Hundredths(Ranking(Fused(ComponentRankings(a, f),
                                 [i \in DOMAIN Components |-> weight(i)])), 200)

RankLegacy(a, f) ==
    LET lists == <<RankNaiveBayes(a, f), RankMarkov(a, f), RankFeatureLift(a, f)>>
        weights == <<30, 40, 30>>
    IN  Hundredths(Ranking(Summed([i \in DOMAIN lists |->
                        [app \in ToSet(AppsOf(lists[i])) |->
                            weights[i] * ScoreIn(lists[i], app)]])), 100)

\* candidate_feature_rows: 1/(1 + rank), score and "is first" of each
\* component, for each candidate but the current app, which keeps its rank.
CandidateRows(rankings, current) ==
    LET apps == (UNION {ToSet(AppsOf(l)) : l \in ToSet(rankings)}) \ current
        cell(i, app) ==
            LET list == rankings[(i - 1) \div 3 + 1] IN
            IF app \notin ToSet(AppsOf(list)) THEN 0
            ELSE CASE (i - 1) % 3 = 0 -> 100 \div (1 + RankIn(list, app))
                   [] (i - 1) % 3 = 1 -> ScoreIn(list, app)
                   [] OTHER -> IF RankIn(list, app) = 0 THEN 100 ELSE 0
    IN  [app \in apps |-> [i \in DOMAIN RerankerFeatures |-> cell(i, app)]]

Dot(weights, row) == SumOf([i \in DOMAIN row |-> weights[i] * row[i]])
Sigmoid(x) == IF x >= 0 THEN 102400 \div (1024 + ExpNeg(x))
              ELSE (100 * ExpNeg(-x)) \div (1024 + ExpNeg(-x))

RankReranked(a, f) ==
    LET rows == CandidateRows(ComponentRankings(a, f), f.current)
        ranked == Ranking([app \in DOMAIN rows |-> Dot(a.reranker.weights, rows[app])])
    IN  [i \in DOMAIN ranked |-> [ranked[i] EXCEPT !.score = Sigmoid(@ \div 100)]]

RankEnsemble(a, f) ==
    IF a.reranker # NoReranker THEN RankReranked(a, f)
    ELSE IF a.combiner = NoCombiner THEN RankLegacy(a, f)
    ELSE RankRrf(a, f)

FilterCurrent(scores, f) ==
    Kept(scores, {i \in DOMAIN scores : scores[i].app \notin f.current})
Truncate(s, k) == IF Len(s) > k THEN SubSeq(s, 1, k) ELSE s

\* Defect variant: the popular apps stand in for an empty ranking as they are.
RankApps_FallbackUnfiltered(a, f, k) ==
    LET scores == FilterCurrent(RankEnsemble(a, f), f)
    IN  Truncate(IF scores = <<>> THEN a.popularity ELSE scores, k)

\* rank, with the algorithm the backend asks for.
RankApps(a, f, k) ==
    LET scores == FilterCurrent(RankEnsemble(a, f), f)
    IN  Truncate(IF scores = <<>> THEN FilterCurrent(a.popularity, f) ELSE scores, k)
=============================================================================
