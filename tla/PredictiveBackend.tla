-------------------------- MODULE PredictiveBackend --------------------------
(***************************************************************************)
(* A next-app model from its training examples to the intents it makes the *)
(* daemon suggest: train_next_app_artifact with the fit of the ensemble,   *)
(* the artifact file, PredictiveLocalBackend::from_path and its decisions. *)
(*                                                                         *)
(* The stochastic descent of fit_logistic_reranker is left open: its       *)
(* result is any of the weight vectors Descents.                           *)
(***************************************************************************)
EXTENDS NextApp

CONSTANTS
    Examples,           \* training examples
    MaxExamples,        \* bound on their number
    ValModulus,         \* VAL_MODULUS (20): every example with index % 20 < 3
    ValCutoff,          \* VAL_CUTOFF (3)   is held out for validation
    WeightGrid,         \* WEIGHT_GRID, in hundredths
    MaxAscentSweeps,    \* MAX_ASCENT_SWEEPS (6)
    MinLogistic,        \* MIN_LOGISTIC_CACHED_EXAMPLES (20)
    Descents,           \* weights the logistic fit may end with
    FilesOf(_),         \* files that may be found in place of an artifact
    Inputs              \* [context, feedback, user, end]

ASSUME PredictiveAssumption ==
    /\ ValModulus \in Nat \ {0}
    /\ ValCutoff \in 0 .. ValModulus
    /\ WeightGrid \in Seq(Nat)
    /\ MaxAscentSweeps \in Nat
    /\ MinLogistic \in Nat \ {0}
    /\ MaxExamples \in Nat
    /\ MaxIntents \in Nat \ {0}
    /\ NameOrder \in Seq(Names) /\ IsInjective(NameOrder)
    /\ Logs \in Seq(Int) /\ Len(Logs) >= 3 * MaxExamples
    /\ \A e \in Examples : {e.current, e.label} \subseteq Names
    /\ \A w \in Descents : w \in Seq(Int) /\ Len(w) = Len(RerankerFeatures)

VARIABLES
    phase,      \* "collect", "ascend", "rerank", "trained", "loaded",
                \* "heuristic", "served"
    examples,   \* the training examples
    cached,     \* validation examples: [label, rankings, rows]
    ascent,     \* coordinate ascent: [weights, best, component, sweep, improved]
    artifact,   \* the trained or loaded artifact: a set with at most one
    served      \* a decision: a set with at most one [input, ranking, intents]

vars == <<phase, examples, cached, ascent, artifact, served>>

NoAscent == [weights |-> <<>>, best |-> 0, component |-> 1, sweep |-> 0, improved |-> FALSE]

Init ==
    /\ phase = "collect"
    /\ examples = <<>>
    /\ cached = <<>>
    /\ ascent = NoAscent
    /\ artifact = {}
    /\ served = {}

AddExample ==
    /\ phase = "collect"
    /\ Len(examples) < MaxExamples
    /\ \E e \in Examples : examples' = Append(examples, e)
    /\ UNCHANGED <<phase, cached, ascent, artifact, served>>

-----------------------------------------------------------------------------
(***************************************************************************)
(* fit_ensemble_models.                                                    *)
(***************************************************************************)

IsValidation(i) == (i - 1) % ValModulus < ValCutoff

\* cache_validation_examples: a jump to another app, among the candidates.
\* The rankings lose the current app, and those behind it move up.
CacheExamples(a, validation) ==
    LET rankings(e) == ComponentRankings(a, FeaturesOf(e))
        rows(e) == CandidateRows(rankings(e), {e.current})
        usable == Kept(validation, {i \in DOMAIN validation :
                    LET e == validation[i] IN
                    e.label # e.current /\ e.label \in DOMAIN rows(e)})
    IN  [k \in DOMAIN usable |->
            [label |-> usable[k].label, rows |-> rows(usable[k]),
             rankings |-> [i \in DOMAIN Components |->
                            FilterCurrent(rankings(usable[k])[i], FeaturesOf(usable[k]))]]]

InitialWeights == <<60, 120, 80, 50, 30, 45, 20, 20, 5>>

\* weighted_hit_at_1, as a number of examples.
WeightedHits(cache, weights) ==
    Cardinality({i \in DOMAIN cache :
        LET fused == Fused(cache[i].rankings, weights)
        IN  DOMAIN fused # {} /\ Head(Ranking(fused)).app = cache[i].label})

\* train_next_app_artifact up to the ascent.  Without a slice to fit on, or
\* without usable validation examples, there is no ensemble.
Train ==
    /\ phase = "collect"
    /\ examples # <<>>
    /\ artifact' = {TrainBaseArtifact(examples)}
    /\ LET held == {i \in DOMAIN examples : IsValidation(i)}
           fit == Kept(examples, DOMAIN examples \ held)
           cache == IF fit = <<>> \/ ~ValidArtifact(TrainBaseArtifact(fit)) THEN <<>>
                    ELSE CacheExamples(TrainBaseArtifact(fit), Kept(examples, held))
       IN  /\ cached' = cache
           /\ phase' = IF cache = <<>> THEN "trained" ELSE "ascend"
           /\ ascent' = IF cache = <<>> THEN NoAscent
                        ELSE [NoAscent EXCEPT !.weights = InitialWeights,
                                              !.best = WeightedHits(cache, InitialWeights)]
    /\ UNCHANGED <<examples, served>>

\* One candidate weight for component c.
Try(state, c, candidate) ==
    LET hits == WeightedHits(cached, [ascent.weights EXCEPT ![c] = candidate]) IN
    IF candidate # ascent.weights[c] /\ hits > state.best
    THEN [best |-> hits, weight |-> candidate, improved |-> TRUE] ELSE state

\* Defect variant: the component is left at the last weight tried.
AscendComponent_LastTried(c) ==
    LET start == [best |-> ascent.best, weight |-> ascent.weights[c],
                  improved |-> ascent.improved]
        tried[n \in 0..Len(WeightGrid)] ==
            IF n = 0 THEN start ELSE Try(tried[n - 1], c, WeightGrid[n])
        end == tried[Len(WeightGrid)]
    IN  [ascent EXCEPT !.weights[c] = Last(WeightGrid), !.best = end.best,
                       !.improved = end.improved, !.component = c + 1]

\* The grid is tried on one component; the best weight stays.
AscendComponent(c) ==
    LET start == [best |-> ascent.best, weight |-> ascent.weights[c],
                  improved |-> ascent.improved]
        tried[n \in 0..Len(WeightGrid)] ==
            IF n = 0 THEN start ELSE Try(tried[n - 1], c, WeightGrid[n])
        end == tried[Len(WeightGrid)]
    IN  [ascent EXCEPT !.weights[c] = end.weight, !.best = end.best,
                       !.improved = end.improved, !.component = c + 1]

Ascend ==
    /\ phase = "ascend"
    /\ ascent.sweep < MaxAscentSweeps
    /\ ascent.component <= Len(Components)
    /\ ascent' = AscendComponent(ascent.component)
    /\ UNCHANGED <<phase, examples, cached, artifact, served>>

NextSweep ==
    /\ phase = "ascend"
    /\ ascent.sweep < MaxAscentSweeps
    /\ ascent.component > Len(Components)
    /\ ascent.improved
    /\ ascent' = [ascent EXCEPT !.component = 1, !.sweep = @ + 1, !.improved = FALSE]
    /\ UNCHANGED <<phase, examples, cached, artifact, served>>

FinishAscent ==
    /\ phase = "ascend"
    /\ \/ ascent.sweep = MaxAscentSweeps
       \/ ascent.component > Len(Components) /\ ~ascent.improved
    /\ artifact' = {[a EXCEPT !.combiner = [components |-> Components,
                                            weights |-> ascent.weights]] : a \in artifact}
    /\ phase' = "rerank"
    /\ UNCHANGED <<examples, cached, ascent, served>>

\* The cached examples with an even (0) or odd (1) index.
Half(parity) == Kept(cached, {i \in DOMAIN cached : (i - 1) % 2 = parity})

\* logistic_hit_at_1, as a number of examples.
LogisticHits(cache, weights) ==
    Cardinality({i \in DOMAIN cache :
        LET rows == cache[i].rows IN
        Head(Ranking([app \in DOMAIN rows |-> Dot(weights, rows[app])])).app = cache[i].label})

\* hard_negatives is empty only if the label is the sole candidate.
HasNegatives(e) == DOMAIN e.rows # {e.label}

\* The reranker is kept if the other half likes it as well as the combiner.
FitReranker ==
    /\ phase = "rerank"
    /\ LET fits == Len(Half(0)) >= MinLogistic /\ \E e \in ToSet(Half(0)) : HasNegatives(e)
           kept(w) == /\ Half(1) # <<>>
                      /\ LogisticHits(Half(1), w) >= WeightedHits(Half(1), ascent.weights)
           reranked(a, w) == [a EXCEPT !.reranker = [features |-> RerankerFeatures,
                                                     weights |-> w]]
       IN  \/ ~fits /\ UNCHANGED artifact
           \/ /\ fits
              /\ \E w \in Descents :
                    artifact' = {IF kept(w) THEN reranked(a, w) ELSE a : a \in artifact}
    /\ phase' = "trained"
    /\ UNCHANGED <<examples, cached, ascent, served>>

-----------------------------------------------------------------------------
(***************************************************************************)
(* PredictiveLocalBackend.                                                 *)
(***************************************************************************)

Loads(x) == IsArtifact(x) /\ ValidArtifact(x)

\* from_path: a file that cannot be parsed or validated leaves the router
\* with the heuristic evaluator.
Load ==
    /\ phase = "trained"
    /\ \E a \in artifact : \E file \in FilesOf(a) :
        \/ /\ \E x \in file : Loads(x) /\ artifact' = {x}
           /\ phase' = "loaded"
        \/ /\ \A x \in file : ~Loads(x)
           /\ artifact' = {}
           /\ phase' = "heuristic"
    /\ UNCHANGED <<examples, cached, ascent, served>>

\* Milliseconds since the epoch, which was a Thursday.
HourBucket(ms) == ((ms \div 1000) \div 3600) % 24
Weekday(ms) == (ms \div 86400000 + 4) % 7

EventName(e) ==
    CASE e.type = "AppTransition" -> "app_transition"
      [] e.type = "Notification" -> "notification"
      [] e.type = "FileActivity" -> "file_activity"
      [] e.type = "Screen" -> "screen"
      [] e.type = "SystemStatus" -> "system_status"
      [] e.type = "ProcessResource" -> "process_resource"
      [] e.type = "InterAppInteraction" -> "inter_app"

\* features_from_model_input; feedback holds the foreground apps of the
\* recent windows, the oldest first.
FeaturesFromModelInput(input) ==
    LET shown == ForegroundsOf(input.context)
        apps == input.context.summary.foreground
        past == FlattenSeq(input.feedback)
    IN  [user |-> input.user,
         current |-> IF shown # <<>> THEN Last(shown).package
                     ELSE IF apps # <<>> THEN {Last(apps)} ELSE {},
         history |-> SubSeq(past, IF Len(past) > 5 THEN Len(past) - 4 ELSE 1, Len(past)),
         hour |-> {HourBucket(input.end)},
         weekday |-> {Weekday(input.end)},
         event |-> IF input.context.events = <<>> THEN {}
                   ELSE {EventName(Last(input.context.events))}]

\* evaluate_model_input.
Serve ==
    /\ phase = "loaded"
    /\ \E a \in artifact, input \in Inputs :
        LET ranking == RankApps(a, FeaturesFromModelInput(input), MaxIntents)
            known == KnownTargets(input.context)
        IN  served' = {[input |-> input, ranking |-> ranking,
                        intents |-> PredictedIntents(ranking, known)]}
    /\ phase' = "served"
    /\ UNCHANGED <<examples, cached, ascent, artifact>>

Next ==
    \/ AddExample \/ Train \/ Ascend \/ NextSweep \/ FinishAscent \/ FitReranker
    \/ Load \/ Serve

Spec == Init /\ [][Next]_vars

-----------------------------------------------------------------------------
(***************************************************************************)
(* Properties.                                                             *)
(***************************************************************************)

\* Whatever the examples, an artifact as trained passes the validation the
\* daemon applies when it loads it, with and without the fitted ensemble.
TrainedLoads == phase \in {"ascend", "rerank", "trained"} => \A a \in artifact : Loads(a)

\* The hit rate the ascent believes in is that of the weights it holds after
\* every component, and never below that of the weights it started with
\* (fit_rrf_combiner tries candidates in place).
AscentConsistent ==
    phase \in {"ascend", "rerank"} =>
        /\ ascent.best = WeightedHits(cached, ascent.weights)
        /\ ascent.best >= WeightedHits(cached, InitialWeights)

BestFirst(scores) ==
    \A i, j \in DOMAIN scores : i < j => scores[i].score >= scores[j].score

\* From any artifact that was loaded, damaged files included, a ranking names
\* apps of the vocabulary, each once, never the current app, and is empty only
\* if there is no other app to name.  It is best first wherever the popular apps
\* of the artifact are: validation does not look at their order, and a combiner
\* without a say falls back on them as they are.
RankSound ==
    \A s \in served, a \in artifact :
        LET f == FeaturesFromModelInput(s.input)
            apps == AppsOf(s.ranking)
        IN  /\ ToSet(apps) \subseteq ToSet(a.vocab) \ f.current
            /\ IsInjective(apps)
            /\ BestFirst(a.popularity) => BestFirst(s.ranking)
            /\ apps = <<>> => ToSet(a.vocab) \subseteq f.current

\* "Map a scored prediction to a policy-safe intent": the policy approves
\* every action the predictor suggests, for the window it was asked about.
PredictionsApproved ==
    \A s \in served : \A coord \in CoordsOf(s.intents) :
        Settle(s.input.context, "LocalEvaluator", s.intents, coord) = "Approved"
=============================================================================
