-------------------------- MODULE CompositionModels --------------------------
(***************************************************************************)
(* Stages 3.4A (composition_modeling.py) and its pooled development        *)
(* (pooled_development.py): one draft per match whose two teams fill every *)
(* position, models of its outcome fitted on some drafts and asked about   *)
(* others.  The optimizer is deterministic, so a fitted model is the       *)
(* variant, the strength and the drafts it was fitted on, an answer is the *)
(* model with the features it knows of the draft, and a selected strength  *)
(* is the evidence it was selected by.                                     *)
(***************************************************************************)
EXTENDS DraftObservations

CONSTANTS
    TrainingPatch,     \* CompositionConfig.training_patch
    EvaluationPatch,   \* CompositionConfig.evaluation_patch
    SelectionFolds     \* cv_folds, inner_folds and outer_folds

ASSUME CompositionAssumption ==
    /\ IsFiniteSet(Positions) /\ Cardinality(Positions) = TeamSize
    /\ TrainingPatch < EvaluationPatch
    /\ SelectionFolds \in Nat \ {0, 1}

Variants == {"composition_only", "composition_plus_lane_matchups"}

\* _draft_exclusion_reason finds none.
Complete(rows) ==
    /\ EvenTeams(rows)
    /\ \A o \in rows : o.role_eligible
    /\ \A id \in TeamIds(rows) : {o.analysis_position : o \in Team(rows, id)} = Positions

Assignments(team) ==
    [p \in Positions |-> (CHOOSE o \in team : o.analysis_position = p).champion_id]

Outcomes(team) == {o.win : o \in team}

\* A MatchDraftObservation, seen from the team with the lower number.
MatchDraft(rows, platform) ==
    LET allied == Team(rows, Min(TeamIds(rows)))
        opposing == Team(rows, Max(TeamIds(rows)))
        some == CHOOSE o \in rows : TRUE
    IN  [match_id |-> some.match_id, public_patch |-> some.public_patch,
         platform |-> platform, outcome |-> Outcomes(allied) = {TRUE},
         allied |-> Assignments(allied), opposing |-> Assignments(opposing)]

\* build_match_draft_corpus.  Teams that do not have one outcome each, and opposite
\* ones, make it raise.
Corpus(drafts, platform) ==
    LET ids == {c.match_id : c \in drafts.contexts}
        rowsOf(id) == {o \in drafts.participants : o.match_id = id}
        complete == {id \in ids : Complete(rowsOf(id))}
        outcomes(id) == {Outcomes(Team(rowsOf(id), t)) : t \in TeamIds(rowsOf(id))}
    IN  [raises |-> \E id \in complete : outcomes(id) # {{TRUE}, {FALSE}},
         scope |-> {<<c.match_id, c.public_patch>> : c \in drafts.contexts},
         rows |-> {MatchDraft(rowsOf(id), platform) : id \in complete}]

-----------------------------------------------------------------------------
\* build_feature_vocabulary.
Vocabulary(training, variant) ==
    UNION {{<<"composition", p, d[side][p], 0>> :
               p \in Positions, side \in {"allied", "opposing"}} : d \in training}
    \cup IF variant # "composition_plus_lane_matchups" THEN {}
         ELSE UNION {{<<"lane_matchup", p, Min({d.allied[p], d.opposing[p]}),
                        Max({d.allied[p], d.opposing[p]})>> :
                         p \in {r \in Positions : d.allied[r] # d.opposing[r]}} :
                     d \in training}

\* vectorize_draft: what is known of a draft, opposite when the teams change sides.
FeatureValue(d, k) ==
    LET held(side) == IF d[side][k[2]] = k[3] THEN 1 ELSE 0
        met == <<d.allied[k[2]], d.opposing[k[2]]>>
    IN  IF k[1] = "composition" THEN held("allied") - held("opposing")
        ELSE IF met = <<k[3], k[4]>> THEN 1
        ELSE IF met = <<k[4], k[3]>> THEN -1 ELSE 0
Vector(d, vocabulary) ==
    {<<k, FeatureValue(d, k)>> : k \in {f \in vocabulary : FeatureValue(d, f) # 0}}

\* fit_composition_model and predict_probability.
Model(training, variant, strength) ==
    [variant |-> variant, strength |-> strength, training |-> training]
Answer(model, d) ==
    <<model, Vector(d, Vocabulary(model.training, model.variant))>>

\* fit_champion_role_baseline and predict_champion_role_baseline.
RoleRecord(training, p, champion) ==
    LET played(side) == {d \in training : d[side][p] = champion}
        won == {d \in played("allied") : d.outcome} \cup {d \in played("opposing") : ~d.outcome}
    IN  <<Cardinality(won), Cardinality(played("allied") \cup played("opposing"))>>
RoleAnswer(training, d) ==
    [side \in {"allied", "opposing"} |->
        [p \in Positions |-> RoleRecord(training, p, d[side][p])]]

\* The losses a strength is selected by, one for each draft it is scored on, over pairs
\* of a training and a validation set.
SelectedBy(folds, variant) ==
    UNION {{<<d.match_id, Answer(Model(f[1], variant, "candidate"), d), d.outcome>> :
               d \in f[2]} : f \in folds}

\* The place of a draft among others.  The code orders them by a hash of the match
\* ID, which is as arbitrary as the ID.
PlaceIn(d, drafts) == Cardinality({e \in drafts : e.match_id < d.match_id})
Parts(drafts, fold(_), n) ==
    {<<{d \in drafts : fold(d) # f}, {d \in drafts : fold(d) = f}>> : f \in 0..n - 1}

\* select_l2_strength's folds.
GroupedFolds(drafts) ==
    Parts(drafts, LAMBDA d : PlaceIn(d, drafts) % SelectionFolds, SelectionFolds)

\* build_composition_dataset: every match of the evaluation patch and every policy.
\* The incomplete drafts have no answer.
Composition(drafts, platform) ==
    LET corpus == Corpus(drafts, platform)
        training == {d \in corpus.rows : d.public_patch = TrainingPatch}
        evaluation == {d \in corpus.rows : d.public_patch = EvaluationPatch}
        fitted == [v \in Variants |->
                      Model(training, v, SelectedBy(GroupedFolds(training), v))]
        answers(d) == [policy \in Variants \cup {"naive_0_5", "champion_role_baseline"} |->
                          CASE policy = "naive_0_5" -> "half"
                            [] policy = "champion_role_baseline" -> RoleAnswer(training, d)
                            [] policy \in Variants -> Answer(fitted[policy], d)]
    IN  [raises |-> \/ corpus.raises \/ evaluation = {}
                    \/ Cardinality(training) < SelectionFolds,
         answers |-> {<<d.match_id, answers(d)>> : d \in evaluation},
         excluded |-> {s[1] : s \in {x \in corpus.scope : x[2] = EvaluationPatch}}
                         \ {d.match_id : d \in evaluation}]

-----------------------------------------------------------------------------
\* construct_fold_plan: the drafts of a platform and an outcome are dealt out in turn.
Stratum(drafts, d) ==
    {e \in drafts : e.platform = d.platform /\ e.outcome = d.outcome}
FoldPlan(drafts) ==
    [id \in {d.match_id : d \in drafts} |->
        LET d == CHOOSE e \in drafts : e.match_id = id
        IN  PlaceIn(d, Stratum(drafts, d)) % SelectionFolds]
PlanFails(drafts) ==
    \/ Cardinality(drafts) < SelectionFolds
    \/ {FoldPlan(drafts)[d.match_id] : d \in drafts} # 0..SelectionFolds - 1

\* _partition, for each fold of a plan.
Partitions(drafts, plan) == Parts(drafts, LAMBDA d : plan[d.match_id], SelectionFolds)
PlannedFolds(drafts) == Partitions(drafts, FoldPlan(drafts))

\* load_pooled_input: the drafts of one patch of several sealed sources.
PooledDrafts(corpora) ==
    UNION {{d \in c.rows : d.public_patch = TargetPatch} : c \in corpora}
PooledFails(corpora) ==
    LET accepted(c) == {s \in c.scope : s[2] = TargetPatch} IN
    \/ \E c \in corpora : c.raises
    \/ \E c, e \in corpora : c # e /\ accepted(c) \cap accepted(e) # {}

\* A strength selected on the fold that is asked.
SelectedOnItsFold(f, v) == Model(f[1], v, SelectedBy({f}, v))

\* select_l2_on_plan and the outer fit: a fold is asked of a model fitted on the others,
\* with the strength that is selected within them.
PooledModel(f, v) == Model(f[1], v, SelectedBy(PlannedFolds(f[1]), v))

\* build_pooled_development_result: the answers out of fold, by a plan of the folds.
PooledAnswers(drafts, plan) ==
    UNION {UNION {{<<d.match_id, v, Answer(PooledModel(f, v), d)>> : d \in f[2]} :
                     v \in Variants} : f \in Partitions(drafts, plan)}
Pooled(corpora) ==
    LET drafts == PooledDrafts(corpora) IN
    [raises |-> \/ PooledFails(corpora) \/ PlanFails(drafts)
                \/ \E f \in PlannedFolds(drafts) : PlanFails(f[1]),
     answers |-> PooledAnswers(drafts, FoldPlan(drafts))]
=============================================================================
