-------------------------- MODULE ChronologicalFolds --------------------------
(***************************************************************************)
(* The rolling-origin folds of Stages 3.4B (stage34b.py) and 3.5B          *)
(* (stage35b.py): each block of time is predicted by models fitted on what *)
(* was created before it, with a configuration selected on the days before *)
(* the block.  A row is a record with game_creation and platform; times    *)
(* are small numbers.                                                      *)
(***************************************************************************)
EXTENDS CompositionModels

CONSTANTS
    OuterBlocks,        \* the protocol's outer blocks, pairs <<start, end>>
    InnerFolds,         \* days before a block that select its configuration
    Day,                \* the length of one
    FinalCutoff,        \* final_selection_cutoff_utc
    MinimumTraining,    \* minimum_training_support
    MinimumPerPlatform,
    HoldoutStart,       \* final_holdout_start_utc of Stage 3.5B
    Platforms           \* the two platforms of the protocol

ASSUME ChronologicalAssumption == InnerFolds \in Nat \ {0} /\ Day \in Nat \ {0}

Until(rows, t) == {r \in rows : r.game_creation < t}
Within(rows, start, end) == {r \in rows : start <= r.game_creation /\ r.game_creation < end}

\* A fold is a training and a validation set and the time between them.
OuterFold(rows, block) == <<Until(rows, block[1]), Within(rows, block[1], block[2]), block[1]>>

\* construct_inner_folds.
DaysBefore(training, cutoff) ==
    {LET start == cutoff - n * Day
     IN  <<Until(training, start), Within(training, start, start + Day), start>> :
        n \in 1..InnerFolds}

\* _validate_chronological_fold, with what _validate_timed_rows demands of a draft.
SoundFold(f) ==
    /\ f[1] # {} /\ f[2] # {}
    /\ \A r \in f[1], s \in f[2] : r.game_creation < s.game_creation
    /\ Cardinality(f[1]) >= MinimumTraining
    /\ \A p \in Platforms : Cardinality({r \in f[1] : r.platform = p}) >= MinimumPerPlatform
    /\ {r.outcome : r \in f[1]} = BOOLEAN /\ {r.outcome : r \in f[2]} = BOOLEAN
    /\ \A r \in f[1] \cup f[2] :
          Cardinality({r.allied[p] : p \in Positions} \cup {r.opposing[p] : p \in Positions})
              = 2 * TeamSize

\* The shared interaction model with the configuration its inner folds select.  The
\* fold it is fitted on enters the initialization, so equal rows of different folds
\* may give different models.
SharedModel(f) ==
    [scope |-> f[3], training |-> f[1], variant |-> "composition_only",
     strength |-> SelectedBy(DaysBefore(f[1], f[3]), "composition_only")]
SharedAnswer(f, d) ==
    [shared |-> Answer(SharedModel(f), d), role |-> RoleAnswer(f[1], d),
     blue |-> <<Cardinality({r \in f[1] : r.outcome}), Cardinality(f[1])>>,
     stage_a |-> {Answer(Model(f[1], v, "frozen"), d) : v \in Variants}]

\* join_draft_timestamps: the pooled drafts with the time of their canonical match.
TimedDrafts(drafts, sources) ==
    LET created == UNION {{<<m.match_id, m.game_creation>> : m \in s.canonical.matches} :
                             s \in sources}
    IN  {[match_id |-> d.match_id, platform |-> d.platform, outcome |-> d.outcome,
          public_patch |-> d.public_patch, allied |-> d.allied, opposing |-> d.opposing,
          game_creation |-> (CHOOSE c \in created : c[1] = d.match_id)[2]] : d \in drafts}

\* evaluate_stage34b.
RollingAnswers(rows, block) ==
    LET f == OuterFold(rows, block) IN {<<d.match_id, SharedAnswer(f, d)>> : d \in f[2]}
Rolling(rows) ==
    LET outer == {OuterFold(rows, b) : b \in OuterBlocks} IN
    [raises |-> \/ \E f \in outer : ~SoundFold(f) \/ \E g \in DaysBefore(f[1], f[3]) : ~SoundFold(g)
                \/ \E g \in DaysBefore(rows, FinalCutoff) : ~SoundFold(g),
     answers |-> [b \in OuterBlocks |-> RollingAnswers(rows, b)]]

-----------------------------------------------------------------------------
\* Stage 3.5B's folds on focal rows, with one inner validation window.
InnerWindow(f) == <<Until(f[1], f[3] - InnerFolds * Day),
                    Within(f[1], f[3] - InnerFolds * Day, f[3]), f[3]>>

\* _validate_fold.
SoundFocalFold(f) ==
    LET groups(s) == {r.match_group : r \in s}
        both(s) == {r.platform : r \in s} = Platforms
    IN  /\ both(f[1]) /\ both(f[2])
        /\ both(InnerWindow(f)[1]) /\ both(InnerWindow(f)[2])
        /\ groups(f[1]) \cap groups(f[2]) = {}
        /\ \A r \in f[1], s \in f[2] : r.game_creation < s.game_creation

\* _prepare_features: champions and side; no target and no history is a feature.
FocalFeatures(r) == <<r.champion, r.enemy, r.team>>
FocalModel(training, configuration) ==
    [configuration |-> configuration,
     fitted |-> {<<r.match_group, FocalFeatures(r), r.gold, r.tower, r.win>> : r \in training}]

\* _select_configuration and the outer fits: the configuration is the evidence of the
\* inner window, and an answer the model with the row's features and support tier.
FocalConfiguration(f) ==
    {<<FocalModel(InnerWindow(f)[1], "candidate"), FocalFeatures(r), r.gold>> :
        r \in InnerWindow(f)[2]}
FocalAnswer(f, r) ==
    [model |-> FocalModel(f[1], FocalConfiguration(f)), features |-> FocalFeatures(r),
     support |-> Cardinality({s \in f[1] : s.champion = r.champion})]

\* load_development_data keeps the holdout out; evaluate_development.
Development(rows) == Until(rows, HoldoutStart)
FocalAnswers(rows, block) ==
    LET f == OuterFold(Development(rows), block)
    IN  {<<r.match_group, r.team, FocalAnswer(f, r)>> : r \in f[2]}
FocalRolling(rows) ==
    [raises |-> \E b \in OuterBlocks : ~SoundFocalFold(OuterFold(Development(rows), b)),
     answers |-> [b \in OuterBlocks |-> FocalAnswers(rows, b)]]
=============================================================================
