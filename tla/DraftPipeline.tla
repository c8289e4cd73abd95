---------------------------- MODULE DraftPipeline ----------------------------
(***************************************************************************)
(* The offline stages one after another, over a population that was        *)
(* collected before: 3.1 canonical rows, 3.2 features, 3.3A observations,  *)
(* and then the studies of them: 3.3B aggregates, 3.3C backtest, 3.4A      *)
(* composition models and their pooled development, 3.4B rolling folds,    *)
(* 3.5A top-lane rows and 3.5B rolling folds on those.  Each stage reads   *)
(* what the ones before it published and publishes only when its own gate  *)
(* is open.  The pooled studies read other populations too, which are      *)
(* sealed.  How a stage's files reach the disk, and what happens when      *)
(* stages run again, is in module StagePublication.                        *)
(***************************************************************************)
EXTENDS DraftAggregation, RollingBacktest, TopLaneHistory, ChronologicalFolds

CONSTANTS
    Platform,        \* the platform of the population
    Sealed,          \* the other sources, records platform, canonical, timelines, drafts
    Nothing,         \* a stage that has not run
    Refused,         \* a stage whose gate was closed
    Candidates,      \* approved payloads, each with its timeline
    MaxApproved,     \* bound: approved payloads of a population
    MaxStudies       \* bound: studies made of a population

\* The payloads and drafts that are read: files of finite length, with ids, durations and
\* times that are numbers (an id stands for the platform and the name of a match, in
\* their order), a flag that is a Boolean or absent, and with the patch of a match in
\* each of its observations.
ASSUME CandidatesAssumption ==
    \A c \in Candidates :
        /\ IsFiniteSet(c.payload.participants) /\ IsFiniteSet(c.payload.teams)
        /\ {c.payload.match_id, c.payload.gameDuration, c.payload.gameCreation} \subseteq Int
        /\ \A r \in c.payload.participants :
              r.win \in BOOLEAN \cup {Missing} /\ r.teamId \in Int \cup {Missing}

Coherent(rows) == \A o \in rows.participants, c \in rows.contexts :
                     o.match_id = c.match_id => o.public_patch = c.public_patch
ASSUME SealedAssumption ==
    /\ IsFiniteSet(Sealed)
    /\ \A s \in Sealed :
          /\ Coherent(s.drafts)
          /\ IsFiniteSet(s.canonical.matches) /\ IsFiniteSet(s.canonical.participants)
          /\ \A m \in s.canonical.matches : {m.match_id, m.game_creation} \subseteq Int
          /\ \A r \in s.canonical.participants : r.team_id \in Int

\* No match is in two sources, or load_source_top_matches raises, and Stage 3.1 has one
\* row of a match.
ASSUME MembershipAssumption ==
    \A s \in Sealed : \A m \in s.canonical.matches :
        /\ \A c \in Candidates : c.payload.match_id # m.match_id
        /\ \A t \in Sealed : \A n \in t.canonical.matches :
              m.match_id = n.match_id => s = t /\ m = n

VARIABLES
    approved,        \* the candidates the population has accepted
    canonical,       \* what Stage 3.1 has published
    features,        \* Stage 3.2
    drafts,          \* Stage 3.3A
    studies          \* the later stages that have run, with what they published

vars == <<approved, canonical, features, drafts, studies>>

Published(stage) == stage \notin {Nothing, Refused}
Studied(name) == name \in DOMAIN studies /\ studies[name] # Refused

Init == /\ approved = {}
        /\ canonical = Nothing /\ features = Nothing /\ drafts = Nothing
        /\ studies = [name \in {} |-> Nothing]

\* What the caller tells each stage to expect: the checkpoint's accepted matches.
ExpectedCounts == PatchCounts({c.payload : c \in approved})

TimelineOf == [id \in {c.payload.match_id : c \in approved} |->
                  (CHOOSE c \in approved : c.payload.match_id = id).timeline]

\* The sources of the pooled stages; the first stages read their own population.
Source == [platform |-> Platform, canonical |-> canonical, timelines |-> TimelineOf,
           drafts |-> drafts]
Corpora == {Corpus(s.drafts, s.platform) : s \in Sealed \cup {Source}}

\* The collector accepts one more match.
Approve(c) ==
    /\ canonical = Nothing
    /\ Cardinality(approved) < MaxApproved
    /\ \A d \in approved : d.payload.match_id # c.payload.match_id
    /\ approved' = approved \cup {c}
    /\ UNCHANGED <<canonical, features, drafts, studies>>

Outcome(result) == IF result.ready THEN result.rows ELSE Refused

\* run of scripts/build_canonical_tables.py.
BuildCanonical ==
    /\ canonical = Nothing /\ approved # {}
    /\ canonical' = Outcome(Canonical({c.payload : c \in approved}, Platform, ExpectedCounts))
    /\ UNCHANGED <<approved, features, drafts, studies>>

\* run_stage3_2.
BuildFeatures ==
    /\ Published(canonical) /\ features = Nothing
    /\ features' = Outcome(Analytical(canonical, ExpectedCounts))
    /\ UNCHANGED <<approved, canonical, drafts, studies>>

\* run_stage3_3a.
BuildDrafts ==
    /\ Published(features) /\ drafts = Nothing
    /\ drafts' = Outcome(DraftDataset(canonical, features, ExpectedCounts))
    /\ UNCHANGED <<approved, canonical, features, studies>>

Study(name, result) ==
    /\ name \notin DOMAIN studies /\ Cardinality(DOMAIN studies) < MaxStudies
    /\ studies' = [n \in DOMAIN studies \cup {name} |-> IF n = name THEN result ELSE studies[n]]
    /\ UNCHANGED <<approved, canonical, features, drafts>>

Answers(result) == IF result.raises THEN Refused ELSE result.answers

\* run_stage3_3b, for the newest patch or a given one.
BuildAggregates(target) ==
    /\ Published(drafts)
    /\ Study("aggregates",
             LET built == Aggregates(drafts, target)
                 sound == /\ ReciprocalOutcomes(MatchupContributions(drafts, target), built)
                          /\ \A a \in built.matchups \cup built.synergies :
                                BundleReconciles(a.bundle)
             IN  IF AggregationRaises(drafts, target) \/ ~sound THEN Refused
                 ELSE [target |-> target, built |-> built])

\* run_stage3_3c, with every patch that can be evaluated.
Backtest ==
    /\ Published(drafts)
    /\ Study("predicted",
             [e \in {p \in DOMAIN ExpectedCounts : FoldSplits(drafts, p) # {}} |->
                 UNION {Predictions(drafts.participants, s) : s \in FoldSplits(drafts, e)}])

\* run_stage3_4a.
Compose ==
    /\ Published(drafts)
    /\ Study("composition", Answers(Composition(drafts, Platform)))

\* scripts/run_pooled_development.py.
DevelopPooled ==
    /\ Published(drafts)
    /\ Study("pooled", Answers(Pooled(Corpora)))

\* scripts/run_stage34b.py.
TimedSource == TimedDrafts(PooledDrafts(Corpora), Sealed \cup {Source})
DevelopRolling ==
    /\ Published(drafts)
    /\ Study("rolling", IF PooledFails(Corpora) THEN Refused ELSE Answers(Rolling(TimedSource)))

\* scripts/build_stage35a.py.
BuildTopLane ==
    /\ Published(canonical)
    /\ Study("topLane", TopLaneRows(Sealed \cup {Source}))

\* scripts/run_stage35b.py.
FocalRows == {x.row : x \in studies.topLane}
DevelopFocal ==
    /\ Studied("topLane")
    /\ Study("focal", Answers(FocalRolling(FocalRows)))

Next == \/ \E c \in Candidates : Approve(c)
        \/ BuildCanonical \/ BuildFeatures \/ BuildDrafts
        \/ \E target \in DOMAIN ExpectedCounts : BuildAggregates(target)
        \/ Backtest \/ Compose \/ DevelopPooled \/ DevelopRolling
        \/ BuildTopLane \/ DevelopFocal

Spec == Init /\ [][Next]_vars
-----------------------------------------------------------------------------
(* What a reader of the payloads would count, without the stages.          *)

Side(a, team) == {r \in a.participants : r.teamId = team}
Winner(a) == (CHOOSE t \in a.teams : t.win).teamId

\* A participant whose own position is beyond doubt.
Placed(r) == /\ r.teamPosition \in Positions
             /\ r.individualPosition \in Positions => r.individualPosition = r.teamPosition

\* The lane opponents of a full-length match of two full teams: the only two placed
\* in a position.
LaneContests(a) ==
    {q \in a.participants \X a.participants :
        /\ a.gameDuration >= ShortGame
        /\ \A t \in a.teams : Cardinality(Side(a, t.teamId)) = TeamSize
        /\ q[1].teamId # q[2].teamId
        /\ {u \in a.participants : Placed(u) /\ u.teamPosition = q[1].teamPosition}
              = {q[1], q[2]}
        /\ Placed(q[1]) /\ Placed(q[2])}

\* The full teams of a full-length match, as pairs of two members placed somewhere.
Place(r) == IF r.teamPosition \in Positions THEN r.teamPosition ELSE r.individualPosition
Companions(a) ==
    {q \in a.participants \X a.participants :
        /\ a.gameDuration >= ShortGame
        /\ q[1] # q[2] /\ q[1].teamId = q[2].teamId
        /\ Cardinality(Side(a, q[1].teamId)) = TeamSize
        /\ {Place(q[1]), Place(q[2])} \subseteq Positions}

\* The rows of a key within the window, as pairs of a payload and a seat.
Played(key, target, pairs(_)) ==
    UNION {{<<c.payload, q[1]>> :
               q \in {x \in pairs(c.payload) :
                         key = <<<<x[1].championId, Place(x[1])>>,
                                 <<x[2].championId, Place(x[2])>>>>}} :
           c \in {d \in approved : target - d.payload.public_patch <= MaxPreviousPatches}}

Counted(bundle, rows) ==
    /\ bundle.statistics.games = Cardinality(rows)
    /\ bundle.statistics.wins = Cardinality({g \in rows : g[2].teamId = Winner(g[1])})

\* Whatever payloads got past Stage 3.1, the matchups Stage 3.3B publishes are those
\* that can be counted in the payloads: one game per lane contest, won by the side
\* the payload names as the winner.  A win flag that contradicts its team, uneven
\* teams, a doubtful position or a mirrored pick must have been left out or have
\* closed a gate on the way.  For synergies, whose wins no later stage compares with
\* the team's, this holds unless Stage 3.2 has reported a contradiction.
AggregatesAreCounted ==
    Studied("aggregates") =>
        /\ \A a \in studies.aggregates.built.matchups :
              Counted(a.bundle, Played(a.key, studies.aggregates.target, LaneContests))
        /\ features.reported = {} => \A a \in studies.aggregates.built.synergies :
              Counted(a.bundle, Played(a.key, studies.aggregates.target, Companions))

Sum(s, t) == [f \in DOMAIN s |-> s[f] + t[f]]

\* The rows of a pair and the rows its baseline is computed from are the whole of the
\* pick's rows: in every patch window, with their weights, and in the table of the
\* pick as in the table of the pair.  Nothing is counted on both sides and nothing is
\* lost between them.
LeaveOutIsTheRest ==
    LET built == studies.aggregates.built
        ofPick(p) == CHOOSE r \in built.roles : r.pick = p
        splits(pair, rest, whole) ==
            \A n \in DOMAIN whole.windows :
                Sum(pair.windows[n].statistics, rest.windows[n].statistics)
                    = whole.windows[n].statistics
    IN  Studied("aggregates") =>
        /\ \A a \in built.matchups :
              LET role == ofPick(a.key[1]) IN
              /\ splits(a.bundle, a.focal_leave_opponent_out, role.matchup)
              /\ role.opponent_exclusions[a.key[2]] = a.focal_leave_opponent_out
              /\ \E b \in built.matchups :
                    /\ b.key = <<a.key[2], a.key[1]>>
                    /\ splits(b.bundle, a.opponent_leave_focal_out,
                              ofPick(b.key[1]).matchup)
        /\ \A a \in built.synergies :
              LET role == ofPick(a.key[1]) IN
              /\ splits(a.bundle, a.focal_without_ally, role.synergy)
              /\ \E b \in built.synergies :
                    /\ b.key = <<a.key[2], a.key[1]>>
                    /\ b.focal_without_ally = a.ally_without_focal
              /\ role.ally_exclusions[a.key[2]] = a.focal_without_ally

\* The drafts with the outcome of every match of the evaluation patch, and of later
\* ones, turned round.
Reversed(evaluation) ==
    [drafts EXCEPT !.participants =
        {IF o.public_patch < evaluation THEN o ELSE [o EXCEPT !.win = ~@] : o \in @}]

BlindBacktest ==
    Studied("predicted") =>
        \A e \in DOMAIN studies.predicted :
            UNION {Predictions(Reversed(e).participants, s) : s \in FoldSplits(drafts, e)}
                = studies.predicted[e]

BlindComposition ==
    Studied("composition") =>
        Composition(Reversed(EvaluationPatch), Platform).answers = studies.composition

\* What a model was fitted on, what its strength was scored on, and what the candidates
\* that were scored had been fitted on.
Seen(model) ==
    {d.match_id : d \in model.training \cup UNION {e[2][1].training : e \in model.strength}}
        \cup {e[1] : e \in model.strength}

\* A draft of the pooled development is asked of models that have not seen it, and every
\* draft is asked once.
HeldOut ==
    Studied("pooled") =>
        /\ \A a \in studies.pooled : a[1] \notin Seen(a[3][1])
        /\ \A d \in PooledDrafts(Corpora), v \in Variants :
              Cardinality({a \in studies.pooled : a[1] = d.match_id /\ a[2] = v}) = 1

\* The drafts with every outcome of one fold of a plan turned round.
TurnedFold(rows, plan, k) ==
    {IF plan[d.match_id] = k THEN [d EXCEPT !.outcome = ~@] ELSE d : d \in rows}

AnswersOf(answers, plan, k) == {a \in answers : plan[a[1]] = k}

\* By the plan that was dealt, no answer of a fold depends on an outcome in it.
BlindFolds ==
    LET rows == PooledDrafts(Corpora)
        plan == FoldPlan(rows)
    IN  Studied("pooled") =>
          \A k \in 0..SelectionFolds - 1 :
              AnswersOf(PooledAnswers(TurnedFold(rows, plan, k), plan), plan, k)
                  = AnswersOf(studies.pooled, plan, k)

\* The rows with what happened in every game created at or after a time turned round.
Turned(rows, t) ==
    {IF r.game_creation < t THEN r ELSE [r EXCEPT !.outcome = ~@] : r \in rows}
TurnedFocal(rows, t) ==
    {IF r.game_creation < t THEN r
     ELSE [match_group |-> r.match_group, platform |-> r.platform,
           game_creation |-> r.game_creation, player |-> r.player, champion |-> r.champion,
           enemy |-> r.enemy, team |-> r.team, win |-> ~r.win, tower |-> "neither_by_15",
           gold |-> [minute \in PrimaryMinutes |-> -r.gold[minute]]] : r \in rows}

BlindRolling ==
    Studied("rolling") =>
        \A b \in OuterBlocks :
            RollingAnswers(Turned(TimedSource, b[1]), b) = studies.rolling[b]
BlindFocal ==
    Studied("focal") =>
        \A b \in OuterBlocks :
            FocalAnswers(TurnedFocal(FocalRows, b[1]), b) = studies.focal[b]

\* No answer of a backtest or of an evaluation depends on an outcome of the evaluation
\* patch (3.3C, 3.4A) or on what happened from the start of its block on (3.4B, 3.5B):
\* not through the counts and models it is computed from, and not through the selection
\* of their configuration.  The folds of the pooled development are dealt by the
\* outcomes, which its answers do depend on through the plan; of a plan once dealt it
\* says that no answer depends on an outcome in its own fold, and that no draft of the
\* fold has been fitted or scored on by a model that is asked, or by a candidate for it.
PredictionsAreBlind ==
    /\ BlindBacktest /\ BlindComposition
    /\ HeldOut /\ BlindFolds
    /\ BlindRolling /\ BlindFocal

\* The matches of Stage 3.5A created before a row, whether selected or not.
Before(groups, row) ==
    {r \in UNION groups : r.player = row.player /\ r.game_creation < row.game_creation}

GoldOf(rows) == [v \in {r.gold[HistoryMinute] : r \in rows} |->
                    Cardinality({r \in rows : r.gold[HistoryMinute] = v})]

\* What Stage 3.5A says of a player is what the eligible matches created strictly
\* before say: not the match itself, not one created at the same time, not a later
\* one, and the cut to the target takes nothing of it away.
HistoryIsStrictlyPast ==
    Studied("topLane") =>
      LET groups == EligibleGroups(Sealed \cup {Source}) IN
        \A x \in studies.topLane :
            LET past == Before(groups, x.row)
                same == {r \in past : r.champion = x.row.champion}
                age(r) == x.row.game_creation - r.game_creation
            IN  /\ x.familiarity.games = Cardinality(past)
                /\ x.familiarity.wins = Cardinality({r \in past : r.win})
                /\ x.familiarity.champion_games = Cardinality(same)
                /\ x.familiarity.recent = Cardinality({r \in same : age(r) <= RecentDays})
                /\ x.familiarity.last =
                      IF same = {} THEN Missing ELSE Max({r.game_creation : r \in same})
                /\ ToBag(x.familiarity.gold) = GoldOf(past)
                /\ ToBag(x.familiarity.champion_gold) = GoldOf(same)
=============================================================================
