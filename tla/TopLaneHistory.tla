---------------------------- MODULE TopLaneHistory ----------------------------
(***************************************************************************)
(* Stage 3.5A (stage35a.py): the two top laners of each match, the gold    *)
(* difference between them at the primary minutes of the timeline, who     *)
(* loses the first outer top tower, and what is known of the focal player  *)
(* from matches created strictly before.                                   *)
(*                                                                         *)
(* A timeline is Missing or a record                                       *)
(*   frames: a set of records timestamp, gold (participant -> gold or      *)
(*           Missing)                                                      *)
(*   towers: a set of records timestamp, teamId: outer top towers lost     *)
(***************************************************************************)
EXTENDS CanonicalRows, FiniteSetsExt, SequencesExt

CONSTANTS
    Top,                \* the position "TOP"
    PrimaryMinutes,     \* PRIMARY_MINUTES
    HistoryMinute,      \* the primary minute whose gold enters the history (10)
    TowerMinute,        \* the minute the tower label looks up to (15)
    Lateness,           \* maximum_frame_lateness_ms
    RecentDays,         \* history_policy.recent_days
    TargetEligible      \* target_eligible_matches

ASSUME TopLaneAssumption == /\ HistoryMinute \in PrimaryMinutes
                            /\ RecentDays \in Nat \ {0}
                            /\ TargetEligible \in Nat \ {0}

\* select_timeline_frame: the earliest frame at or after the minute, if it is not
\* too late.
SelectedFrames(frames, minute) ==
    LET near == {f \in frames : minute <= f.timestamp /\ f.timestamp <= minute + Lateness}
    IN  {f \in near : \A g \in near : f.timestamp <= g.timestamp}

\* identify_top_participants: the tops when each of the two teams has exactly one.
TopParticipants(participants) ==
    LET tops == {r \in participants : /\ r.team_position = Top
                                      /\ r.individual_position \in {Missing, Top}}
        teams == {r.team_id : r \in tops}
    IN  IF Cardinality(teams) = 2 /\ Cardinality(tops) = 2 THEN tops ELSE {}

\* transform_top_match: whether a match is eligible.
Eligible(m, tops, timeline) ==
    /\ ~m.short
    /\ tops # {}
    /\ timeline # Missing
    /\ \A minute \in PrimaryMinutes :
          /\ SelectedFrames(timeline.frames, minute) # {}
          /\ \A f \in SelectedFrames(timeline.frames, minute), r \in tops :
                f.gold[r.participant_id] # Missing

\* _trajectory_change's points: the gold of a top minus the other's.
GoldDifference(timeline, minute, focal, opponent) ==
    LET f == CHOOSE g \in SelectedFrames(timeline.frames, minute) : TRUE
    IN  f.gold[focal.participant_id] - f.gold[opponent.participant_id]

\* _tower_outcome, seen from one team.
TowerLabel(timeline, team) ==
    LET first == {t \in timeline.towers :
                     \A u \in timeline.towers : \/ t.timestamp < u.timestamp
                                                \/ /\ t.timestamp = u.timestamp
                                                   /\ t.teamId <= u.teamId}
    IN  IF first = {} \/ \E t \in first : t.timestamp > TowerMinute THEN "neither_by_15"
        ELSE IF \E t \in first : t.teamId = team THEN "allied_top_outer_first"
        ELSE "enemy_top_outer_first"

\* _build_perspective.
Perspective(m, timeline, focal, opponent) ==
    [match_group |-> m.match_id, platform |-> m.platform,
     game_creation |-> m.game_creation, player |-> focal.player_key,
     champion |-> focal.champion_id, enemy |-> opponent.champion_id,
     team |-> focal.team_id, win |-> focal.win,
     gold |-> [minute \in PrimaryMinutes |->
                  GoldDifference(timeline, minute, focal, opponent)],
     tower |-> TowerLabel(timeline, focal.team_id)]

\* validate_perspective_symmetry, of the two rows of a match.  The code raises a
\* ValueError, which excludes the match.
Symmetric(rows) ==
    \A r, s \in rows : r # s =>
        /\ r.win # s.win /\ r.team # s.team
        /\ \A minute \in PrimaryMinutes : r.gold[minute] = -s.gold[minute]
        /\ (r.tower = "neither_by_15") = (s.tower = "neither_by_15")
        /\ r.tower # "neither_by_15" => r.tower # s.tower

-----------------------------------------------------------------------------
(* The history of a player: games, wins, and per champion the games, the   *)
(* times and the gold differences in the order they were played, which is  *)
(* what the means and the moving averages are computed from.               *)

NewHistory == [games |-> 0, wins |-> 0, gold |-> <<>>,
               champions |-> [c \in {} |-> <<>>]]
NewChampion == [times |-> <<>>, gold |-> <<>>]

HistoryOf(state, player) == IF player \in DOMAIN state THEN state[player] ELSE NewHistory
ChampionOf(h, champion) ==
    IF champion \in DOMAIN h.champions THEN h.champions[champion] ELSE NewChampion

\* _update_history_state.
UpdateHistory(state, row) ==
    LET h == HistoryOf(state, row.player)
        c == ChampionOf(h, row.champion)
        gold == row.gold[HistoryMinute]
        played == [times |-> Append(c.times, row.game_creation),
                   gold |-> Append(c.gold, gold)]
        next == [games |-> h.games + 1, wins |-> h.wins + (IF row.win THEN 1 ELSE 0),
                 gold |-> Append(h.gold, gold),
                 champions |-> [k \in DOMAIN h.champions \cup {row.champion} |->
                                  IF k = row.champion THEN played ELSE h.champions[k]]]
    IN  [p \in DOMAIN state \cup {row.player} |->
            IF p = row.player THEN next ELSE state[p]]

\* _history_feature.
HistoryFeature(row, state) ==
    LET h == HistoryOf(state, row.player)
        c == ChampionOf(h, row.champion)
        recent(t) == 0 < row.game_creation - t /\ row.game_creation - t <= RecentDays
    IN  [games |-> h.games, wins |-> h.wins, champion_games |-> Len(c.times),
         recent |-> Cardinality({n \in DOMAIN c.times : recent(c.times[n])}),
         last |-> IF c.times = <<>> THEN Missing ELSE c.times[Len(c.times)],
         gold |-> h.gold, champion_gold |-> c.gold]

InOrder(r, s) == \/ r.game_creation < s.game_creation
                 \/ r.game_creation = s.game_creation /\ r.match_group < s.match_group
                 \/ r.game_creation = s.game_creation /\ r.match_group = s.match_group /\ r.team < s.team

\* A set in a strict order.  SetToSortSeq searches all sequences of the set, which is
\* out of reach for more than a few rows.
Sorted(S, before(_, _)) ==
    [n \in 1..Cardinality(S) |->
        CHOOSE x \in S : Cardinality({y \in S : before(y, x)}) = n - 1]

\* add_strict_history_features: a cohort is the rows created at one time.  Each row
\* is given its feature before any row of its cohort enters the state.
CreationTimes(rows) == Sorted({r.game_creation : r \in rows}, <)
Cohort(rows, time) == {r \in rows : r.game_creation = time}
CohortOrder(cohort) == Sorted(cohort, InOrder)
EnterHistory(state, cohort) == FoldLeft(UpdateHistory, state, CohortOrder(cohort))

HistoryStates(rows, times) ==
    LET states[n \in 0..Len(times)] ==
            IF n = 0 THEN [p \in {} |-> NewHistory]
            ELSE EnterHistory(states[n - 1], Cohort(rows, times[n]))
    IN  states

HistoryFeatures(rows) ==
    LET times == CreationTimes(rows)
        states == HistoryStates(rows, times)
    IN  UNION {{[row |-> r, familiarity |-> HistoryFeature(r, states[n - 1])] :
                   r \in Cohort(rows, times[n])} : n \in 1..Len(times)}

\* load_source_top_matches and the loop of build_stage35a_dataset: the eligible matches
\* of one source, as the perspectives of their tops.
SourceGroups(canonical, timelines) ==
    LET topsOf(m) == TopParticipants({r \in canonical.participants : r.match_id = m.match_id})
        rowsOf(m) == {Perspective(m, timelines[m.match_id], q[1], q[2]) :
                         q \in {p \in topsOf(m) \X topsOf(m) : p[1] # p[2]}}
    IN  {rowsOf(m) : m \in {n \in canonical.matches :
                               /\ n.public_patch = TargetPatch
                               /\ Eligible(n, topsOf(n), timelines[n.match_id])
                               /\ Symmetric(rowsOf(n))}}
EligibleGroups(sources) == UNION {SourceGroups(s.canonical, s.timelines) : s \in sources}

\* A mistake that takes the matches by their identifiers.
EarlierById(g, h) ==
    (CHOOSE r \in g : TRUE).match_group < (CHOOSE r \in h : TRUE).match_group

Earlier(g, h) == InOrder(CHOOSE r \in g : TRUE, CHOOSE r \in h : TRUE)

\* build_stage35a_dataset: the first TargetEligible eligible matches by creation.
EligibleOrder(groups) == Sorted(groups, Earlier)
SelectedRows(groups) ==
    LET ordered == EligibleOrder(groups)
    IN  UNION {ordered[n] : n \in 1..Min({TargetEligible, Len(ordered)})}
TopLaneRows(sources) == HistoryFeatures(SelectedRows(EligibleGroups(sources)))
=============================================================================
