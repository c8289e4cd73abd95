-------------------------- MODULE DraftObservations --------------------------
(***************************************************************************)
(* Stage 3.3A (draft_observations.py): who was drafted with and against    *)
(* whom.  Each canonical participant gets one observation: its allies, its *)
(* enemies, the opponent of its lane when exactly one can be named from    *)
(* both sides, and the uses the observation is eligible for.               *)
(***************************************************************************)
EXTENDS AnalyticalFeatures

\* _position_pairing_eligible.
PairingEligible(f) == /\ f.analysis_position \in Positions
                      /\ f.analysis_position_source = "team_position"
                      /\ ~f.position_disagreement

Team(rows, id) == {f \in rows : f.team_id = id}
TeamIds(rows) == {f.team_id : f \in rows}

\* valid_match_structure, of the rows of one match.
EvenTeams(rows) ==
    /\ Cardinality(rows) = 2 * TeamSize
    /\ Cardinality(TeamIds(rows)) = 2
    /\ \A id \in TeamIds(rows) : Cardinality(Team(rows, id)) = TeamSize

\* _resolve_lane_opponents: the status of a row and the opponents it is resolved to.
LaneResolution(rows, f) ==
    LET lane(s) == {g \in s : /\ PairingEligible(g)
                              /\ g.analysis_position = f.analysis_position}
        candidates == lane({g \in rows : g.team_id # f.team_id})
        unresolved(status) == [status |-> status, opponents |-> {}]
    IN  CASE ~EvenTeams(rows) -> unresolved("invalid_team_structure")
          [] EvenTeams(rows) /\ ~PairingEligible(f) ->
                unresolved("participant_position_ineligible")
          [] EvenTeams(rows) /\ PairingEligible(f) ->
                CASE candidates = {} -> unresolved("missing_unique_opponent")
                  [] Cardinality(candidates) > 1 ->
                        unresolved("ambiguous_opponent_position")
                  [] Cardinality(candidates) = 1 ->
                        IF Cardinality(lane(Team(rows, f.team_id))) = 1
                        THEN [status |-> "resolved_unique", opponents |-> candidates]
                        ELSE unresolved("nonreciprocal_position_group")

\* _participant_observations, for one feature row among the rows of its match.
Observation(rows, f) ==
    LET mates == Team(rows, f.team_id)
        enemies == rows \ mates
        lane == LaneResolution(rows, f)
        full == Cardinality(mates) = TeamSize
    IN  [match_id |-> f.match_id, participant_id |-> f.participant_id,
         player_key |-> f.player_key, public_patch |-> f.public_patch,
         team_id |-> f.team_id, champion_id |-> f.champion_id, win |-> f.win,
         analysis_position |-> f.analysis_position,
         allied |-> IF full
                    THEN {<<g.participant_id, g.champion_id>> : g \in mates \ {f}} ELSE {},
         enemy |-> {<<g.participant_id, g.champion_id>> : g \in enemies},
         lane_opponent |-> {g.participant_id : g \in lane.opponents},
         resolution |-> lane.status,
         role_eligible |-> f.role_exclusion_reasons = {},
         matchup_eligible |-> /\ f.exclusion_reasons = {}
                              /\ f.role_exclusion_reasons = {}
                              /\ lane.status = "resolved_unique",
         synergy_eligible |-> f.exclusion_reasons = {} /\ full,
         team_structure_valid |-> full]

\* _resolved_reciprocal_pairs, of the observations of one match.
ReciprocalPairs(observations) ==
    {{q[1].participant_id, q[2].participant_id} :
        q \in {p \in observations \X observations :
            /\ p[1].resolution = "resolved_unique"
            /\ p[1].lane_opponent = {p[2].participant_id}
            /\ p[2].lane_opponent = {p[1].participant_id}}}

\* _team_observations: a team's matchups count as a whole only when every lane of
\* the match is resolved and every member is eligible.
TeamObservation(context, observations, t, opponent) ==
    LET pairs == Cardinality(ReciprocalPairs(observations)) IN
    [match_id |-> t.match_id, team_id |-> t.team_id, win |-> t.win,
     opponent_win |-> opponent.win,
     champions |-> {<<o.participant_id, o.champion_id>> : o \in Team(observations, t.team_id)},
     all_lanes_resolved |-> EvenTeams(observations) /\ pairs = TeamSize,
     matchup_eligible |->
        /\ context.exclusion_reasons = {}
        /\ EvenTeams(observations) /\ pairs = TeamSize
        /\ \A o \in Team(observations, t.team_id) : o.matchup_eligible,
     synergy_eligible |-> context.exclusion_reasons = {} /\ EvenTeams(observations)]

\* _match_draft_context.  The outcome of a composition is taken from its members.
DraftContext(context, observations) ==
    [match_id |-> context.match_id, public_patch |-> context.public_patch,
     compositions |->
        {[team_id |-> id,
          champions |-> {<<o.participant_id, o.champion_id>> : o \in Team(observations, id)},
          win |-> \E o \in Team(observations, id) : o.win] : id \in TeamIds(observations)}]

\* _validate_outputs: any finding closes the gate.
OutputsReconcile(canonical, drafts) ==
    /\ \A o \in drafts.participants :
          LET champions(s) == {pair[2] : pair \in s} IN
          /\ o.champion_id \notin champions(o.allied) \cup champions(o.enemy)
          /\ o.team_structure_valid => Cardinality(o.allied) = TeamSize - 1
          /\ Cardinality({r \in canonical.participants : /\ r.match_id = o.match_id
                                                         /\ r.team_id # o.team_id})
                = Cardinality(o.enemy)
    /\ \A t \in drafts.teams : t.win # t.opponent_win
    /\ \A c \in drafts.contexts :
          c.compositions = {[team_id |-> t.team_id, champions |-> t.champions, win |-> t.win] :
                               t \in {u \in drafts.teams : u.match_id = c.match_id}}

\* resolved rows whose opponent does not name them back also close it.
Reciprocity(drafts) ==
    \A o \in drafts.participants :
        o.resolution = "resolved_unique" =>
            \E p \in drafts.participants :
                /\ p.match_id = o.match_id /\ o.lane_opponent = {p.participant_id}
                /\ p.lane_opponent = {o.participant_id}

\* _validate_prior_stage_reconciliation: Stages 3.1 and 3.2 speak of the same rows.
PriorStagesAgree(canonical, features) ==
    LET facts(rows) == {<<r.match_id, r.participant_id, r.player_key, r.champion_id,
                          r.team_id, r.win>> : r \in rows}
    IN  /\ facts(canonical.participants) = facts(features.participants)
        /\ {m.match_id : m \in canonical.matches} = {c.match_id : c \in features.contexts}

\* build_draft_observation_dataset.
DraftDataset(canonical, features, expected) ==
    LET featuresOf(id) == {f \in features.participants : f.match_id = id}
        participants == {Observation(featuresOf(f.match_id), f) : f \in features.participants}
        observationsOf(id) == {o \in participants : o.match_id = id}
        contextOf(id) == CHOOSE c \in features.contexts : c.match_id = id
        opponentOf(t) == CHOOSE u \in features.teams :
                            u.match_id = t.match_id /\ u.team_id # t.team_id
        drafts ==
            [participants |-> participants,
             teams |-> {TeamObservation(contextOf(t.match_id), observationsOf(t.match_id),
                                        t, opponentOf(t)) : t \in features.teams},
             contexts |-> {DraftContext(c, observationsOf(c.match_id)) :
                              c \in features.contexts}]
    IN  [rows |-> drafts,
         ready |-> /\ PriorStagesAgree(canonical, features)
                   /\ OutputsReconcile(canonical, drafts) /\ Reciprocity(drafts)
                   /\ PatchCounts(drafts.contexts) = expected]
=============================================================================
