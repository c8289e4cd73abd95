-------------------------- MODULE AnalyticalFeatures --------------------------
(***************************************************************************)
(* Stage 3.2 (analytics.py): one feature row per canonical participant and *)
(* team and one context per match.  Nothing is removed: a row that is not  *)
(* fit for a use keeps its place and lists the reasons.                    *)
(***************************************************************************)
EXTENDS CanonicalRows, FiniteSetsExt

CONSTANTS Positions    \* CANONICAL_POSITIONS

ASSUME PositionsAssumption == Missing \notin Positions

\* analysis_position, analysis_position_source and position_disagreement: the team
\* position wins, the individual one is a fallback.
PositionPolicy(r) ==
    CASE r.team_position \in Positions ->
           [position |-> r.team_position, source |-> "team_position",
            disagreement |-> /\ r.individual_position \in Positions
                             /\ r.individual_position # r.team_position]
      [] r.team_position \notin Positions /\ r.individual_position \in Positions ->
           [position |-> r.individual_position,
            source |-> "individual_position_fallback", disagreement |-> FALSE]
      [] OTHER ->
           [position |-> Missing, source |-> "unresolved", disagreement |-> FALSE]

RoleReasons(policies) ==
    {reason \in {"position_disagreement", "position_fallback", "unresolved_position"} :
        \E p \in policies :
            \/ reason = "position_disagreement" /\ p.disagreement
            \/ reason = "position_fallback" /\ p.source = "individual_position_fallback"
            \/ reason = "unresolved_position" /\ p.position = Missing}

\* _match_context, with the rows of one match.
MatchContext(m, participants, teams) ==
    LET distinct(rows, field, n) ==
            Cardinality(rows) = n /\ Cardinality({r[field] : r \in rows}) = n
        reasons ==
            {reason \in {"invalid_duration", "short_game", "incomplete_participants",
                         "incomplete_teams"} :
                \/ reason = "invalid_duration" /\ m.duration <= 0
                \/ reason = "short_game" /\ m.duration > 0 /\ m.duration < ShortGame
                \/ /\ reason = "incomplete_participants"
                   /\ ~distinct(participants, "participant_id", 2 * TeamSize)
                \/ reason = "incomplete_teams" /\ ~distinct(teams, "team_id", 2)}
    IN  [match_id |-> m.match_id, public_patch |-> m.public_patch,
         exclusion_reasons |-> reasons,
         role_exclusion_reasons |->
             reasons \cup RoleReasons({PositionPolicy(r) : r \in participants})]

\* formulas.complete_sum over the members of a full team; Missing otherwise.
TeamSum(members, field) ==
    IF Cardinality(members) = TeamSize /\ \A r \in members : r[field] # Missing
    THEN MapThenSumSet(LAMBDA r : r[field], members)
    ELSE Missing

TeamFeature(context, t, members) ==
    [match_id |-> t.match_id, team_id |-> t.team_id, win |-> t.win,
     team_kills |-> TeamSum(members, "kills"),
     team_deaths |-> TeamSum(members, "deaths"),
     team_gold |-> TeamSum(members, "gold"), champion_kills |-> t.champion_kills,
     exclusion_reasons |-> context.exclusion_reasons]

\* formulas.ratio, as its numerator and its denominator.
Ratio(numerator, denominator) ==
    IF numerator = Missing \/ denominator = Missing \/ denominator <= 0
    THEN Missing ELSE <<numerator, denominator>>

ParticipantFeature(context, r, team) ==
    LET policy == PositionPolicy(r) IN
    [match_id |-> r.match_id, participant_id |-> r.participant_id,
     player_key |-> r.player_key, public_patch |-> context.public_patch,
     team_id |-> r.team_id, champion_id |-> r.champion_id, win |-> r.win,
     analysis_position |-> policy.position,
     analysis_position_source |-> policy.source,
     position_disagreement |-> policy.disagreement,
     exclusion_reasons |-> context.exclusion_reasons,
     role_exclusion_reasons |-> context.exclusion_reasons \cup RoleReasons({policy}),
     team_gold |-> team.team_gold, team_gold_share |-> Ratio(r.gold, team.team_gold)]

\* ready_for_stage_3_3_analysis_validation: row counts, patch counts and the range of the
\* gold share.  The gate of the code also looks at the ranges of metrics that no row
\* carries here, and its input at the match IDs of the bans: the model publishes all that
\* the code does, and more.  What _validate_reconciliation finds is reported and does not
\* close the gate.
AnalyticalReady(canonical, features, expected) ==
    /\ Cardinality(features.participants) = Cardinality(canonical.participants)
    /\ Cardinality(features.teams) = Cardinality(canonical.teams)
    /\ PatchCounts(features.contexts) = expected
    /\ \A f \in features.participants :
          f.team_gold_share # Missing => f.team_gold_share[1] <= f.team_gold_share[2]

\* The failures _validate_reconciliation reports: a participant whose denominator or
\* outcome is not its team's, a team of another size or with other kills than its
\* members', and a full team whose shares do not add up to one.
ReconciliationFailures(features) ==
    LET members(t) == {f \in features.participants :
                          f.match_id = t.match_id /\ f.team_id = t.team_id}
    IN  {t \in features.teams :
            \/ \E f \in members(t) : f.team_gold # t.team_gold \/ f.win # t.win
            \/ t.team_kills # t.champion_kills
            \/ Cardinality(members(t)) # TeamSize
            \/ /\ t.team_gold # Missing /\ t.team_gold > 0
               /\ \/ \E f \in members(t) : f.team_gold_share = Missing
                  \/ MapThenSumSet(LAMBDA f : f.team_gold_share[1], members(t)) # t.team_gold
            \/ \E u \in features.teams :
                  /\ u.match_id = t.match_id /\ u.team_id # t.team_id
                  /\ t.team_kills # Missing /\ u.team_deaths # Missing
                  /\ t.team_kills # u.team_deaths}

\* build_analytical_dataset.
Analytical(canonical, expected) ==
    LET participantsOf(id) == {r \in canonical.participants : r.match_id = id}
        teamsOf(id) == {t \in canonical.teams : t.match_id = id}
        contexts == {MatchContext(m, participantsOf(m.match_id), teamsOf(m.match_id)) :
                        m \in canonical.matches}
        contextOf(id) == CHOOSE c \in contexts : c.match_id = id
        teams == {TeamFeature(contextOf(t.match_id), t,
                              {r \in participantsOf(t.match_id) : r.team_id = t.team_id}) :
                     t \in canonical.teams}
        teamOf(r) == CHOOSE t \in teams : t.match_id = r.match_id /\ t.team_id = r.team_id
        features ==
            [contexts |-> contexts, teams |-> teams,
             participants |-> {ParticipantFeature(contextOf(r.match_id), r, teamOf(r)) :
                                  r \in canonical.participants}]
        reported == ReconciliationFailures(features)
    IN  [rows |-> [contexts |-> contexts, teams |-> teams, reported |-> reported,
                  participants |-> features.participants],
         ready |-> AnalyticalReady(canonical, features, expected)]
=============================================================================
