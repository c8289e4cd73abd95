--------------------------- MODULE DraftAggregation ---------------------------
(***************************************************************************)
(* Stage 3.3B (draft_aggregation.py): the eligible observations of a patch *)
(* window added up per directional matchup (a champion in a position       *)
(* against another), per directional synergy (beside another), and per     *)
(* champion and position, with the baselines that leave one counterpart    *)
(* out.  A pick is a pair of a champion and a position; a key is a pair of *)
(* picks, the focal one first.  One platform and queue: the rest of the    *)
(* code's grouping context is the same for every row.                      *)
(***************************************************************************)
EXTENDS DraftObservations

CONSTANTS
    MaxPreviousPatches,   \* MAX_PREVIOUS_PATCHES
    ViabilityShare,       \* ROLE_VIABILITY_SHARE, as games out of which one is enough
    ViabilityGames        \* ROLE_VIABILITY_MINIMUM_GAMES

ASSUME AggregationAssumption == MaxPreviousPatches \in Nat

PickOf(o) == <<o.champion_id, o.analysis_position>>

\* The patches of the input no older than the window, and their ages.
Scope(drafts, target) ==
    {p \in {o.public_patch : o \in drafts.participants} : target - p <= MaxPreviousPatches}
MaxWindowAge(drafts, target) == Max({target - p : p \in Scope(drafts, target)})

InScope(drafts, target) ==
    {o \in drafts.participants : o.public_patch \in Scope(drafts, target)}

\* _matchup_contributions: one row per eligible observation.
MatchupContributions(drafts, target) ==
    {[match_id |-> q[1].match_id, team_id |-> q[1].team_id,
      public_patch |-> q[1].public_patch, win |-> q[1].win,
      key |-> <<PickOf(q[1]), PickOf(q[2])>>, source |-> q[1].participant_id] :
        q \in {p \in InScope(drafts, target) \X drafts.participants :
                  /\ p[1].matchup_eligible
                  /\ p[1].match_id = p[2].match_id
                  /\ p[2].participant_id \in p[1].lane_opponent}}

\* _synergy_contributions: one row per eligible observation and positioned ally.
SynergyContributions(drafts, target) ==
    {[match_id |-> q[1].match_id, team_id |-> q[1].team_id,
      public_patch |-> q[1].public_patch, win |-> q[1].win,
      key |-> <<PickOf(q[1]), PickOf(q[2])>>,
      source |-> <<q[1].participant_id, q[2].participant_id>>] :
        q \in {p \in InScope(drafts, target) \X drafts.participants :
                  /\ p[1].synergy_eligible
                  /\ p[1].match_id = p[2].match_id
                  /\ p[1].team_id = p[2].team_id
                  /\ p[1].participant_id # p[2].participant_id
                  /\ p[1].analysis_position # Missing
                  /\ p[2].analysis_position # Missing}}

\* _role_contributions: one row per positioned observation, eligible or not.
RoleContributions(drafts, target) ==
    LET beside(o) == {p \in drafts.participants :
                         /\ p.match_id = o.match_id /\ p.team_id = o.team_id
                         /\ p.participant_id # o.participant_id
                         /\ p.analysis_position # Missing}
        against(o) == {p \in drafts.participants :
                          /\ o.matchup_eligible
                          /\ p.match_id = o.match_id
                          /\ p.participant_id \in o.lane_opponent}
    IN  {[match_id |-> o.match_id, source |-> o.participant_id,
          public_patch |-> o.public_patch, win |-> o.win, pick |-> PickOf(o),
          role_eligible |-> o.role_eligible, matchup_eligible |-> o.matchup_eligible,
          synergy_eligible |-> o.synergy_eligible /\ o.team_structure_valid,
          opponent |-> {PickOf(p) : p \in against(o)},
          allies |-> {PickOf(p) : p \in beside(o)}] :
            o \in {q \in InScope(drafts, target) : q.analysis_position # Missing}}

\* PATCH_DECAY is 4/5: the weight of an age, times 5^MaxPreviousPatches.
Weight(age) == 4^age * 5^(MaxPreviousPatches - age)

\* _sufficient_statistics.
Statistics(rows, target) ==
    LET weight(r) == Weight(target - r.public_patch)
        won == {r \in rows : r.win}
    IN  [games |-> Cardinality(rows), wins |-> Cardinality(won),
         losses |-> Cardinality(rows) - Cardinality(won),
         sum_weights |-> MapThenSumSet(weight, rows),
         weighted_wins |-> MapThenSumSet(weight, won)]

\* _patch_specific.
PatchSpecific(rows) ==
    [p \in {r.public_patch : r \in rows} |->
        LET played == {r \in rows : r.public_patch = p} IN
        [games |-> Cardinality(played), wins |-> Cardinality({r \in played : r.win})]]

\* _cumulative_windows: window n holds the patches of age 0..n, and names the ages
\* no row of the input has.
Windows(rows, drafts, target) ==
    [n \in 0..MaxWindowAge(drafts, target) |->
        [missing_ages |-> {age \in 0..n : target - age \notin Scope(drafts, target)},
         statistics |-> Statistics({r \in rows : target - r.public_patch <= n}, target)]]

\* _statistics_bundle; the baseline components are bundles of other rows.
Bundle(rows, drafts, target) ==
    [statistics |-> Statistics(rows, target), patch_specific |-> PatchSpecific(rows),
     windows |-> Windows(rows, drafts, target)]

\* The rows a matchup is compared with: the pick's other lane opponents.
AgainstOthers(roles, pick, excluded) ==
    {r \in roles : /\ r.pick = pick /\ r.matchup_eligible
                   /\ r.opponent # {} /\ r.opponent # {excluded}}

\* A mistake that leaves an ally out by its champion, in any position.
WithoutChampion(roles, pick, excluded) ==
    {r \in roles : /\ r.pick = pick /\ r.synergy_eligible
                   /\ \A p \in r.allies : p[1] # excluded[1]}

\* The rows a synergy is compared with: the pick's games without that ally.
WithoutAlly(roles, pick, excluded) ==
    {r \in roles : r.pick = pick /\ r.synergy_eligible /\ excluded \notin r.allies}

\* _matchup_aggregate.
MatchupAggregate(key, contributions, roles, drafts, target) ==
    [key |-> key,
     bundle |-> Bundle({c \in contributions : c.key = key}, drafts, target),
     focal_leave_opponent_out |->
        Bundle(AgainstOthers(roles, key[1], key[2]), drafts, target),
     opponent_leave_focal_out |->
        Bundle(AgainstOthers(roles, key[2], key[1]), drafts, target)]

\* _synergy_aggregate.
SynergyAggregate(key, contributions, roles, drafts, target) ==
    [key |-> key,
     bundle |-> Bundle({c \in contributions : c.key = key}, drafts, target),
     focal_without_ally |-> Bundle(WithoutAlly(roles, key[1], key[2]), drafts, target),
     ally_without_focal |-> Bundle(WithoutAlly(roles, key[2], key[1]), drafts, target)]

\* _champion_role_statistics, for one pick.
RoleStatistics(pick, roles, drafts, target) ==
    LET rows == {r \in roles : r.pick = pick}
        eligible(s) == {r \in s : r.role_eligible}
        matchup == {r \in rows : r.matchup_eligible}
        synergy == {r \in rows : r.synergy_eligible}
        ofChampion == Cardinality(eligible({r \in roles : r.pick[1] = pick[1]}))
        games == Cardinality(eligible(rows))
    IN  [pick |-> pick,
         role |-> Bundle(eligible(rows), drafts, target),
         matchup |-> Bundle(matchup, drafts, target),
         synergy |-> Bundle(synergy, drafts, target),
         opponent_exclusions |->
            [p \in UNION {r.opponent : r \in matchup} |->
                Bundle(AgainstOthers(roles, pick, p), drafts, target)],
         ally_exclusions |->
            [p \in UNION {r.allies : r \in synergy} |->
                Bundle(WithoutAlly(roles, pick, p), drafts, target)],
         viable |-> /\ ofChampion > 0 /\ games * ViabilityShare >= ofChampion
                    /\ games >= ViabilityGames]

-----------------------------------------------------------------------------
\* What makes the build raise before it has aggregated anything: a target older than
\* the input, an empty window, a match that counts twice for one matchup, or a team
\* that counts twice for one synergy.
TwiceInMatch(contributions) ==
    \E c, d \in contributions :
        c.source # d.source /\ c.match_id = d.match_id /\ c.key = d.key

TwiceInTeam(contributions) ==
    \E c, d \in contributions :
        /\ c.source # d.source /\ c.key = d.key
        /\ c.match_id = d.match_id /\ c.team_id = d.team_id

AggregationRaises(drafts, target) ==
    \/ \E o \in drafts.participants : target < o.public_patch
    \/ Scope(drafts, target) = {}
    \/ TwiceInMatch(MatchupContributions(drafts, target))
    \/ TwiceInTeam(SynergyContributions(drafts, target))

\* build_aggregation_dataset, before its validation.
Aggregates(drafts, target) ==
    LET matchups == MatchupContributions(drafts, target)
        synergies == SynergyContributions(drafts, target)
        roles == RoleContributions(drafts, target)
    IN  [matchups |-> {MatchupAggregate(k, matchups, roles, drafts, target) :
                          k \in {c.key : c \in matchups}},
         synergies |-> {SynergyAggregate(k, synergies, roles, drafts, target) :
                          k \in {c.key : c \in synergies}},
         roles |-> {RoleStatistics(p, roles, drafts, target) :
                       p \in {r.pick : r \in roles}}]

\* A mistake that compares the keys of a match and not its outcomes.
ReciprocalKeys(contributions, aggregates) ==
    \A c \in contributions : \E d \in contributions :
        d.match_id = c.match_id /\ d.key = <<c.key[2], c.key[1]>>

\* The part of _validate_aggregates that can find something: each contribution of a
\* match has its opposite with the opposite outcome, and so has each aggregate.
ReciprocalOutcomes(contributions, aggregates) ==
    /\ \A c \in contributions : \E d \in contributions :
          /\ d.match_id = c.match_id /\ d.key = <<c.key[2], c.key[1]>>
          /\ d.win # c.win
    /\ \A a \in aggregates.matchups : \E b \in aggregates.matchups :
          /\ b.key = <<a.key[2], a.key[1]>>
          /\ b.bundle.statistics.games = a.bundle.statistics.games
          /\ b.bundle.statistics.wins = a.bundle.statistics.losses
          /\ b.bundle.statistics.losses = a.bundle.statistics.wins

\* _validate_statistics_bundle.
BundleReconciles(b) ==
    LET last == b.windows[Max(DOMAIN b.windows)] IN
    /\ b.statistics.wins + b.statistics.losses = b.statistics.games
    /\ MapThenSumSet(LAMBDA p : b.patch_specific[p].games, DOMAIN b.patch_specific)
          = b.statistics.games
    /\ MapThenSumSet(LAMBDA p : b.patch_specific[p].wins, DOMAIN b.patch_specific)
          = b.statistics.wins
    /\ last.statistics = b.statistics
=============================================================================
