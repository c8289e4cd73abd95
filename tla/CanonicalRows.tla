---------------------------- MODULE CanonicalRows ----------------------------
(***************************************************************************)
(* Stage 3.1 (canonical.py): the approved payloads of a population turned  *)
(* into canonical match, participant and team rows.  A payload that breaks *)
(* a rule is counted as a failure and leaves no row; any failure closes    *)
(* the quality gate of the whole dataset.                                  *)
(*                                                                         *)
(* An approved payload is a record                                         *)
(*   match_id, public_patch, catalog_patch, partition_patch                *)
(*     what the checkpoint, the catalog and the normalized file say of it  *)
(*   queueId, gameMode, platformId, gameVersion, gameDuration,             *)
(*   gameCreation, endsAfterStart                                          *)
(*   participants: a set of records participantId, teamId, puuid,          *)
(*     championId, teamPosition, individualPosition, win, kills, deaths,   *)
(*     gold                                                                *)
(*   teams: a set of records teamId, win, kills                            *)
(* Bans, items and the other statistics are left out: no property reads    *)
(* them.  Times and durations are small numbers that keep the order.       *)
(***************************************************************************)
EXTENDS Integers, FiniteSets

CONSTANTS
    TeamSize,      \* participants of a team (5)
    ShortGame,     \* SHORT_GAME_THRESHOLD_SECONDS
    TargetPatch,   \* the patch under study (TARGET_PATCH, public_patch of Stage 3.5)
    Missing        \* a field the payload does not have

ASSUME CanonicalAssumption == /\ TeamSize \in Nat \ {0}
                              /\ ShortGame \in Nat \ {0}

RankedSolo == 420

\* PATCH_MAPPING_RULES: client versions of one year and one API major.
MappingRule == [year |-> 2026, api_major |-> 16, minors |-> 1..99]

\* The minor number of the public patch, or Missing.
ResolvePatch(version) ==
    IF /\ version # Missing
       /\ version.year = MappingRule.year
       /\ version.major = MappingRule.api_major
       /\ version.minor \in MappingRule.minors
    THEN version.minor
    ELSE Missing

CriticalFields == {"championId", "participantId", "puuid", "teamId", "win"}

\* The rules of _transform_payload, one conjunct each.
Transforms(a, platform) ==
    LET teamIds == {t.teamId : t \in a.teams} IN
    /\ a.queueId = RankedSolo
    /\ a.gameMode = "CLASSIC"
    /\ a.platformId = platform
    /\ Cardinality(a.participants) = 2 * TeamSize
    /\ Cardinality(a.teams) = 2
    /\ \A r \in a.participants, f \in CriticalFields : r[f] # Missing
    /\ Cardinality({r.participantId : r \in a.participants}) = 2 * TeamSize
    /\ Missing \notin teamIds /\ Cardinality(teamIds) = 2
    /\ Cardinality({t \in a.teams : t.win}) = 1
    /\ a.gameDuration > 0
    /\ a.endsAfterStart
    /\ ResolvePatch(a.gameVersion) # Missing
    /\ {ResolvePatch(a.gameVersion)} =
           {a.public_patch, a.catalog_patch, a.partition_patch}
    /\ \A r \in a.participants : r.teamId \in teamIds

MatchRow(a) ==
    [match_id |-> a.match_id, platform |-> a.platformId,
     public_patch |-> ResolvePatch(a.gameVersion), game_creation |-> a.gameCreation,
     duration |-> a.gameDuration, short |-> a.gameDuration < ShortGame]

ParticipantRow(a, r) ==
    [match_id |-> a.match_id, participant_id |-> r.participantId,
     team_id |-> r.teamId, player_key |-> r.puuid, champion_id |-> r.championId,
     team_position |-> r.teamPosition, individual_position |-> r.individualPosition,
     win |-> r.win, kills |-> r.kills, deaths |-> r.deaths, gold |-> r.gold]

TeamRow(a, t) == [match_id |-> a.match_id, team_id |-> t.teamId,
                  win |-> t.win, champion_kills |-> t.kills]

PatchCounts(rows) ==
    [p \in {r.public_patch : r \in rows} |->
        Cardinality({r \in rows : r.public_patch = p})]

\* ready_for_stage_3_2: no payload failed, every approved match has its row, and
\* the rows have the expected number of matches of each patch, which is also what
\* the checkpoint was approved with.
CanonicalReady(approved, rows, platform, expected) ==
    /\ \A a \in approved : Transforms(a, platform)
    /\ Cardinality({a.match_id : a \in approved}) = Cardinality(approved)
    /\ PatchCounts(rows.matches) = expected
    /\ \A m \in rows.matches :
          /\ Cardinality({r \in rows.participants : r.match_id = m.match_id}) = 2 * TeamSize
          /\ Cardinality({t \in rows.teams : t.match_id = m.match_id}) = 2

\* build_canonical_dataset, of the population of a platform.
Canonical(approved, platform, expected) ==
    LET good == {a \in approved : Transforms(a, platform)}
        rows == [matches |-> {MatchRow(a) : a \in good},
                 participants |-> UNION {{ParticipantRow(a, r) : r \in a.participants} : a \in good},
                 teams |-> UNION {{TeamRow(a, t) : t \in a.teams} : a \in good}]
    IN  [rows |-> rows, ready |-> CanonicalReady(approved, rows, platform, expected)]
=============================================================================
