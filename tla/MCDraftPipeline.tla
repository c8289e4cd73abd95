---------------------------- MODULE MCDraftPipeline ----------------------------
(***************************************************************************)
(* Two positions, teams of two and seventeen payloads: six sound games     *)
(* that share players, picks, patches and times, and eleven that break one *)
(* rule or leave one thing in doubt.  The sealed sources are eight games   *)
(* of another platform, on every day of the folds, and two of this one.    *)
(***************************************************************************)
EXTENDS DraftPipeline

CONSTANTS Other    \* the platform of the sealed source

Seat(id, team, puuid, champion, position, win) ==
    [participantId |-> id, teamId |-> team, puuid |-> puuid, championId |-> champion,
     teamPosition |-> position, individualPosition |-> position, win |-> win,
     kills |-> 1, deaths |-> 1, gold |-> 3]

\* picks: the champions of the tops and mids of team 100 and of team 200.
GameOn(platform, id, minor, created, picks, winner, players) ==
    [match_id |-> id, public_patch |-> minor, catalog_patch |-> minor,
     partition_patch |-> minor, queueId |-> RankedSolo, gameMode |-> "CLASSIC",
     platformId |-> platform, gameVersion |-> [year |-> 2026, major |-> 16, minor |-> minor],
     gameDuration |-> 10, gameCreation |-> created, endsAfterStart |-> TRUE,
     participants |-> {Seat(1, 100, players[1], picks[1], "TOP", winner = 100),
                       Seat(2, 100, players[2], picks[2], "MID", winner = 100),
                       Seat(3, 200, players[3], picks[3], "TOP", winner = 200),
                       Seat(4, 200, players[4], picks[4], "MID", winner = 200)},
     teams |-> {[teamId |-> t, win |-> t = winner, kills |-> 2] : t \in {100, 200}}]
Game(id, minor, created, picks, winner) ==
    GameOn(Platform, id, minor, created, picks, winner, <<"p", "q", "r", "s">>)

\* A payload with one field of one participant changed.
With(game, id, field, value) ==
    [game EXCEPT !.participants =
        {IF r.participantId = id THEN [r EXCEPT ![field] = value] ELSE r : r \in @}]

Frame(minute, lead) == [timestamp |-> minute,
                        gold |-> [p \in 1..4 |-> IF p = 1 THEN 5 + lead ELSE 5]]
Line(lead, towers) == [frames |-> {Frame(10, lead), Frame(15, lead)}, towers |-> towers]
Tower(minute, team) == [timestamp |-> minute, teamId |-> team]

First == Game(1, 1, 1, <<1, 2, 3, 4>>, 100)
Rematch == Game(2, 2, 3, <<1, 2, 3, 4>>, 200)
Swapped == Game(3, 2, 4, <<3, 4, 1, 2>>, 100)
Newest == Game(4, 3, 5, <<1, 2, 3, 5>>, 200)
Oldest == Game(5, 1, 1, <<1, 5, 3, 4>>, 200)
Short == [Game(6, 1, 2, <<1, 2, 3, 4>>, 100) EXCEPT !.gameDuration = 4]
Doubtful == With(Game(7, 2, 2, <<1, 2, 3, 4>>, 100), 1, "individualPosition", "MID")
Fallback == With(Game(8, 2, 2, <<1, 2, 3, 4>>, 100), 1, "teamPosition", Missing)
Unplaced == With(With(Game(9, 2, 3, <<1, 2, 3, 4>>, 100),
                      2, "teamPosition", Missing), 2, "individualPosition", Missing)
TwoTops == With(With(Game(10, 2, 2, <<1, 2, 3, 4>>, 100),
                     2, "teamPosition", "TOP"), 2, "individualPosition", "TOP")
Uneven == With(Game(11, 2, 2, <<1, 2, 3, 4>>, 100), 3, "teamId", 100)
Mirror == Game(12, 2, 2, <<1, 2, 1, 4>>, 100)
Flagged == With(First, 1, "win", FALSE)
FlaggedFallback == [With(Fallback, 1, "win", FALSE) EXCEPT !.match_id = 13]
FlaggedLoser == [With(First, 3, "win", TRUE) EXCEPT !.match_id = 14]
WrongPatch == [First EXCEPT !.match_id = 15, !.public_patch = 2]
Early == Game(16, 2, 2, <<1, 5, 3, 4>>, 200)

Both == Line(2, {Tower(12, 200), Tower(14, 100)})
Late == [frames |-> {Frame(10, 1), Frame(17, 1)}, towers |-> {}]
Blank == [Line(1, {}) EXCEPT !.frames =
             {[f EXCEPT !.gold[3] = Missing] : f \in @}]

MCCandidates ==
    {[payload |-> q[1], timeline |-> q[2]] :
        q \in {<<First, Both>>, <<Rematch, Line(-1, {Tower(16, 100)})>>,
               <<Swapped, Line(1, {Tower(11, 100), Tower(11, 200)})>>,
               <<Newest, Line(-1, {})>>, <<Oldest, Line(3, {Tower(9, 100)})>>,
               <<Short, Both>>, <<Doubtful, Late>>, <<Fallback, Both>>,
               <<Unplaced, Both>>, <<TwoTops, Both>>, <<Uneven, Missing>>,
               <<Mirror, Blank>>, <<Flagged, Both>>, <<FlaggedFallback, Missing>>,
               <<FlaggedLoser, Both>>, <<WrongPatch, Missing>>, <<Early, Line(2, {})>>}}

Elsewhere ==
    {GameOn(Other, q[1], 2, q[2], q[3], q[4], <<"t", "u", "v", "w">>) :
        q \in {<<108, 1, <<1, 2, 3, 4>>, 100>>, <<102, 2, <<3, 2, 1, 4>>, 200>>,
               <<103, 3, <<1, 4, 3, 2>>, 100>>, <<104, 3, <<3, 4, 1, 5>>, 200>>,
               <<105, 4, <<1, 2, 3, 4>>, 100>>, <<106, 4, <<5, 2, 1, 4>>, 200>>,
               <<107, 5, <<1, 2, 5, 4>>, 200>>, <<101, 5, <<3, 2, 1, 4>>, 100>>}}
Retained == {Game(110, 2, 3, <<1, 2, 3, 4>>, 100), Game(109, 2, 5, <<1, 4, 3, 2>>, 200)}
SealedSource(platform, games) ==
    LET counts == PatchCounts(games)
        rows == Canonical(games, platform, counts).rows
    IN  [platform |-> platform, canonical |-> rows,
         timelines |-> [id \in {a.match_id : a \in games} |-> Line(1, {Tower(13, 100)})],
         drafts |-> DraftDataset(rows, Analytical(rows, counts).rows, counts).rows]
MCSealed == {SealedSource(Other, Elsewhere), SealedSource(Platform, Retained)}

MCOuterBlocks == {<<4, 5>>, <<5, 6>>}
=============================================================================
