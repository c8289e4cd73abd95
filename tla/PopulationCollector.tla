------------------------- MODULE PopulationCollector -------------------------
(***************************************************************************)
(* population.PopulationCollector: one population run that is started,     *)
(* crashes or is interrupted, and is resumed from its checkpoint.          *)
(*                                                                         *)
(* mem is state.payload in memory and ckpt the checkpoint file; everything *)
(* between two saves exists in mem only.  Raw payloads, normalized files   *)
(* and catalog rows are written directly to their stores, before the       *)
(* checkpoint records what they mean, so a crash can fall between any two  *)
(* of these writes.  The HTTP client is the one of RequestContract: a call *)
(* spends attempts from what is left of the budget and ends in one of its  *)
(* outcomes.                                                               *)
(***************************************************************************)
EXTENDS Integers, Sequences, FiniteSets, FiniteSetsExt, SequencesExt

CONSTANTS
    Players,             \* puuids
    Matches,             \* match IDs
    Absent,              \* "no value" (None)
    Schedule,            \* the sampling schedule: a sequence of strata, each the
                         \* sequence of players its league pages list
    TierOf,              \* the tier of each stratum of the schedule
    MinPlayersPerTier,
    History,             \* [Players -> Seq(Matches)]: ranked history, newest first
    Worlds,              \* the payload kinds and stores a run may start from
    Grants,              \* request budgets an invocation may be left with
    Targets,             \* config.target_matches: values it may have
    MaxPlayers, MaxMatchIds, MaxRequests,
    BatchSize, MaxHistory, OlderStop, Concurrency, StopOnNewer,
    AttemptsPerCall,     \* what one call may spend (RequestContract)
    MaxInvocations       \* bound: invocations of the command

\* What a payload turns out to be once it is validated and normalized: of the
\* target patch and on the run's platform; of the target patch on another platform;
\* of the patch before (accepted by a window of two); older still; newer; with no
\* resolvable patch; refused by normalize_match; refused by RiotMatch.model_validate.
Kinds == {"target", "platform", "previous", "older", "newer", "unresolved", "malformed",
          "invalid"}

\* Statuses of state.matches; "unknown" is the absence of a record.
MatchStatuses ==
    {"unknown", "pending", "request_failed", "accepted", "external_duplicate",
     "already_cataloged_accepted", "already_cataloged_other", "cached_rejected",
     "outside_patch_window", "outside_patch_window_cached",
     "newer_patch_transition", "newer_patch_transition_cached",
     "unresolved_patch", "rejected_platform_mismatch", "rejected_malformed",
     "rejected_schema"}

OutsideStatuses == {"outside_patch_window", "outside_patch_window_cached",
                    "newer_patch_transition", "newer_patch_transition_cached"}

TerminalPlayer == {"coverage_only", "history_examined", "history_max_reached",
                   "history_old_patch_cutoff"}
PlayerStatuses == TerminalPlayer \cup {"unknown", "discovered", "history_failed",
                                       "request_budget_exhausted"}

\* write_normalized_batch writes one file each for the match, its participants
\* and its teams, in this order, each atomically.
NormalizedFiles == 3

\* Which run's snapshot directory holds a raw payload: this run's or an earlier one's.
Snapshots == {"this", "earlier"}

\* Catalog rows: "processed", or the failure code of a rejected row.
RejectCodes == {"outside_patch_window", "newer_patch_transition", "unresolved_patch",
                "platform_mismatch", "malformed"}

ASSUME CollectorAssumption ==
    /\ Targets \subseteq Nat \ {0}
    /\ {MaxPlayers, MaxMatchIds, MaxRequests, BatchSize, MaxHistory,
        OlderStop, Concurrency, AttemptsPerCall, MaxInvocations} \subseteq Nat \ {0}
    /\ StopOnNewer \in BOOLEAN
    /\ MinPlayersPerTier \in Nat
    /\ Schedule \in Seq(Seq(Players)) /\ Schedule # <<>>
    /\ DOMAIN TierOf = 1 .. Len(Schedule)
    /\ Absent \notin Range(TierOf)
    /\ History \in [Players -> Seq(Matches)]
    /\ Grants \subseteq 0 .. MaxRequests
    /\ IsFiniteSet(Matches)

\* A catalog row: what became of the match and whose snapshot holds the payload.
Rows == [result : RejectCodes \cup {"processed"}, source : Snapshots]

\* The stores a run may start from were written by earlier runs of this program: a
\* processed row has its payload and all its normalized files.
ASSUME WorldsAssumption == \A w \in Worlds :
    /\ w.kind \in [Matches -> Kinds]
    /\ w.external \subseteq Matches
    /\ w.raw \subseteq Snapshots \X Matches
    /\ w.norm \in [Matches -> 0 .. NormalizedFiles]
    /\ w.catalog \in [Matches -> {Absent} \cup Rows]
    /\ \A m \in Matches : w.catalog[m] # Absent /\ w.catalog[m].result = "processed" =>
           w.norm[m] = NormalizedFiles /\ \E s \in Snapshots : <<s, m>> \in w.raw

VARIABLES
    kind,      \* [Matches -> Kinds]: what the API serves for each match
    external,  \* private de-duplication index: IDs held elsewhere
    wide,      \* config.patch_window_size = 2 (a resume may widen it)
    target,    \* config.target_matches (a resume may raise it)
    raw,       \* raw payload files: pairs of a snapshot and a match
    norm,      \* [Matches -> 0..NormalizedFiles]: normalized files written
    catalog,   \* [Matches -> Absent or [result, source]]
    ckpt,      \* the checkpoint file
    mem,       \* state.payload of the running process, Absent without one
    pc,        \* where the process is
    stop,      \* self._stop_reason
    grant,     \* max_requests of this invocation's client
    used,      \* client.metrics.attempted_requests
    todo,      \* players _resume_incomplete_players has yet to visit
    cur,       \* the player at hand
    ret,       \* the loop to return to
    pos,       \* IDs of the pending page already handed to a chunk
    chunk,     \* the chunk of match IDs at hand
    queue,     \* download results not yet processed
    stage,     \* writes done for the first of them
    fetched,   \* payloads downloaded by this invocation, counted per match
    invocations

stores == <<raw, norm, catalog>>
control == <<todo, cur, ret, pos, chunk, queue, stage>>
client == <<grant, used, fetched>>
world == <<kind, external>>
config == <<wide, target>>
vars == <<world, config, stores, ckpt, mem, pc, stop, client, control, invocations>>

-----------------------------------------------------------------------------
NewPlayer == [status |-> "unknown", tier |-> Absent, offset |-> 0, page |-> <<>>, asked |-> 0, old |-> 0]

\* PopulationState.create and the sampling state of _ensure_state_shape.  Strata
\* hold Absent until their candidates are fetched, then the candidates left.
NewState == [players |-> [p \in Players |-> NewPlayer],
             matches |-> [m \in Matches |-> "unknown"],
             rawPath |-> {},
             cursor |-> 0,
             strata |-> [s \in 1 .. Len(Schedule) |-> Absent],
             exhausted |-> {},
             transition |-> FALSE]

AcceptedStatuses == {"accepted", "already_cataloged_accepted"}
Accepted(st) == {m \in Matches : st.matches[m] \in AcceptedStatuses}
AcceptedCount(st) == Cardinality(Accepted(st))
KnownMatches(st) == {m \in Matches : st.matches[m] # "unknown"}
KnownPlayers(st) == {p \in Players : st.players[p].status # "unknown"}

TargetReached == AcceptedCount(mem) >= target

\* What _should_stop and _download_should_stop share.
BoundReached ==
    \/ Cardinality(KnownMatches(mem)) >= MaxMatchIds
    \/ used >= MaxRequests
    \/ stop \in {"request_budget_exhausted", "newer_patch_transition_detected"}

\* _download_should_stop
DownloadShouldStop == TargetReached \/ BoundReached

\* Every tier has players enough, whether or not their history was examined.
CoverageMet == \A t \in Range(TierOf) :
    Cardinality({p \in Players : mem.players[p].tier = t}) >= MinPlayersPerTier

\* _should_stop: sampling goes on past the target until the tiers are covered.
ShouldStop ==
    \/ TargetReached /\ CoverageMet
    \/ BoundReached
    \/ Cardinality(KnownPlayers(mem)) >= MaxPlayers

Remaining == target - AcceptedCount(mem)

\* _find_cached_raw_path: by the record's own raw_path, or in the snapshot that the
\* catalog row names.
CachedRaw(m) == \/ m \in mem.rawPath /\ <<"this", m>> \in raw
                \/ catalog[m] # Absent /\ <<catalog[m].source, m>> \in raw

\* How a client call ends for its caller: "failed" stands for the two outcomes that
\* are handled alike, an HTTP error other than 401/403 and exhausted retries; "auth" for
\* 401/403 and for any other exception that the caller's handlers let through.
CallOutcomes == {"ok", "auth", "failed", "budget"}

\* Mutant of Spends: every call may spend all its attempts, whatever is left.
SpendsFreely(calls, outcome, n) ==
    LET refused == {i \in calls : outcome[i] = "budget"}
    IN  /\ n >= Cardinality(calls \ refused)
        /\ n <= AttemptsPerCall * Cardinality(calls)

\* A non-empty set of concurrent calls ends with these outcomes after spending n
\* attempts together: a call that was not refused spends at least one, and a
\* refused call found nothing left.
Spends(calls, outcome, n) ==
    LET refused == {i \in calls : outcome[i] = "budget"}
    IN  /\ n <= grant - used
        /\ n >= Cardinality(calls \ refused)
        /\ n <= AttemptsPerCall * Cardinality(calls) - Cardinality(refused)
        /\ refused # {} => n = grant - used

\* One call ends with `outcome`.
Call(outcome) == \E n \in 0 .. MaxRequests :
    /\ Spends({1}, <<outcome>>, n)
    /\ used' = used + n

Save(st) == /\ mem' = st
            /\ ckpt' = st

Keep(st) == /\ mem' = st
            /\ UNCHANGED ckpt

WithPlayer(st, p, rec) == [st EXCEPT !.players[p] = rec]
WithMatch(st, m, status) == [st EXCEPT !.matches[m] = status]

-----------------------------------------------------------------------------
Init == \E w \in Worlds :
        /\ kind = w.kind
        /\ external = w.external
        /\ wide \in BOOLEAN
        /\ target \in Targets
        /\ raw = w.raw
        /\ norm = w.norm
        /\ catalog = w.catalog
        /\ ckpt = NewState
        /\ mem = Absent
        /\ pc = "idle"
        /\ stop = "bounds_exhausted"
        /\ grant = 0
        /\ used = 0
        /\ todo = {}
        /\ cur = Absent
        /\ ret = "sample"
        /\ pos = 0
        /\ chunk = <<>>
        /\ queue = <<>>
        /\ stage = 0
        /\ fetched = [m \in Matches |-> 0]
        /\ invocations = 0

\* Mutant of InitialStop: a resumed run forgets that it is sealed.
InitialStopForgets == "bounds_exhausted"

\* self._stop_reason as __init__ sets it.
InitialStop == IF StopOnNewer /\ ckpt.transition THEN "newer_patch_transition_detected"
                                                 ELSE "bounds_exhausted"

\* The command is started or resumed, perhaps with the window widened and the
\* target raised (the extensions that validate_checkpoint_extension permits): load the
\* checkpoint, __init__ (which saves), and the head of collect, which makes failed
\* requests pending again in memory.
Start ==
    /\ pc = "idle"
    /\ invocations < MaxInvocations
    /\ invocations' = invocations + 1
    /\ mem' = [ckpt EXCEPT !.matches =
                  [m \in Matches |-> IF @[m] = "request_failed" THEN "pending" ELSE @[m]]]
    /\ stop' = InitialStop
    /\ grant' \in Grants
    /\ used' = 0
    /\ fetched' = [m \in Matches |-> 0]
    /\ wide' \in {wide, TRUE}
    /\ target' \in {t \in Targets : t >= target}
    /\ pc' = "migrate"
    /\ todo' = {}
    /\ cur' = Absent
    /\ ret' = "migrate"
    /\ pos' = 0
    /\ chunk' = <<>>
    /\ queue' = <<>>
    /\ stage' = 0
    /\ UNCHANGED <<world, stores, ckpt>>

\* The payload's public patch is one of config.accepted_public_patches.
InWindow(m) == kind[m] \in IF wide THEN {"target", "platform", "previous"}
                                   ELSE {"target", "platform"}

\* _process_download takes the payload.
Acceptable(m) == InWindow(m) /\ kind[m] # "platform"

\* _migrate_window_eligible_records: records of out-of-window payloads that the
\* window now accepts are processed again from the retained payload, or made pending
\* when there is none.
MigrateRecords ==
    /\ pc = "migrate"
    /\ LET eligible == {m \in Matches : mem.matches[m] \in OutsideStatuses /\ InWindow(m)}
           retained == {m \in eligible : CachedRaw(m)}
       IN  /\ Keep([mem EXCEPT !.matches = [m \in Matches |->
                       IF m \in eligible \ retained THEN "pending" ELSE @[m]]])
           /\ \E list \in SetToSeqs(retained) :
                  queue' = [i \in 1 .. Len(list) |-> [match |-> list[i], outcome |-> "cached"]]
    /\ pc' = "results"
    /\ UNCHANGED <<world, config, stores, stop, client, todo, cur, ret, pos, chunk, stage, invocations>>

-----------------------------------------------------------------------------
(* Downloads: asyncio.gather over a list of pending matches.               *)

\* Every match of `list` is loaded from a retained payload or downloaded; the calls
\* run concurrently and all of them end before the first result is processed.
GatherDownloads(list) ==
    \E outcome \in [1 .. Len(list) -> CallOutcomes \cup {"cached"}], n \in 0 .. MaxRequests :
        LET calls == {i \in 1 .. Len(list) : outcome[i] # "cached"}
        IN  /\ \A i \in 1 .. Len(list) : outcome[i] = "cached" <=> CachedRaw(list[i])
            /\ Spends(calls, outcome, n)
            /\ used' = used + n
            /\ queue' = [i \in 1 .. Len(list) |-> [match |-> list[i], outcome |-> outcome[i]]]
            /\ fetched' = [m \in Matches |->
                  fetched[m] + Cardinality({i \in calls : list[i] = m /\ outcome[i] = "ok"})]
            /\ stage' = 0
            /\ pc' = "results"
            /\ UNCHANGED grant

PendingMatches == {m \in Matches : mem.matches[m] = "pending"}

\* One pass of the _download_pending loop: the first pending matches of the
\* checkpoint's order (any order here), no more than the target still lacks.
DownloadPending ==
    /\ pc = "pending"
    /\ ~DownloadShouldStop
    /\ PendingMatches # {}
    /\ LET n == Min({Concurrency, Remaining, Cardinality(PendingMatches)})
       IN  \E list \in [1 .. n -> PendingMatches] :
               /\ \A i, j \in 1 .. n : list[i] = list[j] => i = j
               /\ GatherDownloads(list)
    /\ UNCHANGED <<world, config, stores, ckpt, mem, stop, todo, cur, ret, pos, chunk, invocations>>

\* The loop ends; collect goes on to _resume_incomplete_players.
PendingDone ==
    /\ pc = "pending"
    /\ DownloadShouldStop \/ PendingMatches = {}
    /\ pc' = "resume"
    /\ todo' = KnownPlayers(mem)
    /\ UNCHANGED <<world, config, stores, ckpt, mem, stop, client, cur, ret, pos, chunk, queue,
                   stage, invocations>>

-----------------------------------------------------------------------------
(* Results, one after the other: _process_download writes the raw payload, *)
(* the normalized files and the catalog row, then the record in memory.    *)

Result == Head(queue)

\* Whether the results belong to a history chunk, or else to the migration of records
\* or to _download_pending.
InChunk == chunk # <<>>
Migrating == ret = "migrate"

\* The head result is dealt with.
PopResult == /\ queue' = Tail(queue)
             /\ stage' = 0

Fresh == Result.outcome = "ok"

\* A fresh payload is validated by the client before anything is stored: one that
\* RiotMatch.model_validate refuses is recorded in memory only.
ResultUnusable ==
    /\ pc = "results"
    /\ queue # <<>>
    /\ \/ /\ Fresh /\ kind[Result.match] = "invalid"
          /\ Keep(WithMatch(mem, Result.match, "rejected_schema"))
          /\ PopResult
          /\ UNCHANGED <<pc, stop>>
       \/ /\ Result.outcome = "failed"
          /\ Keep(WithMatch(mem, Result.match, "request_failed"))
          /\ PopResult
          /\ UNCHANGED <<pc, stop>>
       \* A refused call marks the match failed in a chunk and ends _download_pending,
       \* which drops the results behind it and does not save.
       \/ /\ Result.outcome = "budget"
          /\ stop' = "request_budget_exhausted"
          /\ \/ /\ InChunk
                /\ Keep(WithMatch(mem, Result.match, "request_failed"))
                /\ PopResult
                /\ UNCHANGED pc
             \/ /\ ~InChunk
                /\ queue' = <<>>
                /\ stage' = 0
                /\ pc' = "pending"
                /\ UNCHANGED <<mem, ckpt>>
    /\ UNCHANGED <<world, config, stores, client, todo, cur, ret, pos, chunk, invocations>>

Usable == /\ queue # <<>>
          /\ Result.outcome \in {"ok", "cached"}
          /\ kind[Result.match] # "invalid"

\* atomic_write_json of a fresh payload, then raw_path in the record.
WriteRaw ==
    /\ pc = "results"
    /\ Usable
    /\ Fresh
    /\ stage = 0
    /\ raw' = raw \cup {<<"this", Result.match>>}
    /\ Keep([mem EXCEPT !.rawPath = @ \cup {Result.match}])
    /\ stage' = 1
    /\ UNCHANGED <<world, config, norm, catalog, pc, stop, client, todo, cur, ret, pos, chunk,
                   queue, invocations>>

RawDone == Usable /\ stage = (IF Fresh THEN 1 ELSE 0)

\* The failure code under which a payload is rejected.
RejectCode(k) ==
    CASE k \in {"previous", "older"} -> "outside_patch_window"
      [] k = "newer" -> IF StopOnNewer THEN "newer_patch_transition"
                                       ELSE "outside_patch_window"
      [] k = "unresolved" -> "unresolved_patch"
      [] k = "platform" -> "platform_mismatch"
      [] k = "malformed" -> "malformed"

\* The record's status for a failure code.
RejectStatus(code) == CASE code = "platform_mismatch" -> "rejected_platform_mismatch"
                        [] code = "malformed" -> "rejected_malformed"
                        [] OTHER -> code

\* catalog.record_rejected leaves a processed row alone; any other row is replaced
\* and names this run's snapshot, wherever the payload was read from.
RecordRejected ==
    /\ pc = "results"
    /\ RawDone
    /\ ~Acceptable(Result.match)
    /\ LET m == Result.match
           code == RejectCode(kind[m])
       IN  /\ catalog' = IF catalog[m] # Absent /\ catalog[m].result = "processed"
                         THEN catalog
                         ELSE [catalog EXCEPT ![m] = [result |-> code, source |-> "this"]]
           /\ Keep([WithMatch(mem, m, RejectStatus(code)) EXCEPT
                      !.transition = @ \/ code = "newer_patch_transition"])
           /\ stop' = IF code = "newer_patch_transition"
                      THEN "newer_patch_transition_detected" ELSE stop
    /\ PopResult
    /\ UNCHANGED <<world, config, raw, norm, pc, client, todo, cur, ret, pos, chunk, invocations>>

\* Normalized files already written for the head result in this pass.
FilesWritten == IF Fresh THEN stage - 1 ELSE stage

\* write_normalized_batch: one of its three atomic file replacements.
WriteNormalizedFile ==
    /\ pc = "results"
    /\ Usable
    /\ Acceptable(Result.match)
    /\ FilesWritten \in 0 .. NormalizedFiles - 1
    /\ norm' = [norm EXCEPT ![Result.match] = Max({@, FilesWritten + 1})]
    /\ stage' = stage + 1
    /\ UNCHANGED <<world, config, raw, catalog, ckpt, mem, pc, stop, client, todo, cur, ret, pos,
                   chunk, queue, invocations>>

\* Mutant of RecordProcessed: the row is written before the files are complete.
RecordProcessedEarly ==
    /\ pc = "results"
    /\ Usable
    /\ Acceptable(Result.match)
    /\ FilesWritten \in 0 .. NormalizedFiles
    /\ catalog' = [catalog EXCEPT ![Result.match] = [result |-> "processed", source |-> "this"]]
    /\ Keep(WithMatch(mem, Result.match, "accepted"))
    /\ PopResult
    /\ UNCHANGED <<world, config, raw, norm, pc, stop, client, todo, cur, ret, pos, chunk,
                   invocations>>

\* catalog.record_processed, then the accepted status in memory.
RecordProcessed ==
    /\ pc = "results"
    /\ Usable
    /\ Acceptable(Result.match)
    /\ FilesWritten = NormalizedFiles
    /\ catalog' = [catalog EXCEPT ![Result.match] = [result |-> "processed", source |-> "this"]]
    /\ Keep(WithMatch(mem, Result.match, "accepted"))
    /\ PopResult
    /\ UNCHANGED <<world, config, raw, norm, pc, stop, client, todo, cur, ret, pos, chunk, invocations>>

\* A 401/403 result is raised, and so is a store that fails to write: collect ends,
\* and the results behind it are dropped.  A rejection has set the record's status
\* before its catalog row fails.
ResultRaises ==
    /\ pc = "results"
    /\ queue # <<>>
    /\ \/ /\ \/ Result.outcome = "auth"
             \/ Usable /\ (RawDone => Acceptable(Result.match))
          /\ UNCHANGED <<mem, ckpt>>
       \/ /\ RawDone
          /\ ~Acceptable(Result.match)
          /\ Keep(WithMatch(mem, Result.match, RejectStatus(RejectCode(kind[Result.match]))))
    /\ pc' = "abort"
    /\ queue' = <<>>
    /\ stage' = 0
    /\ UNCHANGED <<world, config, stores, stop, client, todo, cur, ret, pos, chunk, invocations>>

\* Every result is processed: the checkpoint is saved, except by the migration, and
\* control goes on.
ResultsDone ==
    /\ pc = "results"
    /\ queue = <<>>
    /\ IF Migrating THEN UNCHANGED <<mem, ckpt>> ELSE Save(mem)
    /\ ret' = IF Migrating THEN "sample" ELSE ret
    /\ pc' = IF InChunk THEN "relations" ELSE "pending"
    /\ UNCHANGED <<world, config, stores, stop, client, todo, cur, pos, chunk, queue, stage,
                   invocations>>

-----------------------------------------------------------------------------
(* Players: _resume_incomplete_players, _collect_balanced, _examine_player. *)

\* Control moves on and nothing else does.
MoveTo(where) == /\ pc' = where
                 /\ UNCHANGED <<world, config, stores, ckpt, mem, stop, client, control, invocations>>

\* The history of player p is continued, then control returns to `from`.
EnterHistory(p, from) == /\ pc' = "history"
                         /\ cur' = p
                         /\ ret' = from

ResumePlayer ==
    /\ pc = "resume"
    /\ ~ShouldStop
    /\ \E p \in todo :
          /\ todo' = todo \ {p}
          /\ IF mem.players[p].status \in TerminalPlayer THEN UNCHANGED <<pc, cur, ret>>
                                                       ELSE EnterHistory(p, "resume")
    /\ UNCHANGED <<world, config, stores, ckpt, mem, stop, client, pos, chunk, queue, stage, invocations>>

ResumeDone == /\ pc = "resume"
              /\ ShouldStop \/ todo = {}
              /\ MoveTo("sample")

\* The balanced loop's next stratum, the one that it took before, and the state with
\* the cursor moved past the next.
Stratum == (mem.cursor % Len(Schedule)) + 1
LastStratum == ((mem.cursor - 1) % Len(Schedule)) + 1
CursorMoved == [mem EXCEPT !.cursor = @ + 1]

\* _next_candidate takes one candidate from the stratum's list, or finds the list
\* empty and the stratum exhausted; then the balanced loop saves.
TakeCandidate(st) ==
    LET list == st.strata[Stratum]
    IN  IF list = <<>>
        THEN /\ Save([st EXCEPT !.exhausted = @ \cup {Stratum}])
             /\ UNCHANGED <<pc, cur>>
        ELSE /\ Save([st EXCEPT !.strata[Stratum] = Tail(list)])
             /\ cur' = Head(list)
             /\ pc' = "examine"

Sampling == /\ pc = "sample"
            /\ ~ShouldStop
            /\ Cardinality(mem.exhausted) < Len(Schedule)

\* A stratum whose candidates the checkpoint holds: no request.
SampleKnownStratum ==
    /\ Sampling
    /\ mem.strata[Stratum] # Absent
    /\ TakeCandidate(CursorMoved)
    /\ UNCHANGED <<world, config, stores, stop, client, todo, ret, pos, chunk, queue, stage, invocations>>

\* A stratum that is fetched first (discover_league_entries).  A failed fetch stores
\* an empty list; a refused one stores none; 401/403 is raised.
SampleNewStratum ==
    /\ Sampling
    /\ mem.strata[Stratum] = Absent
    /\ \/ /\ Call("ok")
          /\ TakeCandidate([CursorMoved EXCEPT !.strata[Stratum] = Schedule[Stratum]])
          /\ UNCHANGED stop
       \/ /\ Call("failed")
          /\ TakeCandidate([CursorMoved EXCEPT !.strata[Stratum] = <<>>])
          /\ UNCHANGED stop
       \/ /\ Call("budget")
          /\ stop' = "request_budget_exhausted"
          /\ Save(CursorMoved)
          /\ UNCHANGED <<pc, cur>>
       \/ /\ Call("auth")
          /\ Keep(CursorMoved)
          /\ pc' = "abort"
          /\ UNCHANGED <<stop, cur>>
    /\ UNCHANGED <<world, config, stores, grant, fetched, todo, ret, pos, chunk, queue, stage, invocations>>

SamplingDone == /\ pc = "sample"
                /\ ShouldStop \/ Cardinality(mem.exhausted) >= Len(Schedule)
                /\ MoveTo("closing")

\* The candidate's puuid is known: a player seen before is continued unless its
\* history is finished; a new one is added and saved, and its history examined
\* unless the target is reached already.
PuuidKnown(p) ==
    LET added == [NewPlayer EXCEPT !.status = "discovered", !.tier = TierOf[LastStratum]]
    IN  IF p \in KnownPlayers(mem)
        THEN /\ UNCHANGED <<mem, ckpt>>
             /\ IF mem.players[p].status \in TerminalPlayer
                THEN pc' = "sample" /\ UNCHANGED <<cur, ret>>
                ELSE EnterHistory(p, "sample")
        ELSE IF Cardinality(KnownPlayers(mem)) >= MaxPlayers
        THEN pc' = "sample" /\ UNCHANGED <<mem, ckpt, cur, ret>>
        ELSE /\ Save(WithPlayer(mem, p, added))
             /\ IF TargetReached THEN pc' = "cover" /\ UNCHANGED <<cur, ret>>
                                 ELSE EnterHistory(p, "sample")

\* A player sampled past the target counts for the tier coverage only: a second save.
CoverOnly ==
    /\ pc = "cover"
    /\ Save(WithPlayer(mem, cur, [mem.players[cur] EXCEPT !.status = "coverage_only"]))
    /\ pc' = "sample"
    /\ UNCHANGED <<world, config, stores, stop, client, control, invocations>>

\* _examine_player: the league entry carries the puuid, or a summoner call resolves
\* it; a candidate that cannot be resolved, or has no identifier, is skipped.
ExaminePlayer ==
    /\ pc = "examine"
    /\ \/ PuuidKnown(cur) /\ UNCHANGED <<used, stop>>
       \/ pc' = "sample" /\ UNCHANGED <<mem, ckpt, used, stop, cur, ret>>
       \/ Call("ok") /\ PuuidKnown(cur) /\ UNCHANGED stop
       \/ /\ Call("failed")
          /\ pc' = "sample"
          /\ UNCHANGED <<mem, ckpt, stop, cur, ret>>
       \/ /\ Call("budget")
          /\ stop' = "request_budget_exhausted"
          /\ pc' = "sample"
          /\ UNCHANGED <<mem, ckpt, cur, ret>>
       \/ /\ Call("auth")
          /\ pc' = "abort"
          /\ UNCHANGED <<mem, ckpt, stop, cur, ret>>
    /\ UNCHANGED <<world, config, stores, grant, fetched, todo, pos, chunk, queue, stage, invocations>>

-----------------------------------------------------------------------------
(* One player's history: _continue_player_history, _process_history_ids.   *)

Player == mem.players[cur]

\* Save the player at hand as `rec` and return to the caller's loop.
LeaveWith(rec) == /\ Save(WithPlayer(mem, cur, rec))
                  /\ pc' = ret

\* The loop ends without a save when downloads should stop.
HistoryStops == /\ pc = "history"
                /\ DownloadShouldStop
                /\ MoveTo(ret)

HistoryMaxReached ==
    /\ pc = "history"
    /\ ~DownloadShouldStop
    /\ Player.page = <<>>
    /\ Player.offset >= MaxHistory
    /\ LeaveWith([Player EXCEPT !.status = "history_max_reached"])
    /\ UNCHANGED <<world, config, stores, stop, client, control, invocations>>

\* The IDs the API returns for a page of at most `count` from the player's offset.
PageAt(count) == SubSeq(History[cur], Player.offset + 1,
                        Min({Player.offset + count, Len(History[cur])}))

\* No pending page: the next one is requested and saved before it is processed.  An
\* empty one is saved as well, and then ends the history as PageDone does.
FetchPage ==
    /\ pc = "history"
    /\ ~DownloadShouldStop
    /\ Player.page = <<>>
    /\ Player.offset < MaxHistory
    /\ LET count == Min({BatchSize, MaxHistory - Player.offset})
           fetchedPlayer == [Player EXCEPT !.page = PageAt(count), !.asked = count]
       IN  \/ /\ Call("ok")
              /\ Save(WithPlayer(mem, cur, fetchedPlayer))
              /\ pc' = "page"
              /\ UNCHANGED stop
           \/ /\ Call("budget")
              /\ LeaveWith([Player EXCEPT !.status = "request_budget_exhausted"])
              /\ stop' = "request_budget_exhausted"
           \/ /\ Call("failed")
              /\ LeaveWith([Player EXCEPT !.status = "history_failed"])
              /\ UNCHANGED stop
           \/ /\ Call("auth")
              /\ pc' = "abort"
              /\ UNCHANGED <<mem, ckpt, stop>>
    /\ pos' = 0
    /\ UNCHANGED <<world, config, stores, grant, fetched, todo, cur, ret, chunk, queue, stage, invocations>>

\* A page left pending by an earlier invocation is processed from its start.
ResumePage ==
    /\ pc = "history"
    /\ ~DownloadShouldStop
    /\ Player.page # <<>>
    /\ pc' = "page"
    /\ pos' = 0
    /\ UNCHANGED <<world, config, stores, ckpt, mem, stop, client, todo, cur, ret, chunk, queue,
                   stage, invocations>>

\* The page's next chunk of at most `concurrency` IDs.
NextChunk ==
    /\ pc = "page"
    /\ pos < Len(Player.page)
    /\ ~DownloadShouldStop
    /\ chunk' = SubSeq(Player.page, pos + 1, Min({pos + Concurrency, Len(Player.page)}))
    /\ queue' = chunk'
    /\ pc' = "register"
    /\ UNCHANGED <<world, config, stores, ckpt, mem, stop, client, todo, cur, ret, pos, stage, invocations>>

\* Mutant of RegisteredStatus: the private index is not consulted.
RegisteredIgnoringIndex(m) ==
    IF catalog[m] = Absent THEN "pending"
    ELSE CASE catalog[m].result = "processed" ->
                  IF InWindow(m) THEN "already_cataloged_accepted" ELSE "already_cataloged_other"
           [] catalog[m].result = "outside_patch_window" ->
                  IF InWindow(m) THEN "pending" ELSE "outside_patch_window_cached"
           [] catalog[m].result = "newer_patch_transition" -> "newer_patch_transition_cached"
           [] OTHER -> "cached_rejected"

\* Mutant of RegisteredStatus: a processed row is credited whatever its patch.
RegisteredAnyRow(m) ==
    IF m \in external THEN "external_duplicate"
    ELSE IF catalog[m] = Absent THEN "pending"
    ELSE IF catalog[m].result = "processed" THEN "already_cataloged_accepted"
    ELSE "cached_rejected"

\* The status under which _register_match records a match it sees for the first
\* time, from the private index and the catalog row.
RegisteredStatus(m) ==
    IF m \in external THEN "external_duplicate"
    ELSE IF catalog[m] = Absent THEN "pending"
    ELSE CASE catalog[m].result = "processed" ->
                  IF InWindow(m) THEN "already_cataloged_accepted" ELSE "already_cataloged_other"
           [] catalog[m].result = "outside_patch_window" ->
                  IF InWindow(m) THEN "pending" ELSE "outside_patch_window_cached"
           [] catalog[m].result = "newer_patch_transition" -> "newer_patch_transition_cached"
           [] OTHER -> "cached_rejected"

\* Mutant of RegisterMatch: a match seen before is registered again.
RegisterAgain ==
    /\ pc = "register"
    /\ queue # <<>>
    /\ Keep(WithMatch(mem, Head(queue), RegisteredStatus(Head(queue))))
    /\ queue' = Tail(queue)
    /\ UNCHANGED <<world, config, stores, pc, stop, client, todo, cur, ret, pos, chunk, stage,
                   invocations>>

\* _register_match of the next ID of the chunk (the IDs yet to register wait in
\* queue).  A match seen before is left as it is; a new one is recorded unless the
\* match bound is reached.  Nothing is saved and nothing awaited.
RegisterMatch ==
    /\ pc = "register"
    /\ queue # <<>>
    /\ LET m == Head(queue)
           status == RegisteredStatus(m)
           sealed == StopOnNewer /\ status = "newer_patch_transition_cached"
       IN  IF mem.matches[m] # "unknown"
           THEN UNCHANGED <<mem, ckpt, stop>>
           ELSE IF Cardinality(KnownMatches(mem)) >= MaxMatchIds
           THEN stop' = "maximum_match_ids_reached" /\ UNCHANGED <<mem, ckpt>>
           ELSE /\ Keep([WithMatch(mem, m, status) EXCEPT !.transition = @ \/ sealed])
                /\ stop' = IF sealed THEN "newer_patch_transition_detected" ELSE stop
    /\ queue' = Tail(queue)
    /\ UNCHANGED <<world, config, stores, pc, client, todo, cur, ret, pos, chunk, stage, invocations>>

\* Mutant of ChunkPending: the chunk is not cut to what the target lacks.
ChunkPendingUncut == {i \in DOMAIN chunk : mem.matches[chunk[i]] = "pending"}

\* Where in the chunk its pending matches are, at most as many as the target still lacks.
ChunkPending ==
    LET pending == {i \in DOMAIN chunk : mem.matches[chunk[i]] = "pending"}
    IN  {i \in pending : Cardinality({j \in pending : j <= i}) <= Remaining}

\* They are gathered in the chunk's order.
DownloadChunk ==
    /\ pc = "register"
    /\ queue = <<>>
    /\ \E at \in [1 .. Cardinality(ChunkPending) -> ChunkPending] :
          /\ \A i, j \in DOMAIN at : i < j => at[i] < at[j]
          /\ GatherDownloads([i \in DOMAIN at |-> chunk[at[i]]])
    /\ UNCHANGED <<world, config, stores, ckpt, mem, stop, todo, cur, ret, pos, chunk, invocations>>

\* _patch_relation is "older" for a record whose stored patch is below the window;
\* a record has a patch once its payload was processed, by this run or another.
OlderRelation(m) ==
    /\ kind[m] \in {"previous", "older"}
    /\ ~InWindow(m)
    /\ mem.matches[m] \notin {"unknown", "pending", "request_failed", "external_duplicate"}

\* The consecutive-older count after the first n relations of the chunk.
OlderAfter(n) ==
    LET reset == {i \in 1 .. n : ~OlderRelation(chunk[i])}
    IN  IF reset = {} THEN Player.old + n ELSE n - Max(reset)

\* The page is finished, or abandoned: all of it counts as examined.
FinishPage(old, status) ==
    /\ LeaveWith([Player EXCEPT !.old = old, !.offset = @ + Len(Player.page),
                                !.page = <<>>, !.status = status])

\* The older-patch cutoff is reached within the chunk: the player is done.
OlderCutoff ==
    /\ pc = "relations"
    /\ \E n \in 1 .. Len(chunk) :
          /\ OlderAfter(n) >= OlderStop
          /\ \A k \in 1 .. n - 1 : OlderAfter(k) < OlderStop
          /\ FinishPage(OlderAfter(n), "history_old_patch_cutoff")
    /\ chunk' = <<>>
    /\ UNCHANGED <<world, config, stores, stop, client, todo, cur, ret, pos, queue, stage, invocations>>

\* Otherwise the counts are saved and the page goes on.
ChunkDone ==
    /\ pc = "relations"
    /\ \A n \in 1 .. Len(chunk) : OlderAfter(n) < OlderStop
    /\ Save(WithPlayer(mem, cur, [Player EXCEPT !.old = OlderAfter(Len(chunk))]))
    /\ pos' = pos + Len(chunk)
    /\ chunk' = <<>>
    /\ pc' = "page"
    /\ UNCHANGED <<world, config, stores, stop, client, todo, cur, ret, queue, stage, invocations>>

\* Mutant of PageDone: the page stays pending and the offset where it was.
PageDoneKeepsPage ==
    /\ pc = "page"
    /\ pos >= Len(Player.page) \/ DownloadShouldStop
    /\ Save(mem)
    /\ pc' = "history"
    /\ UNCHANGED <<world, config, stores, stop, client, control, invocations>>

\* _process_history_ids returns False at the page's end and also when downloads
\* should stop within the page; its caller makes no difference between the two.
PageDone ==
    /\ pc = "page"
    /\ pos >= Len(Player.page) \/ DownloadShouldStop
    /\ IF Len(Player.page) < Player.asked
       THEN FinishPage(Player.old, "history_examined")
       ELSE /\ Save(WithPlayer(mem, cur, [Player EXCEPT !.offset = @ + Len(Player.page),
                                                        !.page = <<>>]))
            /\ pc' = "history"
    /\ UNCHANGED <<world, config, stores, stop, client, control, invocations>>

-----------------------------------------------------------------------------
(* The end of an invocation.                                               *)

\* The process is gone and with it everything in memory.
Exit == /\ pc' = "idle"
        /\ mem' = Absent
        /\ stop' = "bounds_exhausted"
        /\ grant' = 0
        /\ used' = 0
        /\ fetched' = [m \in Matches |-> 0]
        /\ todo' = {}
        /\ cur' = Absent
        /\ ret' = "sample"
        /\ pos' = 0
        /\ chunk' = <<>>
        /\ queue' = <<>>
        /\ stage' = 0
        /\ UNCHANGED <<world, config, stores, invocations>>

\* collect returns: the finally block saves, the summary is saved with it.
Complete == /\ pc = "closing"
            /\ ckpt' = mem
            /\ Exit

\* An exception ends collect: the same finally block saves what is in memory.
Abort == /\ pc = "abort"
         /\ ckpt' = mem
         /\ Exit

\* The await points at which a cancelled task can be; in the balanced loop the
\* cursor has been moved by then.
AtAwait == \/ pc = "pending" /\ ~DownloadShouldStop /\ PendingMatches # {}
           \/ pc = "sample" /\ Sampling /\ mem.strata[Stratum] = Absent
           \/ pc = "examine"
           \/ pc = "history" /\ ~DownloadShouldStop /\ Player.page = <<>>
           \/ pc = "register" /\ queue = <<>>

\* Ctrl-C cancels the task at an await point; collect's finally block saves.
Interrupt == /\ AtAwait
             /\ ckpt' = IF pc = "sample" THEN CursorMoved ELSE mem
             /\ Exit

\* The process dies anywhere: nothing is saved.
Crash == /\ pc # "idle"
         /\ Exit
         /\ UNCHANGED ckpt

Collect == \/ MigrateRecords \/ DownloadPending \/ PendingDone
           \/ ResultUnusable \/ WriteRaw \/ RecordRejected
           \/ WriteNormalizedFile \/ RecordProcessed \/ ResultRaises \/ ResultsDone
           \/ ResumePlayer \/ ResumeDone
           \/ SampleKnownStratum \/ SampleNewStratum \/ SamplingDone \/ ExaminePlayer \/ CoverOnly
           \/ HistoryStops \/ HistoryMaxReached \/ FetchPage \/ ResumePage
           \/ NextChunk \/ RegisterMatch \/ DownloadChunk
           \/ OlderCutoff \/ ChunkDone \/ PageDone
           \/ Complete \/ Abort

Next == Start \/ Collect \/ Interrupt \/ Crash

\* A running process keeps running: every await it makes ends (RiotClient's
\* EveryCallEnds) and nothing else blocks it.  Nothing obliges anybody to start,
\* interrupt or crash it.
Spec == Init /\ [][Next]_vars /\ WF_vars(Collect)

-----------------------------------------------------------------------------
PlayerType == [status : PlayerStatuses, tier : {Absent} \cup Range(TierOf), offset : Nat,
               page : Seq(Matches), asked : Nat, old : Nat]

StateType == [players : [Players -> PlayerType],
              matches : [Matches -> MatchStatuses],
              rawPath : SUBSET Matches,
              cursor : Nat,
              strata : [1 .. Len(Schedule) -> {Absent} \cup Seq(Players)],
              exhausted : SUBSET (1 .. Len(Schedule)),
              transition : BOOLEAN]

\* "No value" is none of the values.
ASSUME AbsentAssumption == Absent \notin Rows \cup StateType

TypeOK == /\ kind \in [Matches -> Kinds]
          /\ external \subseteq Matches
          /\ wide \in BOOLEAN
          /\ target \in Targets
          /\ raw \subseteq Snapshots \X Matches
          /\ norm \in [Matches -> 0 .. NormalizedFiles]
          /\ catalog \in [Matches -> {Absent} \cup Rows]
          /\ ckpt \in StateType
          /\ mem \in {Absent} \cup StateType
          /\ grant \in 0 .. MaxRequests
          /\ used \in 0 .. grant
          /\ fetched \in [Matches -> Nat]
          /\ invocations \in 0 .. MaxInvocations

\* The stores are written in dependency order (raw payload, normalized files,
\* catalog row, checkpoint), so whatever crashes, a processed catalog row has its
\* payload and all its normalized files, and an accepted match of the checkpoint has
\* a processed row.
StoresInOrder ==
    \A m \in Matches :
        /\ catalog[m] # Absent /\ catalog[m].result = "processed" =>
               norm[m] = NormalizedFiles /\ \E s \in Snapshots : <<s, m>> \in raw
        /\ ckpt.matches[m] \in AcceptedStatuses =>
               catalog[m] # Absent /\ catalog[m].result = "processed"

\* A processed row and an accepted match stay so through every later invocation,
\* crash, retry and rejection: credited work is never lost or withdrawn.
CreditIsFinal ==
    [][\A m \in Matches :
           /\ catalog[m] # Absent /\ catalog[m].result = "processed" =>
                  catalog'[m] # Absent /\ catalog'[m].result = "processed"
           /\ ckpt.matches[m] \in AcceptedStatuses => ckpt'.matches[m] = ckpt.matches[m]]_vars

\* No payload is downloaded twice by one invocation, whichever players share it and
\* whatever fails, and none that the private index holds is downloaded at all.
NoWastedDownload == \A m \in Matches : fetched[m] <= IF m \in external THEN 0 ELSE 1

\* What is credited, afresh, from the catalog or by a migration, is inside the window
\* that the checkpoint is resumed with.
CreditInWindow == \A m \in Matches : ckpt.matches[m] \in AcceptedStatuses => InWindow(m)

\* No download is credited once the target is reached: the pending matches of a
\* chunk are cut to what the target still lacks after its cached matches count.
DownloadsStopAtTarget ==
    [][(/\ mem # Absent
        /\ mem' # Absent
        /\ \E m \in Matches : mem.matches[m] = "pending" /\ mem'.matches[m] = "accepted")
       => AcceptedCount(mem) < target]_mem

\* Once a newer-patch payload has sealed the run, no invocation makes another
\* request, except the payloads of the chunk in which it was found.
SealedRunMakesNoRequest ==
    [][mem # Absent /\ mem.transition /\ pc # "register" => used' <= used]_vars

\* Every invocation comes to an end.
InvocationEnds == (pc # "idle") ~> (pc = "idle")

\* The pending page and the offset make resume exact: unless the older-patch cutoff
\* gave a player's page up, every match ID up to the player's saved offset is known to
\* the checkpoint, so no resume can have skipped one.
ExaminedIdsAreKnown ==
    \A p \in Players : ckpt.players[p].status # "history_old_patch_cutoff" =>
        \A i \in 1 .. Min({ckpt.players[p].offset, Len(History[p])}) :
            ckpt.matches[History[p][i]] # "unknown"

\* Collection stops at the exact unique target, whether matches are downloaded or
\* credited from the catalog.
ExactTarget == AcceptedCount(ckpt) <= target

\* Only matches of the run's own platform are credited to it: a payload of another
\* platform is rejected, and its catalog row is no way around that.
OwnPlatformOnly ==
    \A m \in Matches : ckpt.matches[m] \in AcceptedStatuses => kind[m] # "platform"

\* A run is sealed only by a payload that is newer than its own target patch.
SealMeansNewer == ckpt.transition => \E m \in Matches : kind[m] = "newer"
=============================================================================
