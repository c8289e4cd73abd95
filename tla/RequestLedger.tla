---------------------------- MODULE RequestLedger ----------------------------
(***************************************************************************)
(* How collect_population and population.PopulationCollector account for   *)
(* HTTP attempts across crashes and resumes, so that one run never spends  *)
(* more than config.max_requests however often it is restarted.            *)
(*                                                                         *)
(* The collector is reduced to what the ledger can tell apart: where it    *)
(* makes calls and where it saves.  Which way it goes between them depends *)
(* on players, matches and outcomes (PopulationCollector.tla) and is left  *)
(* open here.  The sampling strategy is the default, "balanced".           *)
(***************************************************************************)
EXTENDS Naturals

CONSTANTS
    AttemptsPerCall,     \* max_retries + 1 of the client, and
                         \* maximum_attempts_per_call of the recovery
    PagesPerStratum,
    Concurrency,
    Ceilings,            \* values config.max_requests may have
    MaxInvocations       \* bound: invocations of the command

ASSUME LedgerAssumption ==
    /\ AttemptsPerCall \in Nat \ {0}
    /\ PagesPerStratum \in Nat \ {0}
    /\ Concurrency \in Nat \ {0}
    /\ Ceilings \subseteq Nat
    /\ MaxInvocations \in Nat

VARIABLES
    file,        \* in the checkpoint: attempted_requests, and whether it holds an
                 \* active_request_invocation
    ceiling,     \* config.max_requests
    pc,          \* where the process is
    base,        \* attempted_requests in memory when the collector was built
    used,        \* client.metrics.attempted_requests
    left,        \* attempts that the calls being awaited may still make
    total,       \* attempts ever made for this run (the truth, kept by nobody)
    progress,    \* what the checkpoint has to go on with
    crashes,     \* how often a process died
    invocations

vars == <<file, ceiling, pc, base, used, left, total, progress, crashes, invocations>>

\* The control points that make no call ...
Quiet == {"pending", "resume", "sample", "examine", "history", "page", "closing"}
\* ... and those that await calls: downloads of pending matches, league pages, a
\* summoner, a history page, a chunk of matches.
Calling == {"downloading", "fetching", "resolving", "listing", "chunking"}
Running == Quiet \cup Calling

\* How many calls a control point awaits at most.
CallsAt(where) == CASE where \in {"downloading", "chunking"} -> Concurrency
                    [] where = "fetching" -> PagesPerStratum
                    [] OTHER -> 1

\* progress: nothing yet, a stratum's candidates, or players and their matches too.
Nothing == 0
Candidates == 1
Players == 2

Larger(a, b) == IF a >= b THEN a ELSE b

Init == /\ file = [attempted |-> 0, active |-> FALSE]
        /\ ceiling \in Ceilings
        /\ pc = "idle"
        /\ base = 0
        /\ used = 0
        /\ left = 0
        /\ total = 0
        /\ progress = Nothing
        /\ crashes = 0
        /\ invocations = 0

-----------------------------------------------------------------------------
(* The head of an invocation.                                              *)

\* Mutant of Charge: an interrupted invocation is charged for one call.
ChargeOneCall == file.attempted + AttemptsPerCall

\* recover_missing_request_budget: what an invocation that left its marker is
\* charged, on top of the attempts that were saved.
Charge == file.attempted + AttemptsPerCall * Larger(PagesPerStratum, Concurrency)

\* The command is started or resumed (max_requests may be raised): the marker of an
\* invocation that did not end is removed and charged, and the checkpoint saved.
Recover ==
    /\ pc = "idle"
    /\ invocations < MaxInvocations
    /\ invocations' = invocations + 1
    /\ ceiling' \in {c \in Ceilings : c >= ceiling}
    /\ file' = [attempted |-> IF file.active THEN Charge ELSE file.attempted,
                active |-> FALSE]
    /\ pc' = "recovered"
    /\ UNCHANGED <<base, used, left, total, progress, crashes>>

\* Mutant of Begin: the collector does not mark the checkpoint.
BeginUnmarked ==
    /\ pc = "recovered"
    /\ base' = file.attempted
    /\ used' = 0
    /\ pc' = "pending"
    /\ UNCHANGED <<file, ceiling, left, total, progress, crashes, invocations>>

\* PopulationCollector.__init__ takes the saved attempts as its base, marks the
\* checkpoint and saves; collect begins.
Begin == /\ pc = "recovered"
         /\ base' = file.attempted
         /\ used' = 0
         /\ file' = [file EXCEPT !.active = TRUE]
         /\ pc' = "pending"
         /\ UNCHANGED <<ceiling, left, total, progress, crashes, invocations>>

\* --finalize-interrupted: the collector is built with an offline client, removes its
\* marker and saves without any request.
Finalize == /\ pc = "recovered"
            /\ file' = [file EXCEPT !.active = FALSE]
            /\ pc' = "idle"
            /\ UNCHANGED <<ceiling, base, used, left, total, progress, crashes, invocations>>

-----------------------------------------------------------------------------
(* Calls and saves.                                                        *)

\* max_requests of this invocation's client: what the earlier ones have left.
Grant == IF ceiling >= base THEN ceiling - base ELSE 0

\* Control goes to `to` and nothing is saved.
Goto(to) == /\ pc' = to
            /\ left' = 0
            /\ UNCHANGED <<file, ceiling, base, used, total, progress, crashes, invocations>>

\* Mutant of SaveAnd: the counts of this invocation replace those of the earlier ones.
SaveForgets(to, has) ==
    /\ pc' = to
    /\ left' = 0
    /\ file' = [file EXCEPT !.attempted = used]
    /\ progress' = Larger(progress, has)
    /\ UNCHANGED <<ceiling, base, used, total, crashes, invocations>>

\* state.save merges base and client metrics into the checkpoint, which now holds what
\* `has` says; control goes to `to`.
SaveAnd(to, has) ==
    /\ pc' = to
    /\ left' = 0
    /\ file' = [file EXCEPT !.attempted = base + used]
    /\ progress' = Larger(progress, has)
    /\ UNCHANGED <<ceiling, base, used, total, crashes, invocations>>

\* Calls go out: each may make AttemptsPerCall attempts.
Await(where) == /\ pc' = where
                /\ left' = AttemptsPerCall * CallsAt(where)
                /\ UNCHANGED <<file, ceiling, base, used, total, progress, crashes, invocations>>

\* Mutant of Attempt: nothing bounds the retries of a call.
AttemptForever ==
    /\ pc \in Calling
    /\ used < Grant
    /\ used' = used + 1
    /\ total' = total + 1
    /\ left' = left - 1
    /\ UNCHANGED <<file, ceiling, pc, base, progress, crashes, invocations>>

\* A call that was answered has made an attempt.
Answered == left < AttemptsPerCall * CallsAt(pc)

\* One of the awaited calls makes an attempt.
Attempt == /\ pc \in Calling
           /\ left > 0
           /\ used < Grant
           /\ used' = used + 1
           /\ total' = total + 1
           /\ left' = left - 1
           /\ UNCHANGED <<file, ceiling, pc, base, progress, crashes, invocations>>

\* _download_pending: a pass of the loop, or its end.
Pending == /\ pc = "pending"
           /\ \/ progress = Players /\ Await("downloading")
              \/ Goto("resume")

\* The results are processed and saved, or the first refused call returns: nothing is
\* saved then, and the run makes no other request.
Downloaded == /\ pc = "downloading"
              /\ SaveAnd("pending", Players) \/ Goto("closing")

\* _resume_incomplete_players: the next player's history, or on to the sampling loop.
Resume == /\ pc = "resume"
          /\ \/ progress = Players /\ Goto("history")
             \/ Goto("sample")

\* _collect_balanced: a stratum that is fetched first, a candidate at hand or none
\* (both saved), or the end.
Sample == /\ pc = "sample"
          /\ \/ Await("fetching")
             \/ /\ progress >= Candidates
                /\ \E to \in {"examine", "sample"} : SaveAnd(to, Candidates)
             \/ Goto("closing")

\* The stratum is fetched, or cannot be: saved either way, but for 401/403.
Fetched == /\ pc = "fetching"
           /\ \/ Answered /\ SaveAnd("examine", Candidates)
              \/ SaveAnd("sample", Nothing)
              \/ Goto("closing")

\* A candidate whose puuid is known: a new player is saved, and its history examined
\* if the target is not reached; a player seen before is continued, or passed over if
\* done, without a save.
Candidate == \/ \E to \in {"history", "sample"} : SaveAnd(to, Players)
             \/ /\ progress = Players
                /\ \E to \in {"history", "sample"} : Goto(to)

\* _examine_player: the entry has a puuid, or a summoner call resolves it; an entry
\* with neither identifier is skipped.
Examine == pc = "examine" /\ (Await("resolving") \/ Candidate \/ Goto("sample"))

\* The puuid is resolved, or the candidate is skipped without a save (401/403: raised).
Resolved == /\ pc = "resolving"
            /\ \/ Answered /\ Candidate
               \/ Goto("sample")
               \/ Goto("closing")

\* _continue_player_history: a page is requested, or the pending one processed; the
\* player is done (saved), or downloads should stop (not saved).  Control returns to
\* the resume loop or to the sampling loop.
History == /\ pc = "history"
           /\ \/ Await("listing")
              \/ Goto("page")
              \/ \E from \in {"resume", "sample"} : SaveAnd(from, Players) \/ Goto(from)

\* The page is saved before it is processed; so is the player's status when there is
\* none (401/403: raised).
Listed == /\ pc = "listing"
          /\ \/ Answered /\ SaveAnd("page", Players)
             \/ \E from \in {"resume", "sample"} : SaveAnd(from, Players)
             \/ Goto("closing")

\* _process_history_ids: the next chunk, or the end of the page (saved).
Page == /\ pc = "page"
        /\ \/ Await("chunking")
           \/ \E to \in {"history", "resume", "sample"} : SaveAnd(to, Players)

\* A chunk's results are saved (401/403: raised).
Chunked == /\ pc = "chunking"
           /\ SaveAnd("page", Players) \/ Goto("closing")

-----------------------------------------------------------------------------
(* The end of an invocation.                                               *)

\* Mutant of Close: the marker is removed and the counts are not saved.
CloseUnsaved == /\ pc \in Running
                /\ file' = [file EXCEPT !.active = FALSE]
                /\ pc' = "idle"
                /\ left' = 0
                /\ UNCHANGED <<ceiling, base, used, total, progress, crashes, invocations>>

\* collect's finally block, on return, on an exception and when the task is cancelled
\* at an await: the marker is removed and everything saved.
Close == /\ pc \in Calling \cup {"closing"}
         /\ file' = [attempted |-> base + used, active |-> FALSE]
         /\ pc' = "idle"
         /\ left' = 0
         /\ UNCHANGED <<ceiling, base, used, total, progress, crashes, invocations>>

\* The process dies anywhere.
Crash == /\ pc \in Running \cup {"recovered"}
         /\ pc' = "idle"
         /\ left' = 0
         /\ crashes' = crashes + 1
         /\ UNCHANGED <<file, ceiling, base, used, total, progress, invocations>>

Next == \/ Recover \/ Begin \/ Finalize
        \/ Attempt
        \/ Pending \/ Downloaded \/ Resume \/ Sample \/ Fetched
        \/ Examine \/ Resolved \/ History \/ Listed \/ Page \/ Chunked
        \/ Close \/ Crash

Spec == Init /\ [][Next]_vars

-----------------------------------------------------------------------------
TypeOK == /\ file \in [attempted : Nat, active : BOOLEAN]
          /\ ceiling \in Ceilings
          /\ pc \in Running \cup {"idle", "recovered"}
          /\ progress \in {Nothing, Candidates, Players}
          /\ {base, used, left, total, crashes, invocations} \subseteq Nat

\* How many calls' worth of attempts a process may have made since its last save.
UnsavedCalls(where) ==
    CASE where \in {"idle", "recovered", "pending", "examine"} -> 0
      [] where \in {"resume", "sample", "resolving", "history", "page"} -> 1
      [] where = "listing" -> 2
      [] where = "fetching" -> PagesPerStratum + 1
      [] where = "chunking" -> Concurrency + 1
      [] where = "downloading" -> Concurrency
      [] where = "closing" -> Larger(PagesPerStratum, Concurrency) + 1

\* A running collector has marked the checkpoint, and what a crash could take from the
\* ledger is bounded by the calls made since the last save.
UnsavedBounded ==
    pc \in Running =>
        /\ file.active
        /\ file.attempted <= base + used
        /\ base + used + left <= file.attempted + AttemptsPerCall * UnsavedCalls(pc)

\* One run spends its ceiling and, for each crash, at most the attempts of one call
\* more: the charge falls short of what a crash can lose by no more than that.
OverrunBounded == total <= ceiling + AttemptsPerCall * crashes

\* A run whose process never died has every attempt in its checkpoint when no
\* process is running: returns, failures and interruptions are exact.
CleanEndsExact == crashes = 0 /\ pc = "idle" => file.attempted = total

\* The recorded attempts never decrease, so no resume regains budget.
LedgerNeverDecreases == [][file'.attempted >= file.attempted]_vars

\* The recovery charge is an upper bound of what was really spent, so that the
\* cumulative ceiling is preserved.
ChargeIsUpperBound == pc = "recovered" => file.attempted >= total
=============================================================================
