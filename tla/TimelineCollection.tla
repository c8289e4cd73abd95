------------------------- MODULE TimelineCollection -------------------------
(***************************************************************************)
(* timeline_collection.collect_platform_timelines: one asyncio task per    *)
(* missing timeline of a platform, all of them sharing a RiotClient, a     *)
(* content-addressed directory and the SQLite TimelineCatalog, over any    *)
(* number of invocations that return, fail, are interrupted or crash.      *)
(*                                                                         *)
(* Between two awaits one task runs alone, so nothing but a crash can fall *)
(* between the charge of an attempt and its request, or between a file and *)
(* its row: Undivided keeps the other tasks out there.  The write lock is  *)
(* never held over an await and so never contended; it is left out.        *)
(***************************************************************************)
EXTENDS Naturals, FiniteSets

CONSTANTS
    Matches,             \* match IDs the sources may list
    Versions,            \* contents the API may serve as one match's timeline
    Absent,              \* "no value"
    Selections,          \* sets of matches the verified sources may select
    Ceilings,            \* values maximum_requests may have
    Concurrency,
    AttemptsPerCall,     \* max_retries + 1 (RequestContract)
    MaxInvocations       \* bound: invocations of the command

ASSUME TimelineAssumption ==
    /\ IsFiniteSet(Matches)
    /\ Absent \notin Versions
    /\ Selections \subseteq SUBSET Matches
    /\ Ceilings \subseteq Nat
    /\ Concurrency \in Nat \ {0}
    /\ AttemptsPerCall \in Nat \ {0}
    /\ MaxInvocations \in Nat

VARIABLES
    files,       \* the timeline directory: pairs of a match and a version
    rows,        \* table timelines: status and content_sha256 of each match
    charged,     \* metadata.request_attempts
    sent,        \* requests ever sent (the truth, kept by nobody)
    selected,    \* matches that the sources of this invocation select
    ceiling,     \* maximum_requests
    main,        \* the collecting coroutine
    grant,       \* max_requests of this invocation's client
    used,        \* client.metrics.attempted_requests
    task,        \* the task of each match
    spent,       \* attempts of its call
    held,        \* version whose file the task has written
    result,      \* how the last invocation ended
    invocations

stores == <<files, rows>>
ledger == <<charged, sent>>
config == <<selected, ceiling>>
tasks == <<task, spent, held>>
vars == <<stores, ledger, config, main, grant, used, tasks, result, invocations>>

\* A task waits for the semaphore; is at the head of its call's retry loop or backing
\* off; has charged an attempt; awaits the response; has written the payload's file.
Live == {"waiting", "calling", "sending", "awaiting", "storing"}
Ended == {"done", "failed", "cancelled"}

Statuses == {"downloaded", "failed", "unavailable"}
NoRow == [status |-> "none", version |-> Absent]
Terminal(row) == row.status \in {"downloaded", "unavailable"}

Init == /\ files = {}
        /\ rows = [m \in Matches |-> NoRow]
        /\ charged = 0
        /\ sent = 0
        /\ selected = {}
        /\ ceiling \in Ceilings
        /\ main = "idle"
        /\ grant = 0
        /\ used = 0
        /\ task = [m \in Matches |-> "none"]
        /\ spent = [m \in Matches |-> 0]
        /\ held = [m \in Matches |-> Absent]
        /\ result = "none"
        /\ invocations = 0

-----------------------------------------------------------------------------
\* Mutant of Pending: unavailable timelines are asked for again.
PendingUndownloaded(chosen) == {m \in chosen : rows[m].status # "downloaded"}

\* The selected matches without a terminal row.
Pending(chosen) == {m \in chosen : ~Terminal(rows[m])}

\* Mutant of Grant: every invocation gets the whole ceiling.
GrantAfresh(limit) == limit

\* remaining_budget: what the invocations before have left of the ceiling.
Grant(limit) == IF limit >= charged THEN limit - charged ELSE 0

\* The command is started with sources that may have been extended and with any
\* ceiling: neither is part of the policy hash that binds the catalog.
Start ==
    /\ main = "idle"
    /\ invocations < MaxInvocations
    /\ invocations' = invocations + 1
    /\ selected' \in {s \in Selections : selected \subseteq s}
    /\ ceiling' \in Ceilings
    /\ grant' = Grant(ceiling')
    /\ used' = 0
    /\ task' = [m \in Matches |-> IF m \in Pending(selected') THEN "waiting" ELSE "none"]
    /\ spent' = [m \in Matches |-> 0]
    /\ held' = [m \in Matches |-> Absent]
    /\ result' = "none"
    /\ main' = "collecting"
    /\ UNCHANGED <<stores, ledger>>

-----------------------------------------------------------------------------
(* One task: fetch, with the retry loop of the client inside.              *)

Undivided == \A m \in Matches : task[m] \notin {"sending", "storing"}

Goto(m, where) == task' = [task EXCEPT ![m] = where]

\* The task ends, and its locals with it.
End(m, how) == /\ Goto(m, how)
               /\ spent' = [spent EXCEPT ![m] = 0]
               /\ held' = [held EXCEPT ![m] = Absent]

\* Mutant of InSemaphore: a task that has ended does not release it.
InSemaphoreForGood == {m \in Matches : task[m] \notin {"none", "waiting"}}

InSemaphore == {m \in Matches : task[m] \in Live \ {"waiting"}}

Enter(m) == /\ task[m] = "waiting"
            /\ Undivided
            /\ Cardinality(InSemaphore) < Concurrency
            /\ Goto(m, "calling")
            /\ UNCHANGED <<stores, ledger, config, main, grant, used, spent, held, result,
                           invocations>>

\* Mutant of Charge: a call is charged once, whatever its retries.
ChargeCalls(m) ==
    /\ task[m] = "calling"
    /\ Undivided
    /\ used < grant
    /\ used' = used + 1
    /\ spent' = [spent EXCEPT ![m] = @ + 1]
    /\ charged' = IF spent[m] = 0 THEN charged + 1 ELSE charged
    /\ Goto(m, "sending")
    /\ UNCHANGED <<stores, sent, config, main, grant, held, result, invocations>>

\* The attempt is counted and record_request_attempt commits it.
Charge(m) == /\ task[m] = "calling"
             /\ Undivided
             /\ used < grant
             /\ used' = used + 1
             /\ spent' = [spent EXCEPT ![m] = @ + 1]
             /\ charged' = charged + 1
             /\ Goto(m, "sending")
             /\ UNCHANGED <<stores, sent, config, main, grant, held, result, invocations>>

\* The request goes out.
Send(m) == /\ task[m] = "sending"
           /\ sent' = sent + 1
           /\ Goto(m, "awaiting")
           /\ UNCHANGED <<stores, charged, config, main, grant, used, spent, held, result,
                          invocations>>

\* Mutant of Retry: the loop runs once more than max_retries + 1 times.
RetryOnceMore(m) ==
    /\ task[m] = "awaiting"
    /\ Undivided
    /\ spent[m] <= AttemptsPerCall
    /\ Goto(m, "calling")
    /\ UNCHANGED <<stores, ledger, config, main, grant, used, spent, held, result, invocations>>

\* A timeout, a network error, 429 or 5xx with attempts left.
Retry(m) == /\ task[m] = "awaiting"
            /\ Undivided
            /\ spent[m] < AttemptsPerCall
            /\ Goto(m, "calling")
            /\ UNCHANGED <<stores, ledger, config, main, grant, used, spent, held, result,
                           invocations>>

\* Mutant of StoreFile: a match that has a file already gets no other.
StoreFileOnce(m) ==
    /\ task[m] = "awaiting"
    /\ Undivided
    /\ \E v \in Versions :
          /\ files' = IF \E w \in Versions : <<m, w>> \in files THEN files
                                                               ELSE files \cup {<<m, v>>}
          /\ held' = [held EXCEPT ![m] = v]
    /\ Goto(m, "storing")
    /\ UNCHANGED <<rows, ledger, config, main, grant, used, spent, result, invocations>>

\* A payload of the right identity: _atomic_write_bytes under its digest.
StoreFile(m) == /\ task[m] = "awaiting"
                /\ Undivided
                /\ \E v \in Versions : /\ files' = files \cup {<<m, v>>}
                                       /\ held' = [held EXCEPT ![m] = v]
                /\ Goto(m, "storing")
                /\ UNCHANGED <<rows, ledger, config, main, grant, used, spent, result,
                               invocations>>

RecordDownload(m) ==
    /\ task[m] = "storing"
    /\ rows' = [rows EXCEPT ![m] = [status |-> "downloaded", version |-> held[m]]]
    /\ End(m, "done")
    /\ UNCHANGED <<files, ledger, config, main, grant, used, result, invocations>>

\* 404: record_unavailable.
NotFound(m) ==
    /\ task[m] = "awaiting"
    /\ Undivided
    /\ rows' = [rows EXCEPT ![m] = [status |-> "unavailable", version |-> Absent]]
    /\ End(m, "done")
    /\ UNCHANGED <<files, ledger, config, main, grant, used, result, invocations>>

\* The task ends with an exception.  record_failure leaves the hash of an earlier row,
\* and may itself fail.
EndFailed(m) == /\ End(m, "failed")
                /\ \/ rows' = [rows EXCEPT ![m].status = "failed"]
                   \/ UNCHANGED rows

\* Any other error of the request, exhausted retries, a payload of another match, a
\* file or a row that cannot be written, or a client closed under the task.
Fails(m) == /\ task[m] \in {"sending", "awaiting", "storing"}
            /\ task[m] = "awaiting" => Undivided
            /\ EndFailed(m)
            /\ UNCHANGED <<files, ledger, config, main, grant, used, result, invocations>>

\* RiotRequestBudgetExceeded, or an attempt that is counted and cannot be charged.
Refused(m) == /\ task[m] = "calling"
              /\ Undivided
              /\ used' = IF used < grant THEN used + 1 ELSE used
              /\ EndFailed(m)
              /\ UNCHANGED <<files, ledger, config, main, grant, result, invocations>>

Fetch(m) == \/ Enter(m) \/ Charge(m) \/ Send(m) \/ Retry(m)
            \/ StoreFile(m) \/ RecordDownload(m) \/ NotFound(m) \/ Fails(m) \/ Refused(m)

-----------------------------------------------------------------------------
(* The collecting coroutine.                                               *)

\* The first failure that as_completed hands over cancels every other task; other
\* tasks may have gone on since it happened.
NoticeFailure ==
    /\ main = "collecting"
    /\ Undivided
    /\ \E m \in Matches : task[m] = "failed"
    /\ task' = [m \in Matches |-> IF task[m] \in Live THEN "cancelled" ELSE task[m]]
    /\ spent' = [m \in Matches |-> 0]
    /\ held' = [m \in Matches |-> Absent]
    /\ main' = "leaving"
    /\ UNCHANGED <<stores, ledger, config, grant, used, result, invocations>>

\* Nothing of the process is left.
Gone == /\ main' = "idle"
        /\ task' = [m \in Matches |-> "none"]
        /\ spent' = [m \in Matches |-> 0]
        /\ held' = [m \in Matches |-> Absent]
        /\ grant' = 0
        /\ used' = 0
        /\ UNCHANGED <<stores, ledger, config, invocations>>

\* Mutant of Return: failures do not matter once every task has ended.
ReturnRegardless ==
    /\ main = "collecting"
    /\ \A m \in Matches : task[m] \notin Live
    /\ result' = "returned"
    /\ Gone

\* Every task has ended without an exception: the summary is returned.
Return == /\ main = "collecting"
          /\ \A m \in Matches : task[m] \in {"none", "done"}
          /\ result' = "returned"
          /\ Gone

\* Ctrl-C cancels the coroutine, whose handler does not see the cancellation: the
\* client is closed and the tasks live on until the event loop is shut down.
Interrupt == /\ main = "collecting"
             /\ Undivided
             /\ main' = "leaving"
             /\ UNCHANGED <<stores, ledger, config, grant, used, tasks, result, invocations>>

\* The event loop is shut down with the exception.
Leave == /\ main = "leaving"
         /\ Undivided
         /\ result' = "raised"
         /\ Gone

\* The process dies anywhere.
Crash == /\ main # "idle"
         /\ result' = "raised"
         /\ Gone

Run == (\E m \in Matches : Fetch(m)) \/ NoticeFailure \/ Return \/ Leave

Next == Start \/ Run \/ Interrupt \/ Crash

\* A started process goes on: every request has a timeout and every sleep an end.
Spec == Init /\ [][Next]_vars /\ WF_vars(Run)

-----------------------------------------------------------------------------
\* TimelinePayloadReader.load finds the payload whose checksum the row has.
Readable(m) == <<m, rows[m].version>> \in files

\* The summary's counts.
CountOf(status) == Cardinality({m \in Matches : rows[m].status = status})
TargetComplete ==
    CountOf("downloaded") + CountOf("unavailable") = Cardinality(selected)

TypeOK == /\ files \subseteq Matches \X Versions
          /\ rows \in [Matches -> [status : Statuses \cup {"none"},
                                   version : Versions \cup {Absent}]]
          /\ {charged, sent, grant, used, invocations} \subseteq Nat
          /\ selected \subseteq Matches
          /\ ceiling \in Ceilings
          /\ main \in {"idle", "collecting", "leaving"}
          /\ task \in [Matches -> Live \cup Ended \cup {"none"}]
          /\ spent \in [Matches -> 0 .. AttemptsPerCall]
          /\ held \in [Matches -> Versions \cup {Absent}]
          /\ result \in {"none", "returned", "raised"}

\* The offline verification succeeds at any moment: a downloaded row names a payload
\* that is in the directory, whatever crashed between a file and its row, and however
\* often the API served another version.
DownloadsReadable ==
    \A m \in Matches : rows[m].status = "downloaded" => Readable(m)

\* Attempts are charged before they are sent, so no crash takes one from the ledger.
SentIsCharged == sent <= charged

\* The ceiling cannot reset on resume: no request is sent once as many as the ceiling
\* were sent before, over all invocations and crashes.
CeilingHolds == [][sent' > sent => sent < ceiling]_vars

\* Exactly-once downloads: a terminal row never changes and its timeline is never
\* asked for again.
TerminalIsFinal ==
    [][\A m \in Matches : Terminal(rows[m]) => /\ rows'[m] = rows[m]
                                               /\ task'[m] \notin {"calling", "sending"}]_vars

\* An invocation that returns has a terminal row for every selected match, and its
\* summary says so; any failure raises.
ReturnIsComplete ==
    main = "idle" /\ result = "returned" =>
        /\ \A m \in selected : Terminal(rows[m])
        /\ TargetComplete

\* Every invocation ends: no task waits for ever for the semaphore.
InvocationEnds == (main # "idle") ~> (main = "idle")
=============================================================================
