----------------------------- MODULE RiotClient -----------------------------
(***************************************************************************)
(* riot_client.RiotClient: concurrent asyncio calls of _get on one client. *)
(* Between two awaits the event loop runs one call only, so the budget     *)
(* check, the counting of the attempt and the start of the HTTP request    *)
(* are one action (Send); the HTTP request, the back-off sleep and the     *)
(* proactive rate-limit sleep are where other calls interleave and where   *)
(* the owner of a task may cancel it.                                      *)
(***************************************************************************)
EXTENDS Naturals, FiniteSets

CONSTANTS Calls,        \* concurrent _get calls
          MaxRetries,   \* self._max_retries, at least 0
          Budget        \* self._max_requests

ASSUME ClientAssumption == /\ MaxRetries \in Nat
                           /\ Budget \in Nat

VARIABLES pc,           \* where each call is suspended, or how it ended
          sent,         \* attempts the call has counted: its loop index + 1 once sent
          metrics       \* RequestMetrics shared by every call

vars == <<pc, sent, metrics>>

\* Await points: created and not yet run, awaiting the response, asleep in
\* _backoff, asleep in _pause_for_full_rate_bucket with the response in hand.
Suspended == {"ready", "awaiting", "backoff", "pausing"}
Ended == {"ok", "auth", "rejected", "exhausted", "budget", "cancelled"}

Counters == {"attempted", "successful", "auth", "r429", "r5xx", "retries"}

\* Metrics with every counter of S one higher.
Bump(S) == [k \in Counters |-> IF k \in S THEN metrics[k] + 1 ELSE metrics[k]]

Goto(c, where) == pc' = [pc EXCEPT ![c] = where]

Init == /\ pc = [c \in Calls |-> "ready"]
        /\ sent = [c \in Calls |-> 0]
        /\ metrics = [k \in Counters |-> 0]

-----------------------------------------------------------------------------
\* Mutant of Send: the budget is tested before a call's first attempt only.
SendBudgetTestedOnce(c) ==
    /\ pc[c] \in {"ready", "backoff"}
    /\ pc[c] = "ready" => metrics["attempted"] < Budget
    /\ metrics' = Bump({"attempted"})
    /\ sent' = [sent EXCEPT ![c] = @ + 1]
    /\ Goto(c, "awaiting")

\* Mutant of Send: retries are not counted as attempts.
SendCountsCallsOnly(c) ==
    /\ pc[c] \in {"ready", "backoff"}
    /\ metrics["attempted"] < Budget
    /\ metrics' = IF pc[c] = "ready" THEN Bump({"attempted"}) ELSE metrics
    /\ sent' = [sent EXCEPT ![c] = @ + 1]
    /\ Goto(c, "awaiting")

\* The head of the retry loop, reached when the call first runs and when a
\* back-off sleep ends: the attempt is counted and the request goes out.
Send(c) == /\ pc[c] \in {"ready", "backoff"}
           /\ metrics["attempted"] < Budget
           /\ metrics' = Bump({"attempted"})
           /\ sent' = [sent EXCEPT ![c] = @ + 1]
           /\ Goto(c, "awaiting")

\* Mutant of RefuseForBudget: an off-by-one refuses the last permitted attempt.
RefuseOneEarly(c) == /\ pc[c] \in {"ready", "backoff"}
                     /\ metrics["attempted"] + 1 >= Budget
                     /\ Goto(c, "budget")
                     /\ UNCHANGED <<sent, metrics>>

\* Mutant of RefuseForBudget: the call waits for budget instead of raising.
RefuseWaits(c) == /\ pc[c] \in {"ready", "backoff"}
                  /\ metrics["attempted"] >= Budget
                  /\ UNCHANGED vars

\* The same loop head with the budget used up: RiotRequestBudgetExceeded.
RefuseForBudget(c) == /\ pc[c] \in {"ready", "backoff"}
                      /\ metrics["attempted"] >= Budget
                      /\ Goto(c, "budget")
                      /\ UNCHANGED <<sent, metrics>>

\* Mutant of Retryable: the loop runs once more than max_retries + 1 times.
RetryableOnceMore(c, counter) ==
    /\ pc[c] = "awaiting"
    /\ \/ /\ sent[c] <= MaxRetries + 1
          /\ metrics' = Bump(counter \cup {"retries"})
          /\ Goto(c, "backoff")
       \/ /\ sent[c] > MaxRetries + 1
          /\ metrics' = Bump(counter)
          /\ Goto(c, "exhausted")
    /\ UNCHANGED sent

\* Mutant of Retryable: the call gives up before its last attempt.
RetryableGivesUpEarly(c, counter) ==
    /\ pc[c] = "awaiting"
    /\ \/ /\ sent[c] < MaxRetries
          /\ metrics' = Bump(counter \cup {"retries"})
          /\ Goto(c, "backoff")
       \/ /\ sent[c] >= MaxRetries
          /\ metrics' = Bump(counter)
          /\ Goto(c, "exhausted")
    /\ UNCHANGED sent

\* A failure that is retried: counted under `counter` if the code has a counter
\* for it; the call backs off, or gives up when this was its last attempt.
Retryable(c, counter) ==
    /\ pc[c] = "awaiting"
    /\ \/ /\ sent[c] <= MaxRetries
          /\ metrics' = Bump(counter \cup {"retries"})
          /\ Goto(c, "backoff")
       \/ /\ sent[c] > MaxRetries
          /\ metrics' = Bump(counter)
          /\ Goto(c, "exhausted")
    /\ UNCHANGED sent

\* httpx.TimeoutException or httpx.NetworkError: no counter of its own.
TransportFailure(c) == Retryable(c, {})
TooManyRequests(c) == Retryable(c, {"r429"})
ServerError(c) == Retryable(c, {"r5xx"})

\* A response below 400.  Rate headers may announce a full bucket, in which
\* case the call sleeps before it hands the payload over; a body that is not JSON
\* is raised then, although it counts as a success.
Succeed(c) == /\ pc[c] = "awaiting"
              /\ metrics' = Bump({"successful"})
              /\ \E where \in {"ok", "rejected", "pausing"} : Goto(c, where)
              /\ UNCHANGED sent

FinishPause(c) == /\ pc[c] = "pausing"
                  /\ \E where \in {"ok", "rejected"} : Goto(c, where)
                  /\ UNCHANGED <<sent, metrics>>

\* 401 or 403: counted and raised at once.
AuthenticationFailure(c) == /\ pc[c] = "awaiting"
                            /\ metrics' = Bump({"auth"})
                            /\ Goto(c, "auth")
                            /\ UNCHANGED sent

\* Any other status of 400 or more, or an httpx error that is neither a timeout nor a
\* network error: raised at once, no counter.
Reject(c) == /\ pc[c] = "awaiting"
             /\ Goto(c, "rejected")
             /\ UNCHANGED <<sent, metrics>>

\* The owner of the task cancels it at an await point (timeline collection does
\* so for every other task after the first failure).
Cancel(c) == /\ pc[c] \in Suspended
             /\ Goto(c, "cancelled")
             /\ UNCHANGED <<sent, metrics>>

\* What the call does by itself or the network does to it.
Step(c) == \/ Send(c) \/ RefuseForBudget(c)
           \/ TransportFailure(c) \/ TooManyRequests(c) \/ ServerError(c)
           \/ Succeed(c) \/ FinishPause(c)
           \/ AuthenticationFailure(c) \/ Reject(c)

Next == \E c \in Calls : Step(c) \/ Cancel(c)

\* httpx gives every request a 20 s timeout and every sleep is finite, so a
\* suspended call is always resumed: weak fairness of the calls' own steps, and
\* none for cancellation.
Spec == Init /\ [][Next]_vars /\ \A c \in Calls : WF_vars(Step(c))

-----------------------------------------------------------------------------
TypeOK == /\ pc \in [Calls -> Suspended \cup Ended]
          /\ sent \in [Calls -> 0 .. MaxRetries + 1]
          /\ metrics \in [Counters -> Nat]

\* The request safety budget: however calls interleave, no more attempts leave
\* the client than max_requests (the check and the count share one turn of the
\* event loop).
BudgetNeverExceeded == metrics["attempted"] <= Budget

\* A call is refused only once the budget is really spent: the refusal is what
\* the collectors turn into "request_budget_exhausted".
RefusalMeansSpent ==
    \A c \in Calls : pc[c] = "budget" => metrics["attempted"] = Budget

\* A call reports exhausted retries only after max_retries + 1 attempts, and no
\* call ever makes more: the bound that recover_missing_request_budget takes
\* for one call.
RetriesBounded ==
    \A c \in Calls : /\ sent[c] <= MaxRetries + 1
                     /\ pc[c] = "exhausted" => sent[c] = MaxRetries + 1

AttemptsMade == {q \in Calls \X (1 .. MaxRetries + 1) : q[2] <= sent[q[1]]}
Started == {c \in Calls : sent[c] > 0}
At(where) == {c \in Calls : pc[c] = where}

\* The metrics that are merged into the checkpoint account for every attempt of
\* every call once, a response is counted at most once, and `retries` counts at
\* least every attempt that was not a call's first.
MetricsAccountForAttempts ==
    /\ metrics["attempted"] = Cardinality(AttemptsMade)
    /\ metrics["successful"] + metrics["auth"] + metrics["r429"] + metrics["r5xx"]
         + Cardinality(At("awaiting")) <= metrics["attempted"]
    /\ metrics["attempted"] <= metrics["retries"] + Cardinality(Started)

\* Every call ends: with a payload, an error, a refusal or a cancellation.
EveryCallEnds == \A c \in Calls : <>(pc[c] \in Ended)

-----------------------------------------------------------------------------
\* The client implements the contract its callers rely on.
Contract == INSTANCE RequestContract WITH
                AttemptsPerCall <- MaxRetries + 1,
                attempted <- metrics["attempted"],
                spent <- sent,
                outcome <- [c \in Calls |-> IF pc[c] \in Ended THEN pc[c] ELSE "running"]

\* Every step of the client is a step of the contract or a stutter: callers see
\* attempts taken from the budget one at a time and outcomes that are justified.
ImplementsContract == Contract!ContractSpec
=============================================================================
