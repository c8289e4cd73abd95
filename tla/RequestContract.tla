-------------------------- MODULE RequestContract --------------------------
(***************************************************************************)
(* What callers may rely on when they await RiotClient._get: the abstract  *)
(* specification of one client's calls.  A call spends a whole number of   *)
(* attempts from a budget that all calls of the client share, and ends     *)
(* once, with an outcome that says how it was spent.  RiotClient.tla       *)
(* implements it; the modules that make requests (PopulationCollector,     *)
(* RequestLedger) assume no more of a call than this.                      *)
(***************************************************************************)
EXTENDS Naturals

CONSTANTS Calls,             \* the get_* calls made on one client
          AttemptsPerCall,   \* max_retries + 1
          Budget             \* max_requests of this client

VARIABLES attempted,         \* metrics.attempted_requests
          spent,             \* attempts each call has made
          outcome            \* "running" or how the call ended

cvars == <<attempted, spent, outcome>>

\* How a call ends: with a payload, with 401/403, with another error that is not
\* retried, with its retries exhausted, refused by the budget, or cancelled by its
\* owner.
Outcomes == {"ok", "auth", "rejected", "exhausted", "budget", "cancelled"}

CInit == /\ attempted = 0
         /\ spent = [c \in Calls |-> 0]
         /\ outcome = [c \in Calls |-> "running"]

\* A call takes one attempt out of the shared budget.
Spend(c) == /\ outcome[c] = "running"
            /\ spent[c] < AttemptsPerCall
            /\ attempted < Budget
            /\ attempted' = attempted + 1
            /\ spent' = [spent EXCEPT ![c] = @ + 1]
            /\ UNCHANGED outcome

\* What an outcome says about the attempts spent so far.
Justified(c, o) == /\ o \in {"ok", "auth", "rejected"} => spent[c] > 0
                   /\ o = "exhausted" => spent[c] = AttemptsPerCall
                   /\ o = "budget" => /\ attempted = Budget
                                      /\ spent[c] < AttemptsPerCall

End(c) == /\ outcome[c] = "running"
          /\ \E o \in Outcomes : /\ Justified(c, o)
                                 /\ outcome' = [outcome EXCEPT ![c] = o]
          /\ UNCHANGED <<attempted, spent>>

CNext == \E c \in Calls : Spend(c) \/ End(c)

ContractSpec == CInit /\ [][CNext]_cvars
=============================================================================
