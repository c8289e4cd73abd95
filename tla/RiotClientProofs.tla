-------------------------- MODULE RiotClientProofs --------------------------
(***************************************************************************)
(* Theorems about RiotClient, for every set of calls, every retry bound    *)
(* and every budget.                                                       *)
(***************************************************************************)
EXTENDS RiotClient, FiniteSetTheorems, TLAPS

\* How many attempts a call has made, by the point where it stands.  This is
\* what makes the retry and refusal facts inductive.
AttemptsFitPosition ==
    \A c \in Calls :
        /\ pc[c] = "ready" => sent[c] = 0
        /\ pc[c] \in {"awaiting", "backoff", "pausing", "ok", "auth", "rejected"} => sent[c] > 0
        /\ pc[c] \in {"ready", "backoff", "budget"} => sent[c] <= MaxRetries
        /\ pc[c] = "exhausted" => sent[c] = MaxRetries + 1

\* The inductive invariant.
IInv == /\ TypeOK
        /\ AttemptsFitPosition
        /\ BudgetNeverExceeded
        /\ RefusalMeansSpent

\* No call has made an attempt before the first step.
LEMMA InitIInv == Init => IInv
  BY ClientAssumption DEF Init, IInv, TypeOK, AttemptsFitPosition,
     BudgetNeverExceeded, RefusalMeansSpent, Suspended, Ended, Counters

\* Every step of a call keeps the invariant.
LEMMA NextIInv == IInv /\ [Next]_vars => IInv'
  <1> SUFFICES ASSUME IInv, [Next]_vars PROVE IInv'
    OBVIOUS
  <1> USE ClientAssumption DEF IInv, TypeOK, AttemptsFitPosition,
          BudgetNeverExceeded, RefusalMeansSpent, Suspended, Ended, Counters, Goto
  <1>1. ASSUME NEW c \in Calls, Send(c) PROVE IInv'
    BY <1>1 DEF Send, Bump
  <1>2. ASSUME NEW c \in Calls, RefuseForBudget(c) PROVE IInv'
    BY <1>2 DEF RefuseForBudget
  <1>3. ASSUME NEW c \in Calls, NEW counter \in {{}, {"r429"}, {"r5xx"}},
               Retryable(c, counter)
        PROVE  IInv'
    BY <1>3 DEF Retryable, Bump
  <1>4. ASSUME NEW c \in Calls, Succeed(c) PROVE IInv'
    BY <1>4 DEF Succeed, Bump
  <1>5. ASSUME NEW c \in Calls, FinishPause(c) PROVE IInv'
    BY <1>5 DEF FinishPause
  <1>6. ASSUME NEW c \in Calls, AuthenticationFailure(c) PROVE IInv'
    BY <1>6 DEF AuthenticationFailure, Bump
  <1>7. ASSUME NEW c \in Calls, Reject(c) \/ Cancel(c) PROVE IInv'
    BY <1>7 DEF Reject, Cancel
  <1>8. CASE UNCHANGED vars
    BY <1>8 DEF vars
  <1>9. QED
    BY <1>1, <1>2, <1>3, <1>4, <1>5, <1>6, <1>7, <1>8
       DEF Next, Step, TransportFailure, TooManyRequests, ServerError

\* Type correctness of the client.
THEOREM TypeCorrect == Spec => []TypeOK
  <1>1. IInv => TypeOK
    BY DEF IInv
  <1>2. QED
    BY <1>1, InitIInv, NextIInv, PTL DEF Spec

\* The request budget holds for any number of concurrent calls: no interleaving
\* of the retry loops of _get makes the client send more than max_requests.
THEOREM BudgetSafe == Spec => []BudgetNeverExceeded
  <1>1. IInv => BudgetNeverExceeded
    BY DEF IInv
  <1>2. QED
    BY <1>1, InitIInv, NextIInv, PTL DEF Spec

\* RiotRequestBudgetExceeded is raised only when the whole budget is spent, and
\* stays true of it afterwards.
THEOREM RefusalSafe == Spec => []RefusalMeansSpent
  <1>1. IInv => RefusalMeansSpent
    BY DEF IInv
  <1>2. QED
    BY <1>1, InitIInv, NextIInv, PTL DEF Spec

\* No call makes more than max_retries + 1 attempts, and one that reports its
\* retries exhausted has made all of them.
THEOREM RetriesSafe == Spec => []RetriesBounded
  <1>1. IInv => RetriesBounded
    BY ClientAssumption DEF IInv, TypeOK, AttemptsFitPosition, RetriesBounded
  <1>2. QED
    BY <1>1, InitIInv, NextIInv, PTL DEF Spec

-----------------------------------------------------------------------------
\* The accounts.  However many calls there are, finitely many have made an attempt; a
\* call in a back-off has had its next attempt counted as a retry already.
Responses == metrics["successful"] + metrics["auth"] + metrics["r429"] + metrics["r5xx"]

Accounts == /\ IsFiniteSet(AttemptsMade) /\ IsFiniteSet(Started)
            /\ IsFiniteSet(At("awaiting")) /\ IsFiniteSet(At("backoff"))
            /\ metrics["attempted"] = Cardinality(AttemptsMade)
            /\ Responses + Cardinality(At("awaiting")) <= metrics["attempted"]
            /\ metrics["attempted"] + Cardinality(At("backoff"))
                  <= metrics["retries"] + Cardinality(Started)

\* A call that moves enters the calls at its new place and leaves those at its old one.
LEMMA Moves ==
    ASSUME TypeOK, NEW c \in Calls, NEW to, Goto(c, to), pc[c] # to,
           NEW where, IsFiniteSet(At(where))
    PROVE  /\ IsFiniteSet(At(where)')
           /\ Cardinality(At(where)) \in Nat
           /\ Cardinality(At(where)') =
                 IF where = to THEN Cardinality(At(where)) + 1
                 ELSE IF where = pc[c] THEN Cardinality(At(where)) - 1
                 ELSE Cardinality(At(where))
  <1>1. \A d \in Calls : pc'[d] = IF d = c THEN to ELSE pc[d]
    BY DEF TypeOK, Goto
  <1>2. CASE where = to
    <2>1. At(where)' = At(where) \cup {c} /\ c \notin At(where)
      BY <1>1, <1>2 DEF At
    <2>2. QED
      BY <1>2, <2>1, FS_AddElement, FS_CardinalityType
  <1>3. CASE where # to /\ where = pc[c]
    <2>1. At(where)' = At(where) \ {c} /\ c \in At(where)
      BY <1>1, <1>3 DEF At
    <2>2. QED
      BY <1>3, <2>1, FS_RemoveElement, FS_CardinalityType
  <1>4. CASE where # to /\ where # pc[c]
    <2>1. At(where)' = At(where)
      BY <1>1, <1>4 DEF At
    <2>2. QED
      BY <1>4, <2>1, FS_CardinalityType
  <1>5. QED
    BY <1>2, <1>3, <1>4

\* An attempt that is sent is one more, and of a call that has started.
LEMMA Attempts ==
    ASSUME IInv, Accounts, NEW c \in Calls, pc[c] \in {"ready", "backoff"},
           sent' = [sent EXCEPT ![c] = @ + 1]
    PROVE  /\ IsFiniteSet(AttemptsMade') /\ IsFiniteSet(Started')
           /\ Cardinality(AttemptsMade) \in Nat /\ Cardinality(Started) \in Nat
           /\ Cardinality(AttemptsMade') = Cardinality(AttemptsMade) + 1
           /\ Cardinality(Started') =
                 IF pc[c] = "ready" THEN Cardinality(Started) + 1 ELSE Cardinality(Started)
  <1>1. /\ sent[c] \in 0 .. MaxRetries /\ (sent[c] = 0 <=> c \notin Started)
        /\ \A d \in Calls : sent'[d] = IF d = c THEN sent[c] + 1 ELSE sent[d]
        /\ \A d \in Calls : sent[d] \in Nat
    BY ClientAssumption DEF IInv, TypeOK, AttemptsFitPosition, Started
  <1>2. pc[c] = "ready" <=> sent[c] = 0
    BY <1>1 DEF IInv, AttemptsFitPosition
  <1>3. /\ AttemptsMade' = AttemptsMade \cup {<<c, sent[c] + 1>>}
        /\ <<c, sent[c] + 1>> \notin AttemptsMade
    <2>1. <<c, sent[c] + 1>> \notin AttemptsMade
      BY <1>1 DEF AttemptsMade
    <2>2. \A d \in Calls, n \in 1 .. MaxRetries + 1 :
              n <= sent'[d] <=> n <= sent[d] \/ (d = c /\ n = sent[c] + 1)
      BY <1>1, ClientAssumption
    <2>3. sent[c] + 1 \in 1 .. MaxRetries + 1
      BY <1>1, ClientAssumption
    <2>4. AttemptsMade' = AttemptsMade \cup {<<c, sent[c] + 1>>}
      BY <2>2, <2>3 DEF AttemptsMade
    <2>5. QED
      BY <2>1, <2>4
  <1>4. Started' = Started \cup {c}
    BY <1>1 DEF Started
  <1>5. /\ IsFiniteSet(AttemptsMade') /\ Cardinality(AttemptsMade) \in Nat
        /\ Cardinality(AttemptsMade') = Cardinality(AttemptsMade) + 1
    BY <1>3, FS_AddElement, FS_CardinalityType DEF Accounts
  <1>6. /\ IsFiniteSet(Started') /\ Cardinality(Started) \in Nat
        /\ Cardinality(Started') =
              IF c \in Started THEN Cardinality(Started) ELSE Cardinality(Started) + 1
    BY <1>4, FS_AddElement, FS_CardinalityType DEF Accounts
  <1>7. QED
    BY <1>1, <1>2, <1>5, <1>6

\* Every step keeps the accounts.
LEMMA StepAccounts ==
    ASSUME IInv, Accounts, [Next]_vars
    PROVE  Accounts'
  <1>1. /\ metrics \in [Counters -> Nat] /\ TypeOK
        /\ \A k \in Counters : metrics[k] \in Nat
    BY DEF IInv, TypeOK
  <1>2. ASSUME NEW c \in Calls, Send(c)
        PROVE  Accounts'
    <2>1. /\ pc[c] \in {"ready", "backoff"} /\ Goto(c, "awaiting")
          /\ sent' = [sent EXCEPT ![c] = @ + 1] /\ metrics' = Bump({"attempted"})
      BY <1>2 DEF Send
    <2>2. /\ metrics'["attempted"] = metrics["attempted"] + 1 /\ Responses' = Responses
          /\ metrics'["retries"] = metrics["retries"]
      BY <2>1 DEF Bump, Counters, Responses
    <2>3. /\ IsFiniteSet(At("awaiting")') /\ Cardinality(At("awaiting")) \in Nat
          /\ Cardinality(At("awaiting")') = Cardinality(At("awaiting")) + 1
      BY <1>1, <2>1, Moves DEF Accounts
    <2>4. /\ IsFiniteSet(At("backoff")') /\ Cardinality(At("backoff")) \in Nat
          /\ Cardinality(At("backoff")') =
                IF pc[c] = "backoff" THEN Cardinality(At("backoff")) - 1
                ELSE Cardinality(At("backoff"))
      BY <1>1, <2>1, Moves DEF Accounts
    <2>5. /\ IsFiniteSet(AttemptsMade') /\ IsFiniteSet(Started')
          /\ Cardinality(AttemptsMade) \in Nat /\ Cardinality(Started) \in Nat
          /\ Cardinality(AttemptsMade') = Cardinality(AttemptsMade) + 1
          /\ Cardinality(Started') =
                IF pc[c] = "ready" THEN Cardinality(Started) + 1 ELSE Cardinality(Started)
      BY <2>1, Attempts
    <2>6. Responses \in Nat /\ metrics["attempted"] \in Nat /\ metrics["retries"] \in Nat
      BY <1>1 DEF Responses, Counters
    <2>7. QED
      BY <2>1, <2>2, <2>3, <2>4, <2>5, <2>6 DEF Accounts
  \* Every other step ends or suspends a call and counts what has come back of it.
  <1>3. ASSUME NEW c \in Calls, NEW to \in Suspended \cup Ended, Goto(c, to), UNCHANGED sent,
               pc[c] # to, to # "awaiting", metrics'["attempted"] = metrics["attempted"],
               \/ pc[c] = "awaiting" /\ Responses' \in {Responses, Responses + 1}
               \/ Responses' = Responses,
               \/ to = "backoff" /\ metrics'["retries"] = metrics["retries"] + 1
               \/ to # "backoff" /\ metrics'["retries"] = metrics["retries"]
        PROVE  Accounts'
    <2>1. /\ IsFiniteSet(At("awaiting")') /\ Cardinality(At("awaiting")) \in Nat
          /\ Cardinality(At("awaiting")') =
                IF pc[c] = "awaiting" THEN Cardinality(At("awaiting")) - 1
                ELSE Cardinality(At("awaiting"))
      BY <1>1, <1>3, Moves DEF Accounts
    <2>2. /\ IsFiniteSet(At("backoff")') /\ Cardinality(At("backoff")) \in Nat
          /\ Cardinality(At("backoff")') <= IF to = "backoff" THEN Cardinality(At("backoff")) + 1
                                            ELSE Cardinality(At("backoff"))
      BY <1>1, <1>3, Moves DEF Accounts
    <2>3. AttemptsMade' = AttemptsMade /\ Started' = Started
      BY <1>3 DEF AttemptsMade, Started
    <2>4. Cardinality(Started) \in Nat
      BY FS_CardinalityType DEF Accounts
    <2>5. /\ Responses \in Nat /\ metrics["attempted"] \in Nat /\ metrics["retries"] \in Nat
          /\ Cardinality(At("backoff")') \in Nat
      BY <1>1, <2>2, FS_CardinalityType DEF Responses, Counters
    <2>6. QED
      BY <1>3, <2>1, <2>2, <2>3, <2>4, <2>5 DEF Accounts
  <1>4. ASSUME NEW c \in Calls, NEW counter \in {{}, {"r429"}, {"r5xx"}},
               Retryable(c, counter)
        PROVE  Accounts'
    <2>1. /\ pc[c] = "awaiting" /\ UNCHANGED sent
          /\ \/ metrics' = Bump(counter \cup {"retries"}) /\ Goto(c, "backoff")
             \/ metrics' = Bump(counter) /\ Goto(c, "exhausted")
      BY <1>4 DEF Retryable
    <2>2. /\ metrics'["attempted"] = metrics["attempted"]
          /\ Responses' \in {Responses, Responses + 1}
      BY <1>1, <2>1 DEF Bump, Counters, Responses
    <2>3. \/ Goto(c, "backoff") /\ metrics'["retries"] = metrics["retries"] + 1
          \/ Goto(c, "exhausted") /\ metrics'["retries"] = metrics["retries"]
      BY <2>1 DEF Bump, Counters
    <2>4. QED
      BY <1>3, <2>1, <2>2, <2>3 DEF Suspended, Ended
  <1>5. ASSUME NEW c \in Calls, Succeed(c) \/ AuthenticationFailure(c)
        PROVE  Accounts'
    <2>1. PICK to \in {"ok", "rejected", "pausing", "auth"}, k \in {"successful", "auth"} :
              pc[c] = "awaiting" /\ UNCHANGED sent /\ metrics' = Bump({k}) /\ Goto(c, to)
      BY <1>5 DEF Succeed, AuthenticationFailure
    <2>2. /\ metrics'["attempted"] = metrics["attempted"]
          /\ metrics'["retries"] = metrics["retries"] /\ Responses' = Responses + 1
      BY <1>1, <2>1 DEF Bump, Counters, Responses
    <2>3. QED
      BY <1>3, <2>1, <2>2 DEF Suspended, Ended
  <1>6. ASSUME NEW c \in Calls,
               RefuseForBudget(c) \/ FinishPause(c) \/ Reject(c) \/ Cancel(c)
        PROVE  Accounts'
    <2>1. PICK to \in {"budget", "ok", "rejected", "cancelled"} :
              pc[c] \in Suspended /\ UNCHANGED <<sent, metrics>> /\ Goto(c, to)
      BY <1>6 DEF RefuseForBudget, FinishPause, Reject, Cancel, Suspended
    <2>2. QED
      BY <1>3, <2>1 DEF Suspended, Ended, Responses
  <1>7. CASE UNCHANGED vars
    BY <1>7 DEF vars, Accounts, AttemptsMade, Started, At, Responses
  <1>8. QED
    BY <1>2, <1>4, <1>5, <1>6, <1>7
       DEF Next, Step, TransportFailure, TooManyRequests, ServerError

\* The metrics account for the attempts of any number of interleaved and cancelled calls:
\* each is counted once, has one response at most, and is its call's first or a retry.
THEOREM MetricsSafe == Spec => []MetricsAccountForAttempts
  <1>1. Init => Accounts
    <2> SUFFICES ASSUME Init PROVE Accounts
      OBVIOUS
    <2>1. AttemptsMade = {} /\ Started = {} /\ At("awaiting") = {} /\ At("backoff") = {}
      BY DEF Init, AttemptsMade, Started, At
    <2>2. QED
      BY <2>1, FS_EmptySet DEF Init, Accounts, Responses, Counters
  <1>2. IInv /\ Accounts /\ [Next]_vars => Accounts'
    BY StepAccounts
  <1>3. IInv /\ Accounts => MetricsAccountForAttempts
    <2> SUFFICES ASSUME IInv, Accounts PROVE MetricsAccountForAttempts
      OBVIOUS
    <2>1. /\ Cardinality(At("backoff")) \in Nat /\ Cardinality(Started) \in Nat
          /\ metrics["attempted"] \in Nat /\ metrics["retries"] \in Nat
      BY FS_CardinalityType DEF Accounts, IInv, TypeOK, Counters
    <2>2. QED
      BY <2>1 DEF Accounts, Responses, MetricsAccountForAttempts
  <1>4. QED
    BY <1>1, <1>2, <1>3, InitIInv, NextIInv, PTL DEF Spec

-----------------------------------------------------------------------------
\* The refinement: the client implements RequestContract.
MappedOutcome == [c \in Calls |-> IF pc[c] \in Ended THEN pc[c] ELSE "running"]

\* Moving a suspended call changes its mapped outcome exactly when it ends it.
LEMMA GotoOutcome ==
    ASSUME TypeOK, NEW c \in Calls, NEW w \in Suspended \cup Ended,
           pc[c] \in Suspended, Goto(c, w)
    PROVE  /\ MappedOutcome[c] = "running"
           /\ w \in Ended => MappedOutcome' = [MappedOutcome EXCEPT ![c] = w]
           /\ w \notin Ended => MappedOutcome' = MappedOutcome
  <1> USE DEF TypeOK, Goto, MappedOutcome, Suspended, Ended
  <1>1. MappedOutcome[c] = "running"
    OBVIOUS
  <1>2. CASE w \in Ended
    <2>1. \A d \in Calls : MappedOutcome'[d] = [MappedOutcome EXCEPT ![c] = w][d]
      BY <1>2
    <2>2. QED
      BY <1>1, <1>2, <2>1
  <1>3. CASE w \notin Ended
    <2>1. \A d \in Calls : MappedOutcome'[d] = MappedOutcome[d]
      BY <1>3
    <2>2. QED
      BY <1>1, <1>3, <2>1
  <1>4. QED
    BY <1>2, <1>3

\* Every step of the client is a step of the contract or leaves its variables alone.
LEMMA ContractStep ==
    ASSUME IInv, [Next]_vars
    PROVE  [Contract!CNext]_(Contract!cvars)
  <1> USE ClientAssumption DEF IInv, TypeOK, AttemptsFitPosition,
          Suspended, Ended, Counters, Goto, Contract!CNext, Contract!cvars
  <1>1. ASSUME NEW c \in Calls, Send(c) PROVE Contract!Spend(c)
    BY <1>1 DEF Send, Contract!Spend, Bump
  <1>2. ASSUME NEW c \in Calls, NEW w \in Ended, pc[c] \in Suspended, Goto(c, w),
               Contract!Justified(c, w), metrics'["attempted"] = metrics["attempted"],
               UNCHANGED sent
        PROVE  Contract!End(c)
    <2>1. MappedOutcome' = [MappedOutcome EXCEPT ![c] = w]
      BY ONLY <1>2, GotoOutcome, TypeOK DEF Ended
    <2>2. MappedOutcome[c] = "running" /\ w \in Contract!Outcomes
      BY <1>2 DEF MappedOutcome, Contract!Outcomes
    <2>3. QED
      BY <1>2, <2>1, <2>2 DEF Contract!End
  <1>3. ASSUME NEW c \in Calls, RefuseForBudget(c) PROVE Contract!End(c)
    <2>1. metrics["attempted"] = Budget
      <3>1. metrics["attempted"] \in Nat
        OBVIOUS
      <3>2. metrics["attempted"] >= Budget /\ metrics["attempted"] <= Budget
        BY <1>3 DEF RefuseForBudget, BudgetNeverExceeded
      <3>3. QED
        BY ONLY <3>1, <3>2, ClientAssumption
    <2>2. sent[c] < MaxRetries + 1
      BY <1>3 DEF RefuseForBudget
    <2>3. Contract!Justified(c, "budget")
      BY <2>1, <2>2 DEF Contract!Justified
    <2>4. QED
      BY <1>2, <1>3, <2>3 DEF RefuseForBudget
  <1>4. ASSUME NEW c \in Calls, NEW counter \in {{}, {"r429"}, {"r5xx"}},
               Retryable(c, counter)
        PROVE  Contract!End(c) \/ UNCHANGED Contract!cvars
    <2>1. CASE Goto(c, "backoff")
      <3>1. metrics'["attempted"] = metrics["attempted"]
        BY <1>4 DEF Retryable, Bump
      <3>2. pc[c] \in Suspended /\ UNCHANGED sent
        BY <1>4 DEF Retryable
      <3>3. MappedOutcome' = MappedOutcome
        <4>1. "backoff" \in Suspended \cup Ended /\ "backoff" \notin Ended
          OBVIOUS
        <4>2. QED
          BY ONLY <2>1, <3>2, <4>1, GotoOutcome, TypeOK
      <3>4. QED
        BY <3>1, <3>2, <3>3 DEF MappedOutcome
    <2>2. CASE Goto(c, "exhausted") /\ sent[c] > MaxRetries
      <3>1. Contract!Justified(c, "exhausted")
        BY <2>2 DEF Contract!Justified
      <3>2. QED
        BY <1>2, <1>4, <2>2, <3>1 DEF Retryable, Bump
    <2>3. QED
      BY <1>4, <2>1, <2>2 DEF Retryable
  <1>5. ASSUME NEW c \in Calls, Succeed(c)
        PROVE  Contract!End(c) \/ UNCHANGED Contract!cvars
    <2>1. CASE Goto(c, "pausing")
      BY <1>5, <2>1, GotoOutcome DEF Succeed, Bump, MappedOutcome
    <2>2. ASSUME NEW w \in {"ok", "rejected"}, Goto(c, w)
          PROVE  Contract!End(c)
      <3>1. Contract!Justified(c, w)
        BY <1>5 DEF Succeed, Contract!Justified
      <3>2. metrics'["attempted"] = metrics["attempted"]
        BY <1>5 DEF Succeed, Bump
      <3>3. pc[c] \in Suspended /\ UNCHANGED sent
        BY <1>5 DEF Succeed
      <3>4. QED
        BY <1>2, <2>2, <3>1, <3>2, <3>3
    <2>3. \E w \in {"ok", "rejected", "pausing"} : Goto(c, w)
      BY <1>5 DEF Succeed
    <2>4. QED
      BY <2>1, <2>2, <2>3
  <1>6. ASSUME NEW c \in Calls,
               \/ FinishPause(c) \/ Reject(c) \/ Cancel(c)
               \/ AuthenticationFailure(c)
        PROVE  Contract!End(c)
    <2>1. PICK w \in {"ok", "rejected", "cancelled", "auth"} :
              /\ Goto(c, w)
              /\ pc[c] \in Suspended
              /\ metrics'["attempted"] = metrics["attempted"]
              /\ UNCHANGED sent
              /\ w \in {"ok", "rejected", "auth"} => sent[c] > 0
      BY <1>6 DEF FinishPause, Reject, Cancel, AuthenticationFailure, Bump
    <2>2. Contract!Justified(c, w)
      BY <2>1 DEF Contract!Justified
    <2>3. QED
      BY <1>2, <2>1, <2>2
  <1>7. CASE UNCHANGED vars
    BY <1>7 DEF vars
  <1>8. QED
    BY <1>1, <1>3, <1>4, <1>5, <1>6, <1>7
       DEF Next, Step, TransportFailure, TooManyRequests, ServerError

\* Callers may reason with RequestContract: every behaviour of the client is one
\* of the contract.
THEOREM ClientImplementsContract == Spec => ImplementsContract
  <1>1. Init => Contract!CInit
    BY DEF Init, Contract!CInit, Ended, Counters
  <1>2. QED
    BY <1>1, InitIInv, NextIInv, ContractStep, PTL
       DEF Spec, ImplementsContract, Contract!ContractSpec
=============================================================================
