----------------------- MODULE PopulationCollectorProofs -----------------------
(***************************************************************************)
(* Proofs about PopulationCollector, for any schedule, histories, payloads *)
(* and stores, bounds, targets, budgets and number of invocations.         *)
(***************************************************************************)
EXTENDS PopulationCollector, FiniteSetTheorems, SequenceTheorems, WellFoundedInduction, TLAPS

-----------------------------------------------------------------------------
(* Types.  What TypeOK says of memory holds of a running process, and the  *)
(* variables that only the control reads have their types where they are   *)
(* read.                                                                   *)

Results == [match : Matches, outcome : CallOutcomes \cup {"cached"}]

WithPlayerAtHand == {"examine", "cover", "history", "page", "register", "relations"}

ControlTyped ==
    /\ ret \in {"migrate", "sample", "resume"}
    /\ todo \subseteq Players
    /\ pos \in Nat
    /\ stage \in Nat
    /\ chunk \in Seq(Matches)
    /\ chunk # <<>> \/ pc \in WithPlayerAtHand => cur \in Players
    /\ pc = "register" => queue \in Seq(Matches)
    /\ pc = "results" => queue \in Seq(Results)

TypeInv == /\ TypeOK
           /\ ControlTyped
           /\ pc # "idle" => mem \in StateType

\* The least and the greatest of two numbers are one of them.
LEMMA MaxOfTwo ==
    ASSUME NEW a \in Int, NEW b \in Int
    PROVE  Max({a, b}) = IF a >= b THEN a ELSE b
  <1>1. CASE a >= b
    BY <1>1 DEF Max
  <1>2. CASE ~(a >= b)
    BY <1>2 DEF Max
  <1>3. QED
    BY <1>1, <1>2

\* The least of two numbers.
LEMMA MinOfTwo ==
    ASSUME NEW a \in Int, NEW b \in Int
    PROVE  Min({a, b}) = IF a <= b THEN a ELSE b
  <1>1. CASE a <= b
    BY <1>1 DEF Min
  <1>2. CASE ~(a <= b)
    BY <1>2 DEF Min
  <1>3. QED
    BY <1>1, <1>2

\* The least of three numbers is one of them and no greater than the second.
LEMMA MinOfThree ==
    ASSUME NEW a \in Int, NEW b \in Int, NEW c \in Int
    PROVE  Min({a, b, c}) \in {a, b, c} /\ Min({a, b, c}) <= b
  <1>1. \E x \in {a, b, c} : \A y \in {a, b, c} : x <= y
    <2>1. CASE a <= b /\ a <= c
      BY <2>1
    <2>2. CASE b <= a /\ b <= c
      BY <2>2
    <2>3. CASE c <= a /\ c <= b
      BY <2>3
    <2>4. QED
      BY <2>1, <2>2, <2>3
  <1>2. QED
    BY <1>1 DEF Min

\* A non-empty set of numbers up to n has a greatest one: n minus the least of their
\* distances from n.
LEMMA GreatestOf ==
    ASSUME NEW n \in Nat, NEW S \in SUBSET (0 .. n), S # {}
    PROVE  \E x \in S : \A y \in S : x >= y
  <1> DEFINE R == {p \in Nat \X Nat : p[1] < p[2]}
             T == {n - x : x \in S}
  <1>1. IsWellFoundedOn(R, Nat)
    BY NatLessThanWellFounded DEF OpToRel
  <1>2. T \subseteq Nat /\ T # {}
    <2>1. PICK x \in S : TRUE
      OBVIOUS
    <2>2. n - x \in T
      BY <2>1
    <2>3. \A y \in S : n - y \in Nat
      OBVIOUS
    <2>4. QED
      BY <2>2, <2>3
  <1>3. PICK t \in T : \A u \in T : <<u, t>> \notin R
    <2> HIDE DEF R, T
    <2>1. QED
      BY <1>1, <1>2, WFMin
  <1>4. PICK x \in S : t = n - x
    BY <1>3
  <1>5. \A y \in S : x >= y
    <2>1. TAKE y \in S
    <2>2. n - y \in T /\ n - y \in Nat /\ t \in Nat
      BY <1>2
    <2>3. ~(n - y < t)
      BY <1>3, <2>2
    <2>4. QED
      BY <1>4, <2>3
  <1>6. QED
    BY <1>5

\* A checkpoint keeps its type when a player's record changes.
LEMMA PlayerUpdate ==
    ASSUME NEW st \in StateType, NEW p \in Players, NEW rec \in PlayerType
    PROVE  WithPlayer(st, p, rec) \in StateType
  BY DEF WithPlayer, StateType

\* And when a match's record changes.
LEMMA MatchUpdate ==
    ASSUME NEW st \in StateType, NEW m \in Matches, NEW status \in MatchStatuses
    PROVE  WithMatch(st, m, status) \in StateType
  BY DEF WithMatch, StateType

\* A new run's state is one.
LEMMA NewStateTyped == NewState \in StateType
  <1>1. NewPlayer \in PlayerType
    BY DEF NewPlayer, PlayerType, PlayerStatuses
  <1>2. "unknown" \in MatchStatuses
    BY DEF MatchStatuses
  <1>3. QED
    BY <1>1, <1>2 DEF NewState, StateType

\* The request budgets are numbers.
LEMMA BudgetTyped == MaxRequests \in Nat /\ MaxInvocations \in Nat /\ Grants \subseteq 0 .. MaxRequests
  BY CollectorAssumption

\* What is spent within the rest of the grant is no more than the grant.
LEMMA SpentTyped ==
    ASSUME TypeOK, NEW calls, NEW outcome, NEW n \in 0 .. MaxRequests, Spends(calls, outcome, n),
           used' = used + n
    PROVE  used' \in 0 .. grant
  <1>1. /\ MaxRequests \in Nat /\ grant \in 0 .. MaxRequests /\ used \in 0 .. grant
        /\ n <= grant - used
    BY BudgetTyped DEF TypeOK, Spends
  <1>2. QED
    BY <1>1

\* A call spends no more than the invocation may.
LEMMA CallTyped ==
    ASSUME TypeOK, NEW outcome, Call(outcome)
    PROVE  used' \in 0 .. grant
  BY SpentTyped DEF Call

\* Control that keeps the stores, the world and the client's counts keeps the types
\* if it keeps those of the state, the checkpoint and its own variables.
LEMMA Framed ==
    ASSUME TypeInv, UNCHANGED <<world, stores, config, grant, fetched, invocations>>,
           mem' \in StateType, ckpt' \in StateType, used' \in 0 .. grant, ControlTyped'
    PROVE  TypeInv'
  BY DEF TypeInv, TypeOK, world, stores, config

\* The initial states have the types.
LEMMA InitTypes == Init => TypeInv
  <1>1. ASSUME Init
        PROVE  TypeInv
    <2>1. PICK w \in Worlds :
              /\ kind = w.kind /\ external = w.external /\ raw = w.raw
              /\ norm = w.norm /\ catalog = w.catalog
              /\ wide \in BOOLEAN /\ target \in Targets
              /\ ckpt = NewState /\ mem = Absent /\ pc = "idle"
              /\ grant = 0 /\ used = 0 /\ todo = {} /\ cur = Absent /\ ret = "sample"
              /\ pos = 0 /\ chunk = <<>> /\ queue = <<>> /\ stage = 0
              /\ fetched = [m \in Matches |-> 0] /\ invocations = 0
      BY <1>1 DEF Init
    <2>2. TypeOK
      BY <2>1, NewStateTyped, WorldsAssumption, CollectorAssumption DEF TypeOK, Rows
    <2>3. ControlTyped
      BY <2>1 DEF ControlTyped, WithPlayerAtHand
    <2>4. QED
      BY <2>1, <2>2, <2>3 DEF TypeInv
  <1>2. QED
    BY <1>1

\* Starting an invocation keeps them: requests that failed are pending again.
LEMMA StartTypes ==
    ASSUME TypeInv, Start
    PROVE  TypeInv'
  <1>1. mem' \in StateType
    <2>1. "pending" \in MatchStatuses
      BY DEF MatchStatuses
    <2>2. ckpt \in StateType
      BY DEF TypeInv, TypeOK
    <2>3. QED
      BY <2>1, <2>2 DEF Start, StateType
  <1>2. /\ kind' = kind /\ external' = external /\ raw' = raw /\ norm' = norm
        /\ catalog' = catalog /\ ckpt' = ckpt
    BY DEF Start, world, stores
  <1>3. wide' \in BOOLEAN /\ target' \in Targets
    BY DEF Start, TypeInv, TypeOK
  <1>4. grant' \in 0 .. MaxRequests /\ used' \in 0 .. grant'
    BY BudgetTyped DEF Start
  <1>5. invocations' \in 0 .. MaxInvocations /\ fetched' \in [Matches -> Nat]
    BY BudgetTyped DEF Start, TypeInv, TypeOK
  <1>6. TypeOK'
    BY <1>1, <1>2, <1>3, <1>4, <1>5 DEF TypeInv, TypeOK
  <1>7. ControlTyped'
    BY DEF Start, ControlTyped, WithPlayerAtHand
  <1>8. QED
    BY <1>1, <1>6, <1>7 DEF TypeInv

\* So does the end of the process, if the checkpoint is left in its type.
LEMMA ExitTypes ==
    ASSUME TypeInv, Exit, ckpt' \in StateType
    PROVE  TypeInv'
  <1>1. TypeOK'
    BY BudgetTyped DEF TypeInv, TypeOK, Exit, world, config, stores
  <1>2. ControlTyped'
    BY DEF Exit, ControlTyped, WithPlayerAtHand
  <1>3. QED
    BY <1>1, <1>2 DEF TypeInv, Exit

\* The cursor moves within its type.
LEMMA CursorMovedTyped ==
    ASSUME mem \in StateType
    PROVE  CursorMoved \in StateType
  BY DEF CursorMoved, StateType

\* Every way an invocation ends keeps the types.
LEMMA EndTypes ==
    ASSUME TypeInv, Complete \/ Abort \/ Interrupt \/ Crash
    PROVE  TypeInv'
  <1>1. pc # "idle" /\ Exit
    BY DEF Complete, Abort, Interrupt, Crash, AtAwait, Sampling
  <1>2. mem \in StateType /\ ckpt \in StateType
    BY <1>1 DEF TypeInv, TypeOK
  <1>3. ckpt' \in {ckpt, mem, CursorMoved}
    BY DEF Complete, Abort, Interrupt, Crash
  <1>4. QED
    BY <1>1, <1>2, <1>3, CursorMovedTyped, ExitTypes

-----------------------------------------------------------------------------
(* Types of the downloads and their results.                               *)

\* A function on 1 .. n is a sequence of that length.
LEMMA FunctionIsSequence ==
    ASSUME NEW S, NEW n \in Nat, NEW f \in [1 .. n -> S]
    PROVE  f \in Seq(S) /\ Len(f) = n
  <1>1. f \in Seq(S)
    BY SeqDef
  <1>2. Len(f) \in Nat /\ 1 .. n = 1 .. Len(f)
    BY <1>1, LenProperties
  <1>3. QED
    BY <1>1, <1>2

\* A list of matches with an outcome each is a queue of results.
LEMMA ResultList ==
    ASSUME NEW n \in Nat, NEW list \in [1 .. n -> Matches],
           NEW outcome \in [1 .. n -> CallOutcomes \cup {"cached"}],
           NEW results,
           results = [i \in 1 .. Len(list) |-> [match |-> list[i], outcome |-> outcome[i]]]
    PROVE  /\ results \in Seq(Results)
           /\ Len(list) = n
           /\ Len(results) = n
           /\ \A i \in 1 .. n : /\ results[i].match = list[i]
                                /\ results[i].outcome = outcome[i]
  <1>1. Len(list) = n
    BY FunctionIsSequence
  <1>2. results \in [1 .. n -> Results]
    BY <1>1 DEF Results
  <1>3. results \in Seq(Results) /\ Len(results) = n
    BY <1>2, FunctionIsSequence
  <1>4. QED
    BY <1>1, <1>3

\* Every set of matches is finite.
LEMMA MatchesFinite ==
    ASSUME NEW S \in SUBSET Matches
    PROVE  IsFiniteSet(S) /\ Cardinality(S) \in Nat
  BY CollectorAssumption, FS_Subset, FS_CardinalityType

\* The order in which a set of matches is taken.
LEMMA OrderOfMatches ==
    ASSUME NEW S \in SUBSET Matches, NEW list \in SetToSeqs(S)
    PROVE  Cardinality(S) \in Nat /\ list \in [1 .. Cardinality(S) -> S]
  BY MatchesFinite DEF SetToSeqs

\* The number of some of the elements of a list.
LEMMA CountTyped ==
    ASSUME NEW n \in Nat, NEW S \in SUBSET (1 .. n)
    PROVE  Cardinality(S) \in Nat
  <1>1. IsFiniteSet(1 .. n)
    BY FS_Interval
  <1>2. QED
    BY <1>1, FS_Subset, FS_CardinalityType

\* The migration: a queue of retained payloads.
LEMMA MigrateTypes ==
    ASSUME TypeInv, MigrateRecords
    PROVE  TypeInv'
  <1>1. mem \in StateType /\ ckpt \in StateType
    BY DEF MigrateRecords, TypeInv, TypeOK
  <1>2. mem' \in StateType
    <2>1. "pending" \in MatchStatuses
      BY DEF MatchStatuses
    <2>2. QED
      BY <1>1, <2>1 DEF MigrateRecords, Keep, StateType
  <1>3. queue' \in Seq(Results)
    <2>1. PICK S \in SUBSET Matches : \E list \in SetToSeqs(S) :
              queue' = [i \in 1 .. Len(list) |-> [match |-> list[i], outcome |-> "cached"]]
      BY DEF MigrateRecords
    <2>2. PICK list \in SetToSeqs(S) :
              queue' = [i \in 1 .. Len(list) |-> [match |-> list[i], outcome |-> "cached"]]
      BY <2>1
    <2>3. Cardinality(S) \in Nat /\ list \in [1 .. Cardinality(S) -> Matches]
      BY OrderOfMatches
    <2>4. Len(list) = Cardinality(S)
      BY <2>3, FunctionIsSequence
    <2>5. queue' \in [1 .. Cardinality(S) -> Results]
      BY <2>2, <2>3, <2>4 DEF Results
    <2>6. QED
      BY <2>3, <2>5, FunctionIsSequence
  <1>4. ControlTyped'
    BY <1>3 DEF MigrateRecords, TypeInv, ControlTyped, WithPlayerAtHand
  <1>5. ckpt' = ckpt /\ used' = used
    BY DEF MigrateRecords, Keep, client
  <1>6. QED
    BY <1>1, <1>2, <1>4, <1>5, Framed
       DEF MigrateRecords, TypeInv, TypeOK, client

\* Gathered downloads: results of the matches of the list, in its order.
LEMMA GatherTypes ==
    ASSUME TypeInv, NEW n \in Nat, NEW list \in [1 .. n -> Matches], GatherDownloads(list)
    PROVE  /\ queue' \in Seq(Results)
           /\ Len(queue') = n
           /\ \A i \in 1 .. n :
                 /\ queue'[i].match = list[i]
                 /\ queue'[i].outcome = "cached" => CachedRaw(list[i])
           /\ fetched' \in [Matches -> Nat]
           /\ used' \in 0 .. grant
           /\ stage' = 0 /\ pc' = "results" /\ grant' = grant
  <1>1. PICK outcome \in [1 .. Len(list) -> CallOutcomes \cup {"cached"}], spent \in 0 .. MaxRequests :
            LET calls == {i \in 1 .. Len(list) : outcome[i] # "cached"}
            IN  /\ \A i \in 1 .. Len(list) : outcome[i] = "cached" <=> CachedRaw(list[i])
                /\ Spends(calls, outcome, spent)
                /\ used' = used + spent
                /\ queue' = [i \in 1 .. Len(list) |-> [match |-> list[i], outcome |-> outcome[i]]]
                /\ fetched' = [m \in Matches |->
                      fetched[m] + Cardinality({i \in calls : list[i] = m /\ outcome[i] = "ok"})]
                /\ stage' = 0
                /\ pc' = "results"
                /\ UNCHANGED grant
    BY DEF GatherDownloads
  <1>2. Len(list) = n
    BY FunctionIsSequence
  <1>3. /\ queue' \in Seq(Results)
        /\ Len(queue') = n
        /\ \A i \in 1 .. n : queue'[i].match = list[i] /\ queue'[i].outcome = outcome[i]
    BY <1>1, <1>2, ResultList
  <1> DEFINE calls == {i \in 1 .. Len(list) : outcome[i] # "cached"}
             downloads(m) == {i \in calls : list[i] = m /\ outcome[i] = "ok"}
  <1>4. \A m \in Matches : Cardinality(downloads(m)) \in Nat
    <2>1. TAKE m \in Matches
    <2>2. downloads(m) \in SUBSET (1 .. n)
      BY <1>2
    <2>3. QED
      BY <2>2, CountTyped
  <1>5. fetched' \in [Matches -> Nat]
    <2>1. fetched' = [m \in Matches |-> fetched[m] + Cardinality(downloads(m))]
      BY <1>1
    <2>2. fetched \in [Matches -> Nat]
      BY DEF TypeInv, TypeOK
    <2> HIDE DEF downloads
    <2>3. QED
      BY <1>4, <2>1, <2>2
  <1>6. used' \in 0 .. grant
    BY <1>1, SpentTyped DEF TypeInv
  <1>7. QED
    BY <1>1, <1>2, <1>3, <1>5, <1>6

\* What the target still lacks is a number.
LEMMA RemainingTyped ==
    ASSUME TypeInv
    PROVE  Remaining \in Int
  <1>1. AcceptedCount(mem) \in Nat
    BY MatchesFinite DEF AcceptedCount, Accepted
  <1>2. target \in Nat
    BY CollectorAssumption DEF TypeInv, TypeOK
  <1>3. QED
    BY <1>1, <1>2 DEF Remaining

\* No element of the list occurs twice.
Distinct(list) == \A i, j \in 1 .. Len(list) : list[i] = list[j] => i = j

\* _download_pending gathers a list of pending matches, as many as the target lacks and
\* each once.
LEMMA PendingList ==
    ASSUME TypeInv, DownloadPending
    PROVE  \E n \in Nat : /\ n # 0 => n <= Remaining
                          /\ \E list \in [1 .. n -> PendingMatches] :
                                GatherDownloads(list) /\ Distinct(list)
  <1> DEFINE size == Min({Concurrency, Remaining, Cardinality(PendingMatches)})
  <1>1. PICK list \in [1 .. size -> PendingMatches] :
            /\ GatherDownloads(list)
            /\ \A i, j \in 1 .. size : list[i] = list[j] => i = j
    BY DEF DownloadPending
  <1>2. Cardinality(PendingMatches) \in Nat
    BY MatchesFinite DEF PendingMatches
  <1>3. Remaining > 0
    <2>1. AcceptedCount(mem) \in Nat
      BY MatchesFinite DEF AcceptedCount, Accepted
    <2>2. target \in Nat
      BY CollectorAssumption DEF TypeInv, TypeOK
    <2>3. ~(AcceptedCount(mem) >= target)
      BY DEF DownloadPending, DownloadShouldStop, TargetReached
    <2>4. QED
      BY <2>1, <2>2, <2>3 DEF Remaining
  <1>4. /\ Min({Concurrency, Remaining, Cardinality(PendingMatches)}) \in Nat
        /\ Min({Concurrency, Remaining, Cardinality(PendingMatches)}) <= Remaining
    <2>1. Concurrency \in Nat /\ Remaining \in Nat
      BY <1>3, RemainingTyped, CollectorAssumption
    <2> DEFINE pending == Cardinality(PendingMatches)
    <2>2. pending \in Nat
      BY <1>2
    <2> HIDE DEF pending
    <2>3. /\ Min({Concurrency, Remaining, pending}) \in {Concurrency, Remaining, pending}
          /\ Min({Concurrency, Remaining, pending}) <= Remaining
      BY <2>1, <2>2, MinOfThree
    <2>4. /\ Min({Concurrency, Remaining, pending}) \in Nat
          /\ Min({Concurrency, Remaining, pending}) <= Remaining
      BY <2>1, <2>2, <2>3
    <2>5. QED
      BY <2>4 DEF pending
  <1> HIDE DEF size
  <1>5. size \in Nat /\ size <= Remaining
    BY <1>4 DEF size
  <1>6. Distinct(list)
    BY <1>1, <1>5, FunctionIsSequence DEF Distinct
  <1>7. QED
    BY <1>1, <1>5, <1>6

\* The pending matches of a chunk are cut to what the target lacks: the last of those
\* that are gathered has no more than that many before it and itself.
LEMMA ChunkCut ==
    ASSUME TypeInv, ChunkPending # {}
    PROVE  Cardinality(ChunkPending) <= Remaining
  <1> DEFINE pending == {i \in DOMAIN chunk : mem.matches[chunk[i]] = "pending"}
             upTo(i) == {j \in pending : j <= i}
  <1>1. Len(chunk) \in Nat /\ DOMAIN chunk = 1 .. Len(chunk)
    BY LenProperties DEF TypeInv, ControlTyped
  <1>2. ChunkPending \in SUBSET (0 .. Len(chunk)) /\ ChunkPending \subseteq pending
    BY <1>1 DEF ChunkPending
  <1>3. PICK last \in ChunkPending : \A i \in ChunkPending : last >= i
    BY <1>1, <1>2, GreatestOf
  <1>4. ChunkPending \subseteq upTo(last)
    BY <1>2, <1>3
  <1>5. IsFiniteSet(upTo(last)) /\ Cardinality(upTo(last)) \in Nat
    <2>1. upTo(last) \in SUBSET (1 .. Len(chunk))
      BY <1>1
    <2>2. IsFiniteSet(1 .. Len(chunk))
      BY <1>1, FS_Interval
    <2> HIDE DEF upTo
    <2>3. QED
      BY <2>1, <2>2, FS_Subset, FS_CardinalityType
  <1>6. Cardinality(upTo(last)) <= Remaining
    BY <1>3 DEF ChunkPending
  <1> HIDE DEF upTo
  <1>7. Cardinality(ChunkPending) <= Cardinality(upTo(last)) /\ Cardinality(ChunkPending) \in Nat
    BY <1>4, <1>5, FS_Subset, FS_CardinalityType
  <1>8. QED
    BY <1>5, <1>6, <1>7, RemainingTyped

\* A chunk gathers a list of its pending matches, as many as the target lacks and each as
\* often as the chunk has it.
LEMMA ChunkList ==
    ASSUME TypeInv, DownloadChunk
    PROVE  \E n \in Nat : /\ n # 0 => n <= Remaining
                          /\ \E list \in [1 .. n -> PendingMatches] :
                                GatherDownloads(list) /\ (Distinct(chunk) => Distinct(list))
  <1>1. PICK at \in [1 .. Cardinality(ChunkPending) -> ChunkPending] :
            /\ \A i, j \in DOMAIN at : i < j => at[i] < at[j]
            /\ GatherDownloads([i \in DOMAIN at |-> chunk[at[i]]])
    BY DEF DownloadChunk
  <1>2. chunk \in Seq(Matches) /\ Len(chunk) \in Nat /\ DOMAIN chunk = 1 .. Len(chunk)
    BY LenProperties DEF TypeInv, ControlTyped
  <1>3. ChunkPending \in SUBSET (1 .. Len(chunk))
    BY <1>2 DEF ChunkPending
  <1>4. Cardinality(ChunkPending) \in Nat
    BY <1>2, <1>3, CountTyped
  <1>5. \A i \in ChunkPending : chunk[i] \in PendingMatches
    BY <1>2, ElementOfSeq DEF ChunkPending, PendingMatches
  <1>6. [i \in DOMAIN at |-> chunk[at[i]]] \in [1 .. Cardinality(ChunkPending) -> PendingMatches]
    BY <1>5
  <1>7. Cardinality(ChunkPending) # 0 => Cardinality(ChunkPending) <= Remaining
    <2>1. CASE ChunkPending = {}
      BY <2>1, FS_EmptySet
    <2>2. CASE ChunkPending # {}
      BY <2>2, ChunkCut
    <2>3. QED
      BY <2>1, <2>2
  <1>8. ASSUME Distinct(chunk)
        PROVE  Distinct([i \in DOMAIN at |-> chunk[at[i]]])
    <2> DEFINE size == Cardinality(ChunkPending)
               list == [i \in DOMAIN at |-> chunk[at[i]]]
    <2>1. Len(list) = size /\ DOMAIN at = 1 .. size /\ size \in Nat
      BY <1>4, <1>6, FunctionIsSequence
    <2>2. ASSUME NEW i \in 1 .. size, NEW j \in 1 .. size, list[i] = list[j]
          PROVE  i = j
      <3>1. at[i] \in 1 .. Len(chunk) /\ at[j] \in 1 .. Len(chunk)
        BY <1>3, <2>1
      <3>2. chunk[at[i]] = chunk[at[j]]
        BY <2>1, <2>2
      <3>3. at[i] = at[j]
        BY <1>8, <3>1, <3>2 DEF Distinct
      <3>4. i < j => at[i] < at[j]
        BY <1>1, <2>1
      <3>5. j < i => at[j] < at[i]
        BY <1>1, <2>1
      <3> HIDE DEF size, list
      <3>6. QED
        BY <1>2, <2>1, <3>1, <3>3, <3>4, <3>5
    <2> HIDE DEF size, list
    <2>3. QED
      BY <2>1, <2>2 DEF Distinct, list
  <1>9. QED
    BY <1>1, <1>4, <1>6, <1>7, <1>8

\* Both keep the types.
LEMMA DownloadTypes ==
    ASSUME TypeInv, DownloadPending \/ DownloadChunk
    PROVE  TypeInv'
  <1>1. PICK n \in Nat : \E list \in [1 .. n -> PendingMatches] : GatherDownloads(list)
    BY PendingList, ChunkList
  <1>2. PICK list \in [1 .. n -> PendingMatches] : GatherDownloads(list)
    BY <1>1
  <1>3. list \in [1 .. n -> Matches]
    BY DEF PendingMatches
  <1>4. /\ queue' \in Seq(Results) /\ fetched' \in [Matches -> Nat] /\ used' \in 0 .. grant
        /\ stage' = 0 /\ pc' = "results" /\ grant' = grant
    BY <1>2, <1>3, GatherTypes
  <1>5. /\ UNCHANGED <<world, config, stores, ckpt, mem, todo, cur, ret, pos, chunk, invocations>>
        /\ pc # "idle"
    BY DEF DownloadPending, DownloadChunk
  <1>6. TypeOK'
    BY <1>4, <1>5 DEF TypeInv, TypeOK, world, config, stores
  <1>7. ControlTyped'
    <2>1. chunk # <<>> => cur \in Players
      BY DEF TypeInv, ControlTyped
    <2>2. QED
      BY <1>4, <1>5, <2>1 DEF TypeInv, ControlTyped, WithPlayerAtHand
  <1>8. QED
    BY <1>5, <1>6, <1>7 DEF TypeInv

\* A queue is a head and a tail.
LEMMA QueueTyped ==
    ASSUME TypeInv, pc = "results", queue # <<>>
    PROVE  /\ queue \in Seq(Results)
           /\ Result = queue[1]
           /\ Result \in Results
           /\ Result.match \in Matches
           /\ Tail(queue) \in Seq(Results)
  <1>1. queue \in Seq(Results)
    BY DEF TypeInv, ControlTyped
  <1>2. QED
    <2>1. Head(queue) \in Results /\ Tail(queue) \in Seq(Results)
      BY <1>1, HeadTailProperties
    <2>2. Head(queue).match \in Matches
      BY <2>1 DEF Results
    <2>3. Head(queue) = queue[1]
      BY <1>1
    <2>4. QED
      BY <1>1, <2>1, <2>2, <2>3 DEF Result

\* The statuses and codes of a payload that is refused.
LEMMA RejectTyped ==
    ASSUME NEW k \in Kinds, k # "target", k # "invalid"
    PROVE  /\ RejectCode(k) \in RejectCodes
           /\ RejectStatus(RejectCode(k)) \in MatchStatuses
           /\ RejectStatus(RejectCode(k)) \notin AcceptedStatuses
  BY CollectorAssumption
     DEF Kinds, RejectCode, RejectCodes, RejectStatus, MatchStatuses, AcceptedStatuses

\* Only such a payload is refused.
LEMMA RefusedKind ==
    ASSUME TypeInv, pc = "results", Usable, ~Acceptable(Result.match)
    PROVE  kind[Result.match] \in Kinds \ {"target", "invalid"}
  <1>1. kind[Result.match] \in Kinds
    BY QueueTyped DEF Usable, TypeInv, TypeOK
  <1>2. QED
    BY <1>1 DEF Usable, Acceptable, InWindow

\* The results' own control: what follows leaves the rest of it alone.
LEMMA ResultControl ==
    ASSUME TypeInv, pc = "results", UNCHANGED <<todo, cur, ret, pos, chunk>>,
           stage' \in Nat,
           queue' \in Seq(Results),
           pc' \in {"results", "pending", "abort"}
    PROVE  ControlTyped'
  BY DEF TypeInv, ControlTyped, WithPlayerAtHand

\* A result that holds no payload to process changes one record.
LEMMA UnusableTypes ==
    ASSUME TypeInv, ResultUnusable
    PROVE  TypeInv'
  <1>1. /\ pc = "results" /\ queue # <<>>
        /\ UNCHANGED <<world, config, stores, client, todo, cur, ret, pos, chunk, invocations>>
    BY DEF ResultUnusable
  <1>2. mem \in StateType /\ ckpt \in StateType /\ used \in 0 .. grant
    BY <1>1 DEF TypeInv, TypeOK
  <1>3. ckpt' = ckpt
    BY DEF ResultUnusable, Keep
  <1>4. mem' \in StateType
    <2>1. /\ WithMatch(mem, Result.match, "rejected_schema") \in StateType
          /\ WithMatch(mem, Result.match, "request_failed") \in StateType
      BY <1>1, <1>2, QueueTyped, MatchUpdate DEF MatchStatuses
    <2>2. QED
      BY <1>2, <2>1 DEF ResultUnusable, Keep
  <1>5. /\ queue' \in {Tail(queue), <<>>} /\ stage' = 0
        /\ pc' \in {"results", "pending", "abort"}
    BY <1>1 DEF ResultUnusable, PopResult
  <1>6. ControlTyped'
    <2>1. queue' \in Seq(Results)
      <3>1. Tail(queue) \in Seq(Results) /\ <<>> \in Seq(Results)
        BY <1>1, QueueTyped
      <3>2. QED
        BY <1>5, <3>1
    <2>2. UNCHANGED <<todo, cur, ret, pos, chunk>>
      BY <1>1
    <2>3. stage' \in Nat /\ pc' \in {"results", "pending", "abort"}
      BY <1>5
    <2>4. QED
      BY <1>1, <2>1, <2>2, <2>3, ResultControl
  <1>7. QED
    BY <1>1, <1>2, <1>3, <1>4, <1>6, Framed DEF client

\* The three writes of a payload, and its rejection.
LEMMA WriteTypes ==
    ASSUME TypeInv, WriteRaw \/ WriteNormalizedFile \/ RecordProcessed \/ RecordRejected
    PROVE  TypeInv'
  <1>1. /\ pc = "results" /\ Usable /\ queue # <<>>
        /\ UNCHANGED <<world, config, client, todo, cur, ret, pos, chunk, invocations, pc, ckpt>>
    BY DEF WriteRaw, WriteNormalizedFile, RecordProcessed, RecordRejected, RawDone, Usable, Keep
  <1>2. mem \in StateType /\ Result.match \in Matches
    BY <1>1, QueueTyped DEF TypeInv, TypeOK
  <1>3. mem' \in StateType
    <2>1. CASE WriteRaw
      <3>1. mem.rawPath \cup {Result.match} \in SUBSET Matches
        BY <1>2 DEF StateType
      <3>2. mem' = [mem EXCEPT !.rawPath = mem.rawPath \cup {Result.match}]
        BY <2>1 DEF WriteRaw, Keep
      <3>3. QED
        BY <1>2, <3>1, <3>2 DEF StateType
    <2>2. CASE WriteNormalizedFile
      BY <1>2, <2>2 DEF WriteNormalizedFile
    <2>3. CASE RecordProcessed
      <3>1. "accepted" \in MatchStatuses
        BY DEF MatchStatuses
      <3>2. QED
        BY <1>2, <2>3, <3>1, MatchUpdate DEF RecordProcessed, Keep
    <2>4. CASE RecordRejected
      <3> DEFINE code == RejectCode(kind[Result.match])
                 st == WithMatch(mem, Result.match, RejectStatus(code))
      <3>1. RejectStatus(code) \in MatchStatuses
        BY <1>1, <2>4, RefusedKind, RejectTyped DEF RecordRejected
      <3>2. st \in StateType
        BY <1>2, <3>1, MatchUpdate
      <3>3. mem' = [st EXCEPT !.transition = @ \/ code = "newer_patch_transition"]
        BY <2>4 DEF RecordRejected, Keep
      <3> HIDE DEF st, code
      <3>4. st.transition \in BOOLEAN
        BY <3>2 DEF StateType
      <3>5. (st.transition \/ code = "newer_patch_transition") \in BOOLEAN
        OBVIOUS
      <3>6. QED
        BY <3>2, <3>3, <3>5 DEF StateType
    <2>5. QED
      BY <2>1, <2>2, <2>3, <2>4
  <1>4. /\ raw' \subseteq Snapshots \X Matches
        /\ norm' \in [Matches -> 0 .. NormalizedFiles]
        /\ catalog' \in [Matches -> {Absent} \cup Rows]
    <2> USE DEF Snapshots
    <2>1. /\ raw \subseteq Snapshots \X Matches
          /\ norm \in [Matches -> 0 .. NormalizedFiles]
          /\ catalog \in [Matches -> {Absent} \cup Rows]
      BY DEF TypeInv, TypeOK
    <2>2. CASE WriteRaw
      BY <1>2, <2>1, <2>2 DEF WriteRaw
    <2>3. CASE WriteNormalizedFile
      <3>1. FilesWritten + 1 \in 1 .. NormalizedFiles
        BY <2>3 DEF WriteNormalizedFile, NormalizedFiles
      <3>2. norm[Result.match] \in 0 .. NormalizedFiles
        BY <1>2, <2>1
      <3>3. Max({norm[Result.match], FilesWritten + 1}) \in 0 .. NormalizedFiles
        BY <3>1, <3>2, MaxOfTwo DEF NormalizedFiles
      <3>4. QED
        BY <2>1, <2>3, <3>3 DEF WriteNormalizedFile
    <2>4. CASE RecordProcessed
      <3>1. [result |-> "processed", source |-> "this"] \in Rows
        BY DEF Rows
      <3>2. QED
        BY <2>1, <2>4, <3>1 DEF RecordProcessed
    <2>5. CASE RecordRejected
      <3> DEFINE code == RejectCode(kind[Result.match])
      <3>1. code \in RejectCodes
        BY <1>1, <2>5, RefusedKind, RejectTyped DEF RecordRejected
      <3>2. [result |-> code, source |-> "this"] \in Rows
        BY <3>1 DEF Rows
      <3> HIDE DEF code
      <3>3. catalog' \in {catalog, [catalog EXCEPT ![Result.match] =
                                       [result |-> code, source |-> "this"]]}
        BY <2>5 DEF RecordRejected, code
      <3>4. QED
        BY <2>1, <2>5, <3>2, <3>3 DEF RecordRejected
    <2>6. QED
      BY <2>2, <2>3, <2>4, <2>5
  <1>5. stage' \in Nat
    BY DEF WriteRaw, WriteNormalizedFile, RecordProcessed, RecordRejected, PopResult,
           TypeInv, ControlTyped
  <1>6. queue' \in Seq(Results)
    BY <1>1, QueueTyped
       DEF WriteRaw, WriteNormalizedFile, RecordProcessed, RecordRejected, PopResult
  <1>7. ControlTyped'
    BY <1>1, <1>5, <1>6, ResultControl
  <1>8. TypeOK'
    BY <1>1, <1>3, <1>4 DEF TypeInv, TypeOK, world, config, client
  <1>9. QED
    BY <1>3, <1>7, <1>8 DEF TypeInv

\* A result that raises, and the end of the results.
LEMMA RaiseTypes ==
    ASSUME TypeInv, ResultRaises \/ ResultsDone
    PROVE  TypeInv'
  <1>1. /\ pc = "results" /\ queue' = <<>>
        /\ UNCHANGED <<world, config, stores, client, todo, cur, pos, chunk, invocations>>
    BY DEF ResultRaises, ResultsDone
  <1>2. mem \in StateType /\ ckpt \in StateType /\ used \in 0 .. grant
    BY <1>1 DEF TypeInv, TypeOK
  <1>3. mem' \in StateType /\ ckpt' \in StateType
    <2>1. CASE ResultRaises
      <3>1. CASE RawDone /\ ~Acceptable(Result.match)
        <4>1. Result.match \in Matches
          BY <1>1, <3>1, QueueTyped DEF RawDone, Usable
        <4>2. RejectStatus(RejectCode(kind[Result.match])) \in MatchStatuses
          BY <1>1, <3>1, RefusedKind, RejectTyped DEF RawDone
        <4>3. QED
          BY <1>2, <2>1, <4>1, <4>2, MatchUpdate DEF ResultRaises, Keep
      <3>2. CASE ~(RawDone /\ ~Acceptable(Result.match))
        BY <1>2, <2>1, <3>2 DEF ResultRaises
      <3>3. QED
        BY <3>1, <3>2
    <2>2. CASE ResultsDone
      BY <1>2, <2>2 DEF ResultsDone, Save
    <2>3. QED
      BY <2>1, <2>2
  <1>4. ControlTyped'
    BY <1>1 DEF ResultRaises, ResultsDone, InChunk, TypeInv, ControlTyped, WithPlayerAtHand
  <1>5. QED
    BY <1>1, <1>2, <1>3, <1>4, Framed DEF client

-----------------------------------------------------------------------------
(* Types of sampling and of the players' histories.                        *)

\* Control that keeps everything but itself.
LEMMA MoveTypes ==
    ASSUME TypeInv, PendingDone \/ ResumePlayer \/ ResumeDone \/ SamplingDone \/ HistoryStops
                    \/ ResumePage \/ NextChunk
    PROVE  TypeInv'
  <1>1. /\ pc # "idle"
        /\ UNCHANGED <<world, stores, config, grant, fetched, invocations, ckpt, mem, used>>
    BY DEF PendingDone, ResumePlayer, ResumeDone, SamplingDone, HistoryStops, ResumePage,
           NextChunk, MoveTo, client
  <1>2. mem \in StateType /\ ckpt \in StateType /\ used \in 0 .. grant
    BY <1>1 DEF TypeInv, TypeOK
  <1>3. ControlTyped'
    <2>1. CASE PendingDone
      BY <2>1 DEF PendingDone, KnownPlayers, TypeInv, ControlTyped, WithPlayerAtHand
    <2>2. CASE ResumePlayer
      BY <2>2 DEF ResumePlayer, EnterHistory, TypeInv, ControlTyped, WithPlayerAtHand
    <2>3. CASE ResumeDone \/ SamplingDone \/ HistoryStops
      BY <2>3 DEF ResumeDone, SamplingDone, HistoryStops, MoveTo, control, TypeInv, ControlTyped,
                  WithPlayerAtHand
    <2>4. CASE ResumePage
      BY <2>4 DEF ResumePage, TypeInv, ControlTyped, WithPlayerAtHand
    <2>5. CASE NextChunk
      <3>1. cur \in Players /\ pos \in Nat
        BY <2>5 DEF NextChunk, TypeInv, ControlTyped, WithPlayerAtHand
      <3>2. Player.page \in Seq(Matches)
        BY <1>2, <3>1 DEF Player, StateType, PlayerType
      <3> DEFINE last == Min({pos + Concurrency, Len(Player.page)})
      <3>3. Len(Player.page) \in Nat /\ Concurrency \in Nat
        BY <3>2, LenProperties, CollectorAssumption
      <3>4. last \in Int /\ last <= Len(Player.page)
        BY <3>1, <3>3, MinOfTwo
      <3> HIDE DEF last
      <3>5. \A i \in pos + 1 .. last : Player.page[i] \in Matches
        BY <3>1, <3>2, <3>3, <3>4, ElementOfSeq
      <3>6. SubSeq(Player.page, pos + 1, last) \in Seq(Matches)
        BY <3>1, <3>4, <3>5, SubSeqProperties
      <3>7. chunk' \in Seq(Matches) /\ queue' = chunk' /\ pc' = "register"
        BY <2>5, <3>6 DEF NextChunk, last
      <3>8. UNCHANGED <<todo, cur, ret, pos, stage>>
        BY <2>5 DEF NextChunk
      <3>9. QED
        BY <3>1, <3>7, <3>8 DEF TypeInv, ControlTyped
    <2>6. QED
      BY <2>1, <2>2, <2>3, <2>4, <2>5
  <1>4. QED
    BY <1>1, <1>2, <1>3, Framed

\* The balanced loop's strata are strata of the schedule.
LEMMA StratumTyped ==
    ASSUME mem \in StateType
    PROVE  /\ Stratum \in 1 .. Len(Schedule)
           /\ LastStratum \in 1 .. Len(Schedule)
  <1>1. mem.cursor \in Nat
    BY DEF StateType
  <1>2. Len(Schedule) \in Nat \ {0}
    BY CollectorAssumption, EmptySeq
  <1>3. /\ mem.cursor % Len(Schedule) \in 0 .. Len(Schedule) - 1
        /\ (mem.cursor - 1) % Len(Schedule) \in 0 .. Len(Schedule) - 1
    BY <1>1, <1>2
  <1>4. QED
    BY <1>2, <1>3 DEF Stratum, LastStratum

\* A candidate is a player, whatever list it is taken from.
LEMMA CandidateTyped ==
    ASSUME mem \in StateType, ControlTyped, pc = "sample",
           NEW st \in StateType, st.strata[Stratum] \in Seq(Players),
           TakeCandidate(st), UNCHANGED <<todo, ret, pos, chunk, queue, stage>>
    PROVE  mem' \in StateType /\ ckpt' \in StateType /\ ControlTyped'
  <1>1. Stratum \in 1 .. Len(Schedule)
    BY StratumTyped
  <1> DEFINE list == st.strata[Stratum]
  <1>2. CASE list = <<>>
    <2>1. [st EXCEPT !.exhausted = @ \cup {Stratum}] \in StateType
      BY <1>1 DEF StateType
    <2>2. QED
      BY <1>2, <2>1 DEF TakeCandidate, Save, ControlTyped, WithPlayerAtHand
  <1>3. CASE list # <<>>
    <2>1. Head(list) \in Players /\ Tail(list) \in Seq(Players)
      BY <1>3, HeadTailProperties
    <2>2. [st EXCEPT !.strata[Stratum] = Tail(list)] \in StateType
      BY <1>1, <2>1 DEF StateType
    <2>3. /\ mem' = [st EXCEPT !.strata[Stratum] = Tail(list)] /\ ckpt' = mem'
          /\ cur' = Head(list) /\ pc' = "examine"
      BY <1>3 DEF TakeCandidate, Save
    <2>4. QED
      BY <2>1, <2>2, <2>3 DEF ControlTyped, WithPlayerAtHand
  <1>4. QED
    BY <1>2, <1>3

\* Sampling keeps the types.
LEMMA SampleTypes ==
    ASSUME TypeInv, SampleKnownStratum \/ SampleNewStratum
    PROVE  TypeInv'
  <1>1. /\ pc = "sample"
        /\ UNCHANGED <<world, stores, config, grant, fetched, invocations>>
        /\ UNCHANGED <<todo, ret, pos, chunk, queue, stage>>
    BY DEF SampleKnownStratum, SampleNewStratum, Sampling, client
  <1>2. /\ mem \in StateType /\ ckpt \in StateType /\ CursorMoved \in StateType
        /\ ControlTyped /\ TypeOK /\ used \in 0 .. grant
    BY <1>1, CursorMovedTyped DEF TypeInv, TypeOK
  <1>3. Stratum \in 1 .. Len(Schedule)
    BY <1>2, StratumTyped
  <1>4. CursorMoved.strata = mem.strata /\ mem.strata[Stratum] \in {Absent} \cup Seq(Players)
    BY <1>2, <1>3 DEF CursorMoved, StateType
  <1>5. CASE SampleKnownStratum
    <2>1. TakeCandidate(CursorMoved) /\ CursorMoved.strata[Stratum] \in Seq(Players)
      BY <1>4, <1>5 DEF SampleKnownStratum
    <2>2. mem' \in StateType /\ ckpt' \in StateType /\ ControlTyped'
      BY <1>1, <1>2, <2>1, CandidateTyped
    <2>3. used' = used
      BY <1>5 DEF SampleKnownStratum, client
    <2>4. QED
      BY <1>1, <1>2, <2>2, <2>3, Framed
  <1>6. CASE SampleNewStratum
    <2>1. used' \in 0 .. grant
      BY <1>2, <1>6, CallTyped DEF SampleNewStratum
    <2>2. \A list \in Seq(Players) :
             /\ [CursorMoved EXCEPT !.strata[Stratum] = list] \in StateType
             /\ [CursorMoved EXCEPT !.strata[Stratum] = list].strata[Stratum] \in Seq(Players)
      BY <1>2, <1>3 DEF StateType
    <2>3. Schedule[Stratum] \in Seq(Players) /\ <<>> \in Seq(Players)
      BY <1>3, CollectorAssumption, ElementOfSeq
    <2>4. mem' \in StateType /\ ckpt' \in StateType /\ ControlTyped'
      <3>1. CASE \E list \in {Schedule[Stratum], <<>>} :
                    TakeCandidate([CursorMoved EXCEPT !.strata[Stratum] = list])
        BY <1>1, <1>2, <2>2, <2>3, <3>1, CandidateTyped
      <3>2. CASE Save(CursorMoved) /\ UNCHANGED <<pc, cur>>
        BY <1>1, <1>2, <3>2 DEF Save, ControlTyped, WithPlayerAtHand
      <3>3. CASE Keep(CursorMoved) /\ pc' = "abort" /\ UNCHANGED cur
        BY <1>1, <1>2, <3>3 DEF Keep, ControlTyped, WithPlayerAtHand
      <3>4. QED
        BY <1>6, <3>1, <3>2, <3>3 DEF SampleNewStratum
    <2>5. QED
      BY <1>1, <2>1, <2>4, Framed
  <1>7. QED
    BY <1>5, <1>6

\* Examining a candidate adds a player at most.
LEMMA ExamineTypes ==
    ASSUME TypeInv, ExaminePlayer
    PROVE  TypeInv'
  <1>1. /\ pc = "examine"
        /\ UNCHANGED <<world, config, stores, grant, fetched, invocations>>
        /\ UNCHANGED <<todo, pos, chunk, queue, stage>>
    BY DEF ExaminePlayer
  <1>2. /\ mem \in StateType /\ ckpt \in StateType /\ cur \in Players
        /\ ControlTyped /\ TypeOK /\ used \in 0 .. grant
    BY <1>1 DEF TypeInv, TypeOK, ControlTyped, WithPlayerAtHand
  <1>3. used' \in 0 .. grant
    BY <1>2, CallTyped DEF ExaminePlayer
  <1>4. LastStratum \in 1 .. Len(Schedule)
    BY <1>2, StratumTyped
  <1> DEFINE added == [NewPlayer EXCEPT !.status = "discovered", !.tier = TierOf[LastStratum]]
  <1>5. added \in PlayerType
    <2>1. TierOf[LastStratum] \in Range(TierOf)
      BY <1>4, CollectorAssumption DEF Range
    <2>2. QED
      <3>1. NewPlayer \in PlayerType
        BY DEF NewPlayer, PlayerType, PlayerStatuses
      <3>2. "discovered" \in PlayerStatuses
        BY DEF PlayerStatuses
      <3>3. QED
        BY <2>1, <3>1, <3>2 DEF PlayerType
  <1>6. WithPlayer(mem, cur, added) \in StateType
    BY <1>2, <1>5, PlayerUpdate
  <1> HIDE DEF added
  <1>7. \/ mem' = mem /\ ckpt' = ckpt
        \/ mem' = WithPlayer(mem, cur, added) /\ ckpt' = mem'
    BY DEF ExaminePlayer, PuuidKnown, Save, added
  <1>8. cur' = cur
    BY DEF ExaminePlayer, PuuidKnown, EnterHistory
  <1>9. ret' \in {ret, "sample"}
    BY DEF ExaminePlayer, PuuidKnown, EnterHistory
  <1>10. pc' \in {"history", "sample", "cover", "abort"}
    BY DEF ExaminePlayer, PuuidKnown, EnterHistory
  <1>11. mem' \in StateType /\ ckpt' \in StateType
    BY <1>2, <1>6, <1>7
  <1>12. ControlTyped'
    BY <1>1, <1>2, <1>8, <1>9, <1>10 DEF ControlTyped, WithPlayerAtHand
  <1>13. QED
    BY <1>1, <1>3, <1>11, <1>12, Framed

\* The player at hand is one, with a history.
LEMMA PlayerTyped ==
    ASSUME TypeInv, pc \in WithPlayerAtHand
    PROVE  /\ mem \in StateType /\ ckpt \in StateType /\ cur \in Players
           /\ Player \in PlayerType
           /\ used \in 0 .. grant
           /\ History[cur] \in Seq(Matches)
  <1>1. mem \in StateType /\ ckpt \in StateType /\ cur \in Players /\ used \in 0 .. grant
    BY DEF TypeInv, TypeOK, ControlTyped, WithPlayerAtHand
  <1>2. QED
    BY <1>1, CollectorAssumption DEF Player, StateType

\* A save of that player's record, and nothing more, keeps the types.
LEMMA PlayerSaved ==
    ASSUME TypeInv, pc \in WithPlayerAtHand, NEW rec \in PlayerType,
           Save(WithPlayer(mem, cur, rec)),
           UNCHANGED <<world, config, stores, grant, fetched, invocations>>,
           UNCHANGED <<todo, cur, ret, queue, stage>>,
           used' \in 0 .. grant, pos' \in Nat, chunk' \in Seq(Matches),
           pc' \in {"sample", "resume", "migrate", "history", "page"}
    PROVE  TypeInv'
  <1>1. WithPlayer(mem, cur, rec) \in StateType /\ cur \in Players
    BY PlayerTyped, PlayerUpdate
  <1>2. mem' \in StateType /\ ckpt' \in StateType
    BY <1>1 DEF Save
  <1>3. ControlTyped'
    BY <1>1 DEF TypeInv, ControlTyped
  <1>4. QED
    BY <1>2, <1>3, Framed

\* The page that is fetched holds matches.
LEMMA PageTyped ==
    ASSUME TypeInv, pc = "history", NEW count \in Nat
    PROVE  PageAt(count) \in Seq(Matches)
  <1>1. History[cur] \in Seq(Matches) /\ Player.offset \in Nat
    BY PlayerTyped DEF WithPlayerAtHand, PlayerType
  <1> DEFINE first == Player.offset + 1
             last == Min({Player.offset + count, Len(History[cur])})
  <1>2. Len(History[cur]) \in Nat
    BY <1>1, LenProperties
  <1>3. first \in Nat \ {0} /\ last \in Int /\ last <= Len(History[cur])
    BY <1>1, <1>2, MinOfTwo
  <1> HIDE DEF first, last
  <1>4. \A i \in first .. last : History[cur][i] \in Matches
    BY <1>1, <1>2, <1>3, ElementOfSeq
  <1>5. SubSeq(History[cur], first, last) \in Seq(Matches)
    BY <1>3, <1>4, SubSeqProperties
  <1>6. QED
    BY <1>5 DEF PageAt, first, last

\* A page is fetched, or the player is left.
LEMMA FetchTypes ==
    ASSUME TypeInv, FetchPage
    PROVE  TypeInv'
  <1>1. /\ pc = "history" /\ Player.page = <<>> /\ Player.offset < MaxHistory
        /\ UNCHANGED <<world, config, stores, grant, fetched, invocations>>
        /\ UNCHANGED <<todo, cur, ret, chunk, queue, stage>>
        /\ pos' = 0
    BY DEF FetchPage
  <1>2. /\ pc \in WithPlayerAtHand /\ mem \in StateType /\ ckpt \in StateType
        /\ Player \in PlayerType /\ TypeOK /\ ControlTyped
    BY <1>1, PlayerTyped DEF WithPlayerAtHand, TypeInv
  <1>3. used' \in 0 .. grant
    BY <1>2, CallTyped DEF FetchPage
  <1> DEFINE count == Min({BatchSize, MaxHistory - Player.offset})
             page == PageAt(count)
             fetchedPlayer == [Player EXCEPT !.page = page, !.asked = count]
  <1>4. count \in Nat
    <2>1. Player.offset \in Nat /\ MaxHistory \in Nat /\ BatchSize \in Nat
      BY <1>2, CollectorAssumption DEF PlayerType
    <2>2. QED
      BY <1>1, <2>1, MinOfTwo
  <1>5. page \in Seq(Matches)
    BY <1>1, <1>4, PageTyped
  <1> HIDE DEF count, page
  <1>6. /\ fetchedPlayer \in PlayerType
        /\ [Player EXCEPT !.status = "request_budget_exhausted"] \in PlayerType
        /\ [Player EXCEPT !.status = "history_failed"] \in PlayerType
    BY <1>2, <1>4, <1>5 DEF PlayerType, PlayerStatuses, TerminalPlayer
  <1>7. \/ \E rec \in PlayerType : Save(WithPlayer(mem, cur, rec)) /\ pc' \in {ret, "page"}
        \/ mem' = mem /\ ckpt' = ckpt /\ pc' = "abort"
    BY <1>6 DEF FetchPage, LeaveWith, count, page
  <1>8. pos' \in Nat /\ chunk' \in Seq(Matches)
        /\ ret \in {"sample", "resume", "migrate"}
    BY <1>1, <1>2 DEF ControlTyped
  <1>9. CASE mem' = mem /\ ckpt' = ckpt /\ pc' = "abort"
    <2>1. ControlTyped'
      BY <1>1, <1>2, <1>9 DEF ControlTyped, WithPlayerAtHand
    <2>2. QED
      BY <1>1, <1>2, <1>3, <1>9, <2>1, Framed
  <1>10. CASE \E rec \in PlayerType : Save(WithPlayer(mem, cur, rec)) /\ pc' \in {ret, "page"}
    BY <1>1, <1>2, <1>3, <1>8, <1>10, PlayerSaved
  <1>11. QED
    BY <1>7, <1>9, <1>10

\* A player's record keeps its type when the page is passed.
LEMMA PassPage ==
    ASSUME NEW rec \in PlayerType, NEW passed \in Nat
    PROVE  /\ [rec EXCEPT !.offset = passed, !.page = <<>>] \in PlayerType
           /\ \A old \in Nat, status \in PlayerStatuses :
                 [rec EXCEPT !.old = old, !.offset = passed, !.page = <<>>, !.status = status]
                     \in PlayerType
  <1>1. \A page \in Seq(Matches) :
            /\ [rec EXCEPT !.offset = passed, !.page = page] \in PlayerType
            /\ \A old \in Nat, status \in PlayerStatuses :
                  [rec EXCEPT !.old = old, !.offset = passed, !.page = page, !.status = status]
                      \in PlayerType
    BY DEF PlayerType
  <1>2. <<>> \in Seq(Matches)
    BY EmptySeq
  <1>3. QED
    BY <1>1, <1>2

\* The ways a player's page or history ends.
LEMMA HistoryTypes ==
    ASSUME TypeInv, CoverOnly \/ HistoryMaxReached \/ OlderCutoff \/ ChunkDone \/ PageDone
    PROVE  TypeInv'
  <1>1. /\ pc \in WithPlayerAtHand
        /\ UNCHANGED <<world, config, stores, grant, fetched, invocations>>
        /\ UNCHANGED <<todo, cur, ret, queue, stage, used>>
    BY DEF CoverOnly, HistoryMaxReached, OlderCutoff, ChunkDone, PageDone, WithPlayerAtHand,
           client, control
  <1>2. /\ mem \in StateType /\ Player \in PlayerType /\ used \in 0 .. grant
        /\ ret \in {"migrate", "sample", "resume"} /\ pos \in Nat /\ chunk \in Seq(Matches)
    BY <1>1, PlayerTyped DEF TypeInv, ControlTyped
  <1>3. Len(Player.page) \in Nat /\ Len(chunk) \in Nat
    BY <1>2, LenProperties DEF PlayerType
  <1>4. pos' \in Nat /\ chunk' \in Seq(Matches)
    <2>1. pos' \in {pos, pos + Len(chunk)} /\ chunk' \in {chunk, <<>>}
      BY DEF CoverOnly, HistoryMaxReached, OlderCutoff, ChunkDone, PageDone, control
    <2>2. pos' \in Nat
      BY <1>2, <1>3, <2>1
    <2>3. <<>> \in Seq(Matches)
      BY EmptySeq
    <2>4. chunk' \in Seq(Matches)
      BY <1>2, <2>1, <2>3
    <2>5. QED
      BY <2>2, <2>4
  <1>5. \A n \in 0 .. Len(chunk) : OlderAfter(n) \in Nat
    <2>1. TAKE n \in 0 .. Len(chunk)
    <2> DEFINE reset == {i \in 1 .. n : ~OlderRelation(chunk[i])}
    <2>2. CASE reset = {}
      <3>1. OlderAfter(n) = Player.old + n
        BY <2>2 DEF OlderAfter
      <3>2. Player.old \in Nat /\ n \in Nat
        BY <1>2, <1>3 DEF PlayerType
      <3>3. QED
        BY <3>1, <3>2
    <2>3. CASE reset # {}
      <3>1. \E x \in reset : \A y \in reset : x >= y
        <4>1. n \in Nat /\ reset \in SUBSET (0 .. n)
          BY <1>3
        <4> HIDE DEF reset
        <4>2. QED
          BY <2>3, <4>1, GreatestOf
      <3>2. Max(reset) \in 1 .. n
        BY <3>1 DEF Max
      <3>3. OlderAfter(n) = n - Max(reset)
        BY <2>3 DEF OlderAfter
      <3> HIDE DEF reset
      <3>4. QED
        BY <1>3, <3>2, <3>3
    <2>4. QED
      BY <2>2, <2>3
  <1> DEFINE passed == Player.offset + Len(Player.page)
  <1>6. passed \in Nat
    BY <1>2, <1>3 DEF PlayerType
  <1> HIDE DEF passed
  <1>7. \A old \in Nat, status \in PlayerStatuses :
            [Player EXCEPT !.old = old, !.offset = passed, !.page = <<>>, !.status = status]
                \in PlayerType
    BY <1>2, <1>6, PassPage
  <1>8. {"coverage_only", "history_max_reached", "history_old_patch_cutoff", "history_examined"}
            \subseteq PlayerStatuses
    BY DEF PlayerStatuses, TerminalPlayer
  <1>9. \E rec \in PlayerType : Save(WithPlayer(mem, cur, rec))
    <2>1. CASE CoverOnly
      <3>1. [Player EXCEPT !.status = "coverage_only"] \in PlayerType
        BY <1>2, <1>8 DEF PlayerType
      <3>2. QED
        BY <2>1, <3>1 DEF CoverOnly, Player
    <2>2. CASE HistoryMaxReached
      <3>1. [Player EXCEPT !.status = "history_max_reached"] \in PlayerType
        BY <1>2, <1>8 DEF PlayerType
      <3>2. QED
        BY <2>2, <3>1 DEF HistoryMaxReached, LeaveWith
    <2>3. CASE OlderCutoff
      <3>1. PICK n \in 1 .. Len(chunk) : FinishPage(OlderAfter(n), "history_old_patch_cutoff")
        BY <2>3 DEF OlderCutoff
      <3>2. QED
        <4>1. OlderAfter(n) \in Nat
          BY <1>3, <1>5
        <4> DEFINE rec == [Player EXCEPT !.old = OlderAfter(n), !.offset = passed, !.page = <<>>,
                                         !.status = "history_old_patch_cutoff"]
        <4>2. rec \in PlayerType
          BY <1>7, <1>8, <4>1
        <4>3. Save(WithPlayer(mem, cur, rec))
          BY <3>1 DEF FinishPage, LeaveWith, passed
        <4> HIDE DEF rec
        <4>4. QED
          BY <4>2, <4>3
    <2>4. CASE ChunkDone
      <3>1. OlderAfter(Len(chunk)) \in Nat
        BY <1>3, <1>5
      <3>2. [Player EXCEPT !.old = OlderAfter(Len(chunk))] \in PlayerType
        BY <1>2, <3>1 DEF PlayerType
      <3>3. QED
        BY <2>4, <3>2 DEF ChunkDone
    <2>5. CASE PageDone
      <3>1. Player.old \in Nat
        BY <1>2 DEF PlayerType
      <3>2. [Player EXCEPT !.offset = passed, !.page = <<>>] \in PlayerType
        BY <1>2, <1>6, PassPage
      <3>3. QED
        BY <1>7, <1>8, <2>5, <3>1, <3>2 DEF PageDone, FinishPage, LeaveWith, passed
    <2>6. QED
      BY <2>1, <2>2, <2>3, <2>4, <2>5
  <1>10. pc' \in {"sample", "resume", "migrate", "history", "page"}
    BY <1>2 DEF CoverOnly, HistoryMaxReached, OlderCutoff, ChunkDone, PageDone, FinishPage,
               LeaveWith
  <1>11. QED
    BY <1>1, <1>2, <1>4, <1>9, <1>10, PlayerSaved

\* Registering a match adds one record at most.
LEMMA RegisterTypes ==
    ASSUME TypeInv, RegisterMatch
    PROVE  TypeInv'
  <1>1. /\ pc = "register" /\ queue # <<>>
        /\ UNCHANGED <<world, config, stores, client, pc, ckpt, invocations>>
        /\ UNCHANGED <<todo, cur, ret, pos, chunk, stage>>
        /\ queue' = Tail(queue)
    BY DEF RegisterMatch, Keep
  <1>2. /\ mem \in StateType /\ ckpt \in StateType /\ used \in 0 .. grant
        /\ queue \in Seq(Matches) /\ ControlTyped /\ TypeOK
    BY <1>1 DEF TypeInv, TypeOK, ControlTyped
  <1>3. Head(queue) \in Matches /\ Tail(queue) \in Seq(Matches)
    BY <1>1, <1>2, HeadTailProperties
  <1> DEFINE m == Head(queue)
             status == RegisteredStatus(m)
             sealed == StopOnNewer /\ status = "newer_patch_transition_cached"
             st == WithMatch(mem, m, status)
  <1>4. status \in MatchStatuses
    BY DEF RegisteredStatus, MatchStatuses
  <1>5. st \in StateType
    BY <1>2, <1>3, <1>4, MatchUpdate
  <1>6. mem' \in {mem, [st EXCEPT !.transition = @ \/ sealed]}
    BY DEF RegisterMatch, Keep
  <1> HIDE DEF st, sealed, status, m
  <1>7. [st EXCEPT !.transition = @ \/ sealed] \in StateType
    <2>1. (st.transition \/ sealed) \in BOOLEAN
      OBVIOUS
    <2>2. QED
      BY <1>5, <2>1 DEF StateType
  <1>8. mem' \in StateType
    BY <1>2, <1>6, <1>7
  <1>9. ControlTyped'
    BY <1>1, <1>2, <1>3 DEF ControlTyped, WithPlayerAtHand
  <1>10. QED
    BY <1>1, <1>2, <1>8, <1>9, Framed DEF client

\* Every step keeps the types.
LEMMA StepTypes ==
    ASSUME TypeInv, [Next]_vars
    PROVE  TypeInv'
  <1>1. CASE Start
    BY <1>1, StartTypes
  <1>2. CASE Collect
    BY <1>2, MigrateTypes, DownloadTypes, UnusableTypes, WriteTypes, RaiseTypes, MoveTypes,
       SampleTypes, ExamineTypes, FetchTypes, HistoryTypes, RegisterTypes, EndTypes DEF Collect
  <1>3. CASE Interrupt \/ Crash
    BY <1>3, EndTypes
  <1>4. CASE UNCHANGED vars
    BY <1>4 DEF vars, world, config, stores, client, control, TypeInv, TypeOK, ControlTyped
  <1>5. QED
    BY <1>1, <1>2, <1>3, <1>4 DEF Next

\* The checkpoint, the stores and the client's counts have their types in every
\* state, whatever is started, interrupted or crashes.
THEOREM TypeSafe == Spec => []TypeOK
  <1>1. Init => TypeInv
    BY InitTypes
  <1>2. TypeInv /\ [Next]_vars => TypeInv'
    BY StepTypes
  <1>3. TypeInv => TypeOK
    BY DEF TypeInv
  <1>4. QED
    BY <1>1, <1>2, <1>3, PTL DEF Spec

-----------------------------------------------------------------------------
(* Credit.  What the memory and the checkpoint accept was processed and is *)
(* inside the window, and while results are dealt with, the stores hold    *)
(* what was written for the first of them and the checkpoint accepts none. *)

Processed(m) == catalog[m] # Absent /\ catalog[m].result = "processed"

HasRaw(m) == \E s \in Snapshots : <<s, m>> \in raw

Stored == \A m \in Matches : Processed(m) => norm[m] = NormalizedFiles /\ HasRaw(m)

Earned(st) == \A m \in Matches :
    st.matches[m] \in AcceptedStatuses => Processed(m) /\ InWindow(m)

\* The state keeps what the checkpoint accepts.
Keeps(st) == \A m \in Matches :
    ckpt.matches[m] \in AcceptedStatuses => st.matches[m] = ckpt.matches[m]

\* A result is of a match that the checkpoint does not accept, and one that is not
\* downloaded has its payload.
Due(result) == /\ ckpt.matches[result.match] \notin AcceptedStatuses
               /\ result.outcome = "cached" => HasRaw(result.match)

QueueDue == \A i \in 1 .. Len(queue) : Due(queue[i])

HeadWritten == queue # <<>> =>
    /\ Fresh /\ stage > 0 => HasRaw(Result.match)
    /\ norm[Result.match] >= FilesWritten

\* Nothing is half written outside of a result.
Settled == pc # "results" \/ queue = <<>> => stage = 0

Credit == /\ Stored
          /\ Settled
          /\ Earned(ckpt)
          /\ pc # "idle" => Earned(mem) /\ Keeps(mem)
          /\ pc = "results" => QueueDue /\ HeadWritten

\* One step of CreditIsFinal.
Kept == \A m \in Matches :
    /\ Processed(m) => Processed(m)'
    /\ ckpt.matches[m] \in AcceptedStatuses => ckpt'.matches[m] = ckpt.matches[m]

\* The initial stores are those of earlier runs, and the checkpoint accepts nothing.
LEMMA InitCredit == Init => Credit
  <1>1. ASSUME Init
        PROVE  Credit
    <2>1. PICK w \in Worlds : /\ raw = w.raw /\ norm = w.norm /\ catalog = w.catalog
                              /\ ckpt = NewState /\ pc = "idle" /\ stage = 0
      BY <1>1 DEF Init
    <2>2. Stored
      BY <2>1, WorldsAssumption DEF Stored, Processed, HasRaw
    <2>3. \A m \in Matches : ckpt.matches[m] = "unknown"
      BY <2>1 DEF NewState
    <2>4. Earned(ckpt)
      BY <2>3 DEF Earned, AcceptedStatuses
    <2>5. QED
      BY <2>1, <2>2, <2>4 DEF Credit, Settled
  <1>2. QED
    BY <1>1

\* Steps that leave the stores and the matches' records alone keep all credit,
\* whether or not they save.
LEMMA QuietCredit ==
    ASSUME Credit, pc # "idle", UNCHANGED <<world, config, stores>>,
           mem'.matches = mem.matches, ckpt' \in {ckpt, mem'},
           pc # "results" \/ queue = <<>>, stage' = stage, pc' \notin {"idle", "results"}
    PROVE  Credit' /\ Kept
  <1>1. /\ raw' = raw /\ norm' = norm /\ catalog' = catalog
        /\ kind' = kind /\ wide' = wide
    BY DEF world, config, stores
  <1>2. Stored' /\ \A m \in Matches : (Processed(m) <=> Processed(m)') /\ (InWindow(m) <=> InWindow(m)')
    BY <1>1 DEF Credit, Stored, Processed, HasRaw, InWindow
  <1>3. Earned(ckpt)' /\ Earned(mem)'
    BY <1>2 DEF Credit, Earned
  <1>4. Keeps(mem)' /\ Kept
    BY <1>2 DEF Credit, Keeps, Kept
  <1>5. QED
    BY <1>2, <1>3, <1>4 DEF Credit, Settled

\* The end of an invocation saves the memory, or leaves the checkpoint as it was.
LEMMA EndCredit ==
    ASSUME TypeInv, Credit, Complete \/ Abort \/ Interrupt \/ Crash
    PROVE  Credit' /\ Kept
  <1>1. pc # "idle" /\ Exit /\ pc' = "idle"
    BY DEF Complete, Abort, Interrupt, Crash, AtAwait, Sampling, Exit
  <1>2. mem \in StateType
    BY <1>1 DEF TypeInv
  <1>3. CursorMoved.matches = mem.matches
    BY <1>2 DEF CursorMoved, StateType
  <1>4. ckpt'.matches \in {ckpt.matches, mem.matches}
    BY <1>3 DEF Complete, Abort, Interrupt, Crash
  <1>5. /\ raw' = raw /\ norm' = norm /\ catalog' = catalog
        /\ kind' = kind /\ wide' = wide
    BY <1>1 DEF Exit, world, config, stores
  <1>6. Stored' /\ \A m \in Matches : (Processed(m) <=> Processed(m)') /\ (InWindow(m) <=> InWindow(m)')
    BY <1>5 DEF Credit, Stored, Processed, HasRaw, InWindow
  <1>7. Earned(ckpt)'
    BY <1>1, <1>4, <1>6 DEF Credit, Earned
  <1>8. Kept
    BY <1>1, <1>4, <1>6 DEF Credit, Keeps, Kept
  <1>9. QED
    BY <1>1, <1>6, <1>7, <1>8 DEF Credit, Settled, Exit

\* A start reads the checkpoint, and the window may only widen.
LEMMA StartCredit ==
    ASSUME TypeInv, Credit, Start
    PROVE  Credit' /\ Kept
  <1>1. /\ raw' = raw /\ norm' = norm /\ catalog' = catalog /\ kind' = kind
        /\ ckpt' = ckpt /\ wide' \in {wide, TRUE} /\ pc' = "migrate"
        /\ ckpt \in StateType
    BY DEF Start, world, stores, TypeInv, TypeOK
  <1>2. \A m \in Matches : ckpt.matches[m] \in AcceptedStatuses \/ mem'.matches[m] \in AcceptedStatuses
            => mem'.matches[m] = ckpt.matches[m]
    <2>1. mem'.matches = [m \in Matches |-> IF ckpt.matches[m] = "request_failed" THEN "pending"
                                                                           ELSE ckpt.matches[m]]
      BY <1>1 DEF Start, StateType
    <2>2. QED
      BY <2>1 DEF AcceptedStatuses
  <1>3. Stored' /\ \A m \in Matches : (Processed(m) <=> Processed(m)') /\ (InWindow(m) => InWindow(m)')
    <2>1. Stored' /\ \A m \in Matches : (Processed(m) <=> Processed(m)')
      BY <1>1 DEF Credit, Stored, Processed, HasRaw
    <2>2. ASSUME NEW m \in Matches, InWindow(m)
          PROVE  InWindow(m)'
      <3>1. CASE wide' = wide
        BY <1>1, <2>2, <3>1 DEF InWindow
      <3>2. CASE wide' = TRUE
        <4>1. kind[m] \in {"target", "platform", "previous"}
          BY <2>2 DEF InWindow
        <4>2. QED
          BY <1>1, <3>2, <4>1 DEF InWindow
      <3>3. QED
        BY <1>1, <3>1, <3>2
    <2>3. QED
      BY <2>1, <2>2
  <1>4. Earned(ckpt)'
    BY <1>1, <1>3 DEF Credit, Earned
  <1>5. Earned(mem)'
    BY <1>2, <1>3 DEF Credit, Earned
  <1>6. Keeps(mem)' /\ Kept
    BY <1>1, <1>2, <1>3 DEF Keeps, Kept
  <1>7. QED
    BY <1>1, <1>3, <1>4, <1>5, <1>6 DEF Credit, Settled, Start

\* A queue of results is made of matches that memory does not accept, and with retained
\* payloads where there is no download; what memory accepts stays as it is.
QueueMade ==
    /\ pc # "idle" /\ pc' = "results" /\ stage' = 0 /\ queue' \in Seq(Results)
    /\ UNCHANGED <<world, config, stores, ckpt>>
    /\ \A m \in Matches : mem'.matches[m] # mem.matches[m] =>
           mem.matches[m] \notin AcceptedStatuses /\ mem'.matches[m] \notin AcceptedStatuses
    /\ \A i \in 1 .. Len(queue') :
           /\ mem.matches[queue'[i].match] \notin AcceptedStatuses
           /\ queue'[i].outcome = "cached" => CachedRaw(queue'[i].match)

\* Such a queue keeps the credit.
LEMMA QueueCredit ==
    ASSUME TypeInv, Credit, QueueMade
    PROVE  Credit' /\ Kept
  <1> USE DEF QueueMade
  <1>1. /\ raw' = raw /\ norm' = norm /\ catalog' = catalog
        /\ kind' = kind /\ wide' = wide /\ ckpt' = ckpt
    BY DEF world, config, stores
  <1>2. Stored' /\ \A m \in Matches : (Processed(m) <=> Processed(m)') /\ (InWindow(m) <=> InWindow(m)')
    BY <1>1 DEF Credit, Stored, Processed, HasRaw, InWindow
  <1>3. Earned(ckpt)' /\ Earned(mem)'
    BY <1>1, <1>2 DEF Credit, Earned
  <1>4. Keeps(mem)' /\ Kept
    BY <1>1, <1>2 DEF Credit, Keeps, Kept
  <1>5. QueueDue'
    <2>1. ASSUME NEW i \in 1 .. Len(queue')
          PROVE  Due(queue[i])'
      <3>1. queue'[i] \in Results
        BY ElementOfSeq
      <3>2. queue'[i].match \in Matches
        BY <3>1 DEF Results
      <3>3. ckpt.matches[queue'[i].match] \notin AcceptedStatuses
        BY <3>2 DEF Credit, Keeps
      <3>4. queue'[i].outcome = "cached" => HasRaw(queue'[i].match)
        <4>1. \A m \in Matches : CachedRaw(m) => HasRaw(m)
          <5>1. catalog \in [Matches -> {Absent} \cup Rows]
            BY DEF TypeInv, TypeOK
          <5>2. QED
            BY <5>1 DEF CachedRaw, HasRaw, Rows, Snapshots
        <4>2. QED
          BY <3>2, <4>1
      <3>5. QED
        BY <1>1, <3>3, <3>4 DEF Due, HasRaw
    <2>2. QED
      BY <2>1 DEF QueueDue
  <1>6. HeadWritten'
    <2>1. ASSUME queue' # <<>>
          PROVE  norm'[Head(queue').match] >= IF Head(queue').outcome = "ok" THEN 0 - 1 ELSE 0
      <3>1. Head(queue') \in Results
        BY <2>1, HeadTailProperties
      <3>2. Head(queue').match \in Matches
        BY <3>1 DEF Results
      <3>3. norm'[Head(queue').match] \in 0 .. NormalizedFiles
        BY <1>1, <3>2 DEF TypeInv, TypeOK
      <3>4. QED
        BY <3>3 DEF NormalizedFiles
    <2>2. QED
      BY <2>1 DEF HeadWritten, FilesWritten, Fresh, Result
  <1>7. QED
    BY <1>2, <1>3, <1>4, <1>5, <1>6 DEF Credit, Settled

\* What is gathered is due: none of it is accepted, and what is not downloaded is there.
LEMMA DownloadCredit ==
    ASSUME TypeInv, Credit, DownloadPending \/ DownloadChunk
    PROVE  Credit' /\ Kept
  <1>1. PICK n \in Nat : \E list \in [1 .. n -> PendingMatches] : GatherDownloads(list)
    BY PendingList, ChunkList
  <1>2. PICK list \in [1 .. n -> PendingMatches] : GatherDownloads(list)
    BY <1>1
  <1>3. list \in [1 .. n -> Matches]
    BY DEF PendingMatches
  <1>4. /\ queue' \in Seq(Results) /\ Len(queue') = n /\ stage' = 0 /\ pc' = "results"
        /\ \A i \in 1 .. n : /\ queue'[i].match = list[i]
                             /\ queue'[i].outcome = "cached" => CachedRaw(list[i])
    BY <1>2, <1>3, GatherTypes
  <1>5. /\ ckpt' = ckpt /\ mem' = mem /\ pc # "idle"
        /\ UNCHANGED <<world, config, stores>>
    BY DEF DownloadPending, DownloadChunk
  <1>6. \A i \in 1 .. n : mem.matches[list[i]] \notin AcceptedStatuses
    BY DEF PendingMatches, AcceptedStatuses
  <1>7. \A i \in 1 .. Len(queue') : /\ mem.matches[queue'[i].match] \notin AcceptedStatuses
                                    /\ queue'[i].outcome = "cached" => CachedRaw(queue'[i].match)
    <2>1. TAKE i \in 1 .. Len(queue')
    <2>2. i \in 1 .. n
      BY <1>4
    <2>3. queue'[i].match = list[i] /\ (queue'[i].outcome = "cached" => CachedRaw(list[i]))
      BY <1>4, <2>2
    <2>4. QED
      BY <1>6, <2>2, <2>3
  <1>8. UNCHANGED <<world, config, stores, ckpt>>
    BY <1>5
  <1>9. \A m \in Matches : mem'.matches[m] = mem.matches[m]
    BY <1>5
  <1>10. QED
    <2>1. QueueMade
      BY <1>4, <1>5, <1>7, <1>8, <1>9 DEF QueueMade
    <2>2. QED
      BY <2>1, QueueCredit

\* What is migrated was outside the window, its payload is retained, and its record
\* stays as it is.
LEMMA MigratedQueue ==
    ASSUME TypeInv, MigrateRecords
    PROVE  /\ \A i \in 1 .. Len(queue') :
                 /\ queue'[i].match \in Matches /\ queue'[i].outcome = "cached"
                 /\ CachedRaw(queue'[i].match)
                 /\ mem.matches[queue'[i].match] \in OutsideStatuses
                 /\ mem'.matches[queue'[i].match] = mem.matches[queue'[i].match]
           /\ \A m \in Matches : mem'.matches[m] # mem.matches[m] =>
                 mem.matches[m] \in OutsideStatuses /\ mem'.matches[m] = "pending"
  <1>1. mem \in StateType
    BY DEF MigrateRecords, TypeInv
  <1> DEFINE eligible == {m \in Matches : mem.matches[m] \in OutsideStatuses /\ InWindow(m)}
             retained == {m \in eligible : CachedRaw(m)}
  <1>2. mem'.matches = [m \in Matches |-> IF m \in eligible \ retained THEN "pending"
                                                                     ELSE mem.matches[m]]
    BY <1>1 DEF MigrateRecords, Keep, StateType
  <1>3. \E list \in SetToSeqs(retained) :
            queue' = [i \in 1 .. Len(list) |-> [match |-> list[i], outcome |-> "cached"]]
    BY DEF MigrateRecords
  <1>4. /\ retained \in SUBSET Matches
        /\ \A m \in retained : CachedRaw(m) /\ mem.matches[m] \in OutsideStatuses
        /\ \A m \in eligible : mem.matches[m] \in OutsideStatuses
    OBVIOUS
  <1> HIDE DEF eligible, retained
  <1>5. PICK list \in SetToSeqs(retained) :
            queue' = [i \in 1 .. Len(list) |-> [match |-> list[i], outcome |-> "cached"]]
    BY <1>3
  <1>6. Cardinality(retained) \in Nat /\ list \in [1 .. Cardinality(retained) -> retained]
    BY <1>4, OrderOfMatches
  <1>7. Len(list) = Cardinality(retained)
    BY <1>6, FunctionIsSequence
  <1> DEFINE Entries == {[match |-> m, outcome |-> "cached"] : m \in retained}
  <1>8. queue' \in [1 .. Cardinality(retained) -> Entries]
    BY <1>5, <1>6, <1>7
  <1>9. Len(queue') = Cardinality(retained)
    BY <1>6, <1>8, FunctionIsSequence
  <1>10. \A i \in 1 .. Len(queue') : queue'[i].match \in retained /\ queue'[i].outcome = "cached"
    BY <1>8, <1>9
  <1>11. QED
    BY <1>2, <1>4, <1>10

\* It is a queue of what memory does not accept.
LEMMA MigrateCredit ==
    ASSUME TypeInv, Credit, MigrateRecords
    PROVE  Credit' /\ Kept
  <1>1. /\ pc # "idle" /\ pc' = "results" /\ stage' = stage
        /\ UNCHANGED <<world, config, stores, ckpt>>
    BY DEF MigrateRecords, Keep
  <1>2. stage' = 0
    BY <1>1 DEF MigrateRecords, Credit, Settled
  <1>3. "pending" \notin AcceptedStatuses /\ OutsideStatuses \cap AcceptedStatuses = {}
    BY DEF OutsideStatuses, AcceptedStatuses
  <1>4. queue' \in Seq(Results)
    BY <1>1, MigrateTypes DEF TypeInv, ControlTyped
  <1>5. /\ \A m \in Matches : mem'.matches[m] # mem.matches[m] =>
               mem.matches[m] \notin AcceptedStatuses /\ mem'.matches[m] \notin AcceptedStatuses
        /\ \A i \in 1 .. Len(queue') : /\ mem.matches[queue'[i].match] \notin AcceptedStatuses
                                       /\ queue'[i].outcome = "cached" => CachedRaw(queue'[i].match)
    BY <1>3, MigratedQueue
  <1>6. QED
    <2>1. QueueMade
      BY <1>1, <1>2, <1>4, <1>5 DEF QueueMade
    <2>2. QED
      BY <2>1, QueueCredit

\* The results behind one that is dealt with stay due, and nothing is written for the
\* next yet.
LEMMA RestDue ==
    ASSUME TypeInv, TypeInv', Credit, pc = "results", queue # <<>>,
           queue' = Tail(queue), stage' = 0, ckpt' = ckpt, pc' = "results", raw' = raw
    PROVE  QueueDue' /\ HeadWritten' /\ Settled'
  <1>1. /\ queue \in Seq(Results) /\ Len(Tail(queue)) = Len(queue) - 1 /\ Len(queue) \in Nat
        /\ \A i \in 1 .. Len(Tail(queue)) : Tail(queue)[i] = queue[i + 1]
    BY QueueTyped, HeadTailProperties, LenProperties
  <1>2. QueueDue'
    <2>1. ASSUME NEW i \in 1 .. Len(queue')
          PROVE  Due(queue[i])'
      <3>1. i + 1 \in 1 .. Len(queue) /\ queue'[i] = queue[i + 1]
        BY <1>1
      <3>2. Due(queue[i + 1])
        BY <3>1 DEF Credit, QueueDue
      <3>3. QED
        BY <3>1, <3>2 DEF Due, HasRaw
    <2>2. QED
      BY <2>1 DEF QueueDue
  <1>3. HeadWritten'
    <2>1. ASSUME queue' # <<>>
          PROVE  norm'[Head(queue').match] \in 0 .. NormalizedFiles
      <3>1. queue' \in Seq(Results)
        BY QueueTyped
      <3>2. Head(queue') \in Results
        BY <2>1, <3>1, HeadTailProperties
      <3>3. Head(queue').match \in Matches
        BY <3>2 DEF Results
      <3>4. QED
        BY <3>3 DEF TypeInv, TypeOK
    <2>2. QED
      BY <2>1 DEF HeadWritten, FilesWritten, Fresh, Result, NormalizedFiles
  <1>4. QED
    BY <1>2, <1>3 DEF Settled

\* The head of the results is due.
LEMMA HeadDue ==
    ASSUME TypeInv, Credit, pc = "results", queue # <<>>
    PROVE  Due(Result)
  <1>1. Len(queue) \in Nat \ {0} /\ Result = queue[1]
    BY QueueTyped, EmptySeq
  <1>2. QED
    BY <1>1 DEF Credit, QueueDue

\* A record that is no credit, of a match that the checkpoint does not accept, leaves
\* all credit as it is.
LEMMA RecordKeepsCredit ==
    ASSUME Credit, pc # "idle", NEW m \in Matches, NEW status,
           status \notin AcceptedStatuses, ckpt.matches[m] \notin AcceptedStatuses,
           mem'.matches = [mem.matches EXCEPT ![m] = status], DOMAIN mem.matches = Matches,
           ckpt' = ckpt, UNCHANGED <<kind, wide>>,
           \A x \in Matches : Processed(x) => Processed(x)'
    PROVE  Earned(ckpt)' /\ Earned(mem)' /\ Keeps(mem)' /\ Kept
  <1>1. \A x \in Matches : mem'.matches[x] = IF x = m THEN status ELSE mem.matches[x]
    OBVIOUS
  <1>2. \A x \in Matches : InWindow(x) => InWindow(x)'
    BY DEF InWindow
  <1>3. Earned(ckpt)' /\ Earned(mem)'
    BY <1>1, <1>2 DEF Credit, Earned
  <1>4. Keeps(mem)' /\ Kept
    BY <1>1 DEF Credit, Keeps, Kept
  <1>5. QED
    BY <1>3, <1>4

\* A result without a usable payload is recorded as such, or dropped.
LEMMA UnusableCredit ==
    ASSUME TypeInv, TypeInv', Credit, ResultUnusable
    PROVE  Credit' /\ Kept
  <1>1. /\ pc = "results" /\ queue # <<>> /\ ckpt' = ckpt
        /\ UNCHANGED <<world, config, stores>>
    BY DEF ResultUnusable, Keep
  <1>2. /\ raw' = raw /\ norm' = norm /\ catalog' = catalog /\ kind' = kind /\ wide' = wide
    BY <1>1 DEF world, config, stores
  <1>3. Stored' /\ \A x \in Matches : Processed(x) => Processed(x)'
    BY <1>2 DEF Credit, Stored, Processed, HasRaw
  <1>4. mem \in StateType /\ Result.match \in Matches
    BY <1>1, QueueTyped DEF TypeInv
  <1>5. CASE /\ PopResult /\ pc' = pc
             /\ \E status \in {"rejected_schema", "request_failed"} :
                   mem' = WithMatch(mem, Result.match, status)
    <2>1. PICK status \in {"rejected_schema", "request_failed"} :
              mem' = WithMatch(mem, Result.match, status)
      BY <1>5
    <2>2. mem'.matches = [mem.matches EXCEPT ![Result.match] = status] /\ DOMAIN mem.matches = Matches
      BY <1>4, <2>1 DEF WithMatch, StateType
    <2>3. status \notin AcceptedStatuses /\ ckpt.matches[Result.match] \notin AcceptedStatuses
      BY <1>1, HeadDue DEF AcceptedStatuses, Due
    <2>4. Earned(ckpt)' /\ Earned(mem)' /\ Keeps(mem)' /\ Kept
      BY <1>1, <1>2, <1>3, <1>4, <2>2, <2>3, RecordKeepsCredit
    <2>5. QueueDue' /\ HeadWritten' /\ Settled'
      BY <1>1, <1>2, <1>5, RestDue DEF PopResult
    <2>6. QED
      BY <1>3, <2>4, <2>5 DEF Credit
  <1>6. CASE mem' = mem /\ queue' = <<>> /\ stage' = 0 /\ pc' = "pending"
    <2>1. \A x \in Matches : InWindow(x) => InWindow(x)'
      BY <1>2 DEF InWindow
    <2>2. Earned(ckpt)' /\ Earned(mem)'
      BY <1>1, <1>3, <1>6, <2>1 DEF Credit, Earned
    <2>3. Keeps(mem)' /\ Kept
      BY <1>1, <1>3, <1>6 DEF Credit, Keeps, Kept
    <2>4. QED
      BY <1>3, <1>6, <2>2, <2>3 DEF Credit, Settled
  <1>7. QED
    BY <1>5, <1>6 DEF ResultUnusable, Keep

\* A payload, or one of its normalized files, is written: the stores only gain.
LEMMA WriteCredit ==
    ASSUME TypeInv, TypeInv', Credit, WriteRaw \/ WriteNormalizedFile
    PROVE  Credit' /\ Kept
  <1>1. /\ pc = "results" /\ queue # <<>> /\ Usable /\ ckpt' = ckpt /\ pc' = pc /\ queue' = queue
        /\ catalog' = catalog /\ raw \subseteq raw'
        /\ UNCHANGED <<world, config>>
    BY DEF WriteRaw, WriteNormalizedFile, Usable, Keep
  <1>2. kind' = kind /\ wide' = wide
    BY <1>1 DEF world, config
  <1>3. /\ mem \in StateType /\ Result.match \in Matches /\ queue \in Seq(Results)
        /\ norm \in [Matches -> 0 .. NormalizedFiles] /\ stage \in Nat
        /\ norm' \in [Matches -> 0 .. NormalizedFiles]
    BY <1>1, QueueTyped DEF TypeInv, TypeOK, ControlTyped
  <1>4. mem'.matches = mem.matches
    BY <1>3 DEF WriteRaw, WriteNormalizedFile, Keep, StateType
  <1>5. \A x \in Matches : norm[x] <= norm'[x]
    <2>1. CASE WriteRaw
      BY <1>3, <2>1 DEF WriteRaw
    <2>2. CASE WriteNormalizedFile
      <3>1. FilesWritten + 1 \in Int /\ norm[Result.match] \in Int
        BY <1>3 DEF FilesWritten
      <3>2. norm' = [norm EXCEPT ![Result.match] = Max({norm[Result.match], FilesWritten + 1})]
        BY <2>2 DEF WriteNormalizedFile
      <3>3. Max({norm[Result.match], FilesWritten + 1}) >= norm[Result.match]
        BY <3>1, MaxOfTwo
      <3>4. QED
        BY <1>3, <3>2, <3>3
    <2>3. QED
      BY <2>1, <2>2
  <1>6. \A x \in Matches : /\ HasRaw(x) => HasRaw(x)'
                           /\ Processed(x) <=> Processed(x)'
                           /\ InWindow(x) => InWindow(x)'
    BY <1>1, <1>2 DEF HasRaw, Processed, InWindow
  <1>7. Stored'
    <2>1. ASSUME NEW x \in Matches, Processed(x)'
          PROVE  norm'[x] = NormalizedFiles /\ HasRaw(x)'
      <3>1. norm[x] = NormalizedFiles /\ HasRaw(x)
        BY <1>6, <2>1 DEF Credit, Stored
      <3>2. norm'[x] \in 0 .. NormalizedFiles /\ norm[x] <= norm'[x]
        BY <1>3, <1>5
      <3>3. QED
        BY <1>6, <3>1, <3>2 DEF NormalizedFiles
    <2>2. QED
      BY <2>1 DEF Stored
  <1>8. Earned(ckpt)' /\ Earned(mem)'
    BY <1>1, <1>4, <1>6 DEF Credit, Earned
  <1>9. Keeps(mem)' /\ Kept
    BY <1>1, <1>4, <1>6 DEF Credit, Keeps, Kept
  <1>10. QueueDue'
    <2>1. ASSUME NEW i \in 1 .. Len(queue)
          PROVE  Due(queue[i])'
      <3>1. Due(queue[i]) /\ queue[i] \in Results
        BY <1>1, <1>3, <2>1, ElementOfSeq DEF Credit, QueueDue
      <3>2. queue[i].match \in Matches
        BY <3>1 DEF Results
      <3>3. QED
        BY <1>1, <1>6, <3>1, <3>2 DEF Due, HasRaw
    <2>2. QED
      BY <1>1, <2>1 DEF QueueDue
  <1>11. HeadWritten'
    <2>1. HeadWritten
      BY <1>1 DEF Credit
    <2>2. CASE WriteRaw
      <3>1. Fresh /\ stage = 0 /\ stage' = 1 /\ norm' = norm /\ raw' = raw \cup {<<"this", Result.match>>}
        BY <2>2 DEF WriteRaw
      <3>2. HasRaw(Result.match)'
        <4>1. "this" \in Snapshots /\ <<"this", Result.match>> \in raw'
          BY <3>1 DEF Snapshots
        <4>2. QED
          BY <1>1, <4>1 DEF HasRaw, Result
      <3>3. norm'[Result.match] >= 0
        BY <1>3
      <3>4. QED
        BY <1>1, <3>1, <3>2, <3>3 DEF HeadWritten, FilesWritten, Fresh, Result
    <2>3. CASE WriteNormalizedFile
      <3>1. stage' = stage + 1 /\ raw' = raw /\ FilesWritten \in 0 .. NormalizedFiles - 1
            /\ norm' = [norm EXCEPT ![Result.match] = Max({norm[Result.match], FilesWritten + 1})]
        BY <2>3 DEF WriteNormalizedFile
      <3>2. norm'[Result.match] >= FilesWritten + 1
        <4>1. FilesWritten + 1 \in Int /\ norm[Result.match] \in Int
          BY <1>3 DEF FilesWritten
        <4>2. Max({norm[Result.match], FilesWritten + 1}) >= FilesWritten + 1
          BY <4>1, MaxOfTwo
        <4>3. QED
          BY <1>3, <3>1, <4>2
      <3>3. FilesWritten' = FilesWritten + 1
        BY <1>1, <1>3, <3>1 DEF FilesWritten, Fresh, Result
      <3>4. Fresh => HasRaw(Result.match)
        <4>1. Fresh => stage > 0
          BY <1>3, <3>1 DEF FilesWritten, NormalizedFiles
        <4>2. QED
          BY <1>1, <2>1, <4>1 DEF HeadWritten
      <3>5. Result' = Result /\ (HasRaw(Result.match))' = HasRaw(Result.match)
        BY <1>1, <3>1 DEF Result, HasRaw
      <3>6. QED
        BY <1>1, <3>2, <3>3, <3>4, <3>5 DEF HeadWritten, Fresh
    <2>4. QED
      BY <2>2, <2>3
  <1>12. Settled'
    BY <1>1 DEF Settled
  <1>13. QED
    BY <1>7, <1>8, <1>9, <1>10, <1>11, <1>12 DEF Credit

\* A row of a complete payload is written and its match accepted.
LEMMA ProcessedCredit ==
    ASSUME TypeInv, TypeInv', Credit, RecordProcessed
    PROVE  Credit' /\ Kept
  <1> DEFINE m == Result.match
  <1>1. /\ pc = "results" /\ queue # <<>> /\ Usable /\ Acceptable(m) /\ FilesWritten = NormalizedFiles
        /\ ckpt' = ckpt /\ pc' = pc /\ queue' = Tail(queue) /\ stage' = 0
        /\ raw' = raw /\ norm' = norm
        /\ catalog' = [catalog EXCEPT ![m] = [result |-> "processed", source |-> "this"]]
        /\ mem' = WithMatch(mem, m, "accepted")
        /\ UNCHANGED <<world, config>>
    BY DEF RecordProcessed, Usable, Keep, PopResult
  <1>2. kind' = kind /\ wide' = wide
    BY <1>1 DEF world, config
  <1>3. /\ mem \in StateType /\ m \in Matches
        /\ norm \in [Matches -> 0 .. NormalizedFiles]
        /\ catalog \in [Matches -> {Absent} \cup Rows]
    BY <1>1, QueueTyped DEF TypeInv, TypeOK
  <1>4. Due(Result) /\ HeadWritten
    BY <1>1, HeadDue DEF Credit
  <1>5. norm[m] = NormalizedFiles /\ HasRaw(m)
    <2>1. norm[m] \in 0 .. NormalizedFiles /\ norm[m] >= FilesWritten
      BY <1>1, <1>3, <1>4 DEF HeadWritten
    <2>2. CASE Fresh
      <3>1. stage > 0
        BY <1>1, <2>2 DEF FilesWritten, NormalizedFiles, TypeInv, ControlTyped
      <3>2. HasRaw(m)
        BY <1>1, <1>4, <2>2, <3>1 DEF HeadWritten
      <3>3. QED
        BY <1>1, <2>1, <3>2 DEF NormalizedFiles
    <2>3. CASE ~Fresh
      <3>1. Result.outcome = "cached"
        BY <1>1, <2>3 DEF Usable, Fresh
      <3>2. HasRaw(m)
        BY <1>4, <3>1 DEF Due
      <3>3. QED
        BY <1>1, <2>1, <3>2 DEF NormalizedFiles
    <2>4. QED
      BY <2>2, <2>3
  <1>6. [result |-> "processed", source |-> "this"] # Absent
    <2>1. [result |-> "processed", source |-> "this"] \in Rows
      BY DEF Rows, Snapshots
    <2>2. QED
      BY <2>1, AbsentAssumption
  <1> HIDE DEF m
  <1>7. \A x \in Matches : Processed(x)' <=> Processed(x) \/ x = m
    BY <1>1, <1>3, <1>6 DEF Processed
  <1>8. Stored'
    BY <1>1, <1>5, <1>7 DEF Credit, Stored, HasRaw
  <1>9. \A x \in Matches : mem'.matches[x] = IF x = m THEN "accepted" ELSE mem.matches[x]
    BY <1>1, <1>3 DEF WithMatch, StateType
  <1>10. InWindow(m) /\ \A x \in Matches : InWindow(x) => InWindow(x)'
    BY <1>1, <1>2 DEF Acceptable, InWindow
  <1>11. Earned(ckpt)' /\ Earned(mem)'
    BY <1>1, <1>3, <1>7, <1>9, <1>10 DEF Credit, Earned
  <1>12. Keeps(mem)' /\ Kept
    <2>1. ckpt.matches[m] \notin AcceptedStatuses
      BY <1>4 DEF Due, m
    <2>2. QED
      BY <1>1, <1>7, <1>9, <2>1 DEF Credit, Keeps, Kept
  <1>13. QueueDue' /\ HeadWritten' /\ Settled'
    BY <1>1, RestDue
  <1>14. QED
    BY <1>8, <1>11, <1>12, <1>13 DEF Credit

\* A rejection leaves a processed row alone and accepts nothing.
LEMMA RejectedCredit ==
    ASSUME TypeInv, TypeInv', Credit, RecordRejected
    PROVE  Credit' /\ Kept
  <1> DEFINE m == Result.match
             code == RejectCode(kind[m])
  <1>1. /\ pc = "results" /\ queue # <<>> /\ Usable /\ ~Acceptable(m)
        /\ ckpt' = ckpt /\ pc' = pc /\ queue' = Tail(queue) /\ stage' = 0
        /\ raw' = raw /\ norm' = norm
        /\ catalog' = IF Processed(m) THEN catalog
                       ELSE [catalog EXCEPT ![m] = [result |-> code, source |-> "this"]]
        /\ mem' = [WithMatch(mem, m, RejectStatus(code)) EXCEPT
                      !.transition = @ \/ code = "newer_patch_transition"]
        /\ UNCHANGED <<world, config>>
    BY DEF RecordRejected, RawDone, Usable, Keep, PopResult, Processed
  <1>2. kind' = kind /\ wide' = wide
    BY <1>1 DEF world, config
  <1>3. /\ mem \in StateType /\ m \in Matches
        /\ catalog \in [Matches -> {Absent} \cup Rows]
    BY <1>1, QueueTyped DEF TypeInv, TypeOK
  <1>4. code \in RejectCodes /\ RejectStatus(code) \notin AcceptedStatuses
    BY <1>1, RefusedKind, RejectTyped
  <1>5. ckpt.matches[m] \notin AcceptedStatuses
    BY <1>1, HeadDue DEF Due
  <1> HIDE DEF m, code
  <1>6. \A x \in Matches : Processed(x)' <=> Processed(x)
    <2>1. code # "processed"
      BY <1>4 DEF RejectCodes
    <2>2. QED
      BY <1>1, <1>3, <2>1 DEF Processed
  <1>7. Stored'
    BY <1>1, <1>6 DEF Credit, Stored, HasRaw
  <1>8. mem'.matches = [mem.matches EXCEPT ![m] = RejectStatus(code)] /\ DOMAIN mem.matches = Matches
    <2>1. WithMatch(mem, m, RejectStatus(code)).matches = [mem.matches EXCEPT ![m] = RejectStatus(code)]
      BY <1>3 DEF WithMatch, StateType
    <2>2. {"matches", "transition"} \subseteq DOMAIN WithMatch(mem, m, RejectStatus(code))
      BY <1>3 DEF WithMatch, StateType
    <2>3. mem'.matches = WithMatch(mem, m, RejectStatus(code)).matches
      BY <1>1, <2>2
    <2>4. QED
      BY <1>3, <2>1, <2>3 DEF StateType
  <1>9. Earned(ckpt)' /\ Earned(mem)' /\ Keeps(mem)' /\ Kept
    BY <1>1, <1>2, <1>3, <1>4, <1>5, <1>6, <1>8, RecordKeepsCredit
  <1>10. QueueDue' /\ HeadWritten' /\ Settled'
    BY <1>1, RestDue
  <1>11. QED
    BY <1>7, <1>9, <1>10 DEF Credit

\* A result that raises leaves the stores alone and accepts nothing.
LEMMA RaisedCredit ==
    ASSUME TypeInv, Credit, ResultRaises
    PROVE  Credit' /\ Kept
  <1> DEFINE m == Result.match
             status == RejectStatus(RejectCode(kind[m]))
  <1>1. /\ pc = "results" /\ queue # <<>> /\ ckpt' = ckpt /\ pc' = "abort" /\ stage' = 0
        /\ UNCHANGED <<world, config, stores>>
    BY DEF ResultRaises, Keep
  <1>2. /\ raw' = raw /\ norm' = norm /\ catalog' = catalog /\ kind' = kind /\ wide' = wide
    BY <1>1 DEF world, config, stores
  <1>3. Stored' /\ \A x \in Matches : Processed(x) => Processed(x)'
    BY <1>2 DEF Credit, Stored, Processed, HasRaw
  <1>4. mem \in StateType /\ m \in Matches
    BY <1>1, QueueTyped DEF TypeInv
  <1>5. CASE mem' = mem
    <2>1. \A x \in Matches : InWindow(x) => InWindow(x)'
      BY <1>2 DEF InWindow
    <2>2. Earned(ckpt)' /\ Earned(mem)'
      BY <1>1, <1>3, <1>5, <2>1 DEF Credit, Earned
    <2>3. Keeps(mem)' /\ Kept
      BY <1>1, <1>3, <1>5 DEF Credit, Keeps, Kept
    <2>4. QED
      BY <1>1, <1>3, <2>2, <2>3 DEF Credit, Settled
  <1>6. CASE Usable /\ ~Acceptable(m) /\ mem' = WithMatch(mem, m, status)
    <2>1. status \notin AcceptedStatuses /\ ckpt.matches[m] \notin AcceptedStatuses
      BY <1>1, <1>6, RefusedKind, RejectTyped, HeadDue DEF Due
    <2> HIDE DEF m, status
    <2>2. mem'.matches = [mem.matches EXCEPT ![m] = status] /\ DOMAIN mem.matches = Matches
      BY <1>4, <1>6 DEF WithMatch, StateType
    <2>3. Earned(ckpt)' /\ Earned(mem)' /\ Keeps(mem)' /\ Kept
      BY <1>1, <1>2, <1>3, <1>4, <2>1, <2>2, RecordKeepsCredit
    <2>4. QED
      BY <1>1, <1>3, <2>3 DEF Credit, Settled
  <1>7. QED
    BY <1>5, <1>6 DEF ResultRaises, Keep, RawDone

\* A new record credits a match only if its row was processed and is in the window.
LEMMA RegisterCredit ==
    ASSUME TypeInv, Credit, RegisterMatch
    PROVE  Credit' /\ Kept
  <1> DEFINE m == Head(queue)
             status == RegisteredStatus(m)
             st == WithMatch(mem, m, status)
  <1>1. /\ pc = "register" /\ queue # <<>> /\ ckpt' = ckpt /\ pc' = pc /\ stage' = stage
        /\ UNCHANGED <<world, config, stores>>
    BY DEF RegisterMatch, Keep
  <1>2. /\ raw' = raw /\ norm' = norm /\ catalog' = catalog /\ kind' = kind /\ wide' = wide
    BY <1>1 DEF world, config, stores
  <1>3. mem \in StateType /\ m \in Matches
    <2>1. queue \in Seq(Matches)
      BY <1>1 DEF TypeInv, ControlTyped
    <2>2. QED
      BY <1>1, <2>1, HeadTailProperties DEF TypeInv
  <1>4. \/ mem' = mem
        \/ mem.matches[m] = "unknown" /\ mem'.matches = st.matches
    <2>1. {"matches", "transition"} \subseteq DOMAIN st
      BY <1>3 DEF WithMatch, StateType
    <2>2. \/ mem' = mem
          \/ /\ mem.matches[m] = "unknown"
             /\ \E sealed : mem' = [st EXCEPT !.transition = @ \/ sealed]
      BY DEF RegisterMatch, Keep
    <2> HIDE DEF st
    <2>3. QED
      BY <2>1, <2>2
  <1>5. st.matches = [mem.matches EXCEPT ![m] = status] /\ DOMAIN mem.matches = Matches
    BY <1>3 DEF WithMatch, StateType
  <1>6. status \in AcceptedStatuses => Processed(m) /\ InWindow(m)
    BY DEF RegisteredStatus, AcceptedStatuses, Processed
  <1> HIDE DEF st, status, m
  <1>7. /\ \A x \in Matches : Processed(x)' <=> Processed(x)
        /\ \A x \in Matches : InWindow(x) => InWindow(x)'
        /\ Stored'
    BY <1>2 DEF Credit, Stored, Processed, HasRaw, InWindow
  <1>8. \A x \in Matches : /\ mem'.matches[x] # mem.matches[x] => x = m /\ mem.matches[m] = "unknown"
                           /\ mem'.matches[x] # mem.matches[x] => mem'.matches[x] = status
    BY <1>3, <1>4, <1>5
  <1>9. Earned(ckpt)' /\ Earned(mem)'
    BY <1>1, <1>6, <1>7, <1>8 DEF Credit, Earned
  <1>10. Keeps(mem)' /\ Kept
    <2>1. "unknown" \notin AcceptedStatuses
      BY DEF AcceptedStatuses
    <2>2. QED
      BY <1>1, <1>7, <1>8, <2>1 DEF Credit, Keeps, Kept
  <1>11. QED
    BY <1>1, <1>7, <1>9, <1>10 DEF Credit, Settled

\* A player's record is none of a match.
LEMMA PlayerMatches ==
    ASSUME NEW st \in StateType, NEW p, NEW rec
    PROVE  WithPlayer(st, p, rec).matches = st.matches
  BY DEF WithPlayer, StateType

\* Nor is a candidate or an exhausted stratum.
LEMMA CandidateMatches ==
    ASSUME NEW st, {"matches", "players", "strata", "exhausted"} \subseteq DOMAIN st,
           TakeCandidate(st)
    PROVE  /\ mem'.matches = st.matches /\ mem'.players = st.players
           /\ ckpt' = mem' /\ pc' \in {pc, "examine"}
  <1>1. CASE st.strata[Stratum] = <<>>
    <2>1. mem' = [st EXCEPT !.exhausted = @ \cup {Stratum}] /\ ckpt' = mem' /\ pc' = pc
      BY <1>1 DEF TakeCandidate, Save
    <2>2. QED
      BY <2>1
  <1>2. CASE st.strata[Stratum] # <<>>
    <2>1. /\ mem' = [st EXCEPT !.strata[Stratum] = Tail(st.strata[Stratum])]
          /\ ckpt' = mem' /\ pc' = "examine"
      BY <1>2 DEF TakeCandidate, Save
    <2>2. QED
      BY <2>1
  <1>3. QED
    BY <1>1, <1>2

\* The steps of sampling, of the players' histories and between the phases.
ControlStep ==
    \/ PendingDone \/ ResultsDone \/ ResumePlayer \/ ResumeDone \/ SampleKnownStratum
    \/ SampleNewStratum \/ SamplingDone \/ ExaminePlayer \/ CoverOnly \/ HistoryStops
    \/ HistoryMaxReached \/ FetchPage \/ ResumePage \/ NextChunk \/ OlderCutoff
    \/ ChunkDone \/ PageDone

\* They leave the stores and the matches' records alone.
LEMMA ControlEffect ==
    ASSUME TypeInv, ControlStep
    PROVE  /\ pc # "idle" /\ (pc # "results" \/ queue = <<>>)
           /\ UNCHANGED <<world, config, stores>> /\ stage' = stage
           /\ mem'.matches = mem.matches /\ ckpt' \in {ckpt, mem'}
           /\ pc' \notin {"idle", "results"}
  <1> USE DEF ControlStep
  <1>1. pc # "idle" /\ (pc # "results" \/ queue = <<>>)
    BY DEF PendingDone, ResultsDone, ResumePlayer, ResumeDone, SampleKnownStratum,
           SampleNewStratum, SamplingDone, ExaminePlayer, CoverOnly, HistoryStops,
           HistoryMaxReached, FetchPage, ResumePage, NextChunk, OlderCutoff, ChunkDone, PageDone,
           Sampling
  <1>2. mem \in StateType /\ ret \in {"migrate", "sample", "resume"}
    BY <1>1 DEF TypeInv, ControlTyped
  <1>3. UNCHANGED <<world, config, stores>> /\ stage' = stage
    BY DEF PendingDone, ResultsDone, ResumePlayer, ResumeDone, SampleKnownStratum,
           SampleNewStratum, SamplingDone, ExaminePlayer, CoverOnly, HistoryStops,
           HistoryMaxReached, FetchPage, ResumePage, NextChunk, OlderCutoff, ChunkDone, PageDone,
           MoveTo, control
  <1>4. /\ mem'.matches = mem.matches /\ ckpt' \in {ckpt, mem'}
        /\ pc' \notin {"idle", "results"}
    <2>1. CASE PendingDone \/ ResumePlayer \/ ResumeDone \/ SamplingDone \/ HistoryStops
               \/ ResumePage \/ NextChunk
      BY <1>1, <1>2, <2>1 DEF PendingDone, ResumePlayer, EnterHistory, ResumeDone, SamplingDone,
         HistoryStops, ResumePage, NextChunk, MoveTo
    <2>2. CASE ResultsDone
      BY <2>2 DEF ResultsDone, Save
    <2>3. CASE SampleKnownStratum \/ SampleNewStratum
      <3> DEFINE Moved == {[CursorMoved EXCEPT !.strata[Stratum] = list] :
                               list \in {Schedule[Stratum], <<>>}} \cup {CursorMoved}
      <3>1. \A st \in Moved : /\ st.matches = mem.matches
                              /\ {"matches", "players", "strata", "exhausted"} \subseteq DOMAIN st
        BY <1>2 DEF CursorMoved, StateType
      <3>2. ASSUME NEW st \in Moved, TakeCandidate(st)
            PROVE  mem'.matches = mem.matches /\ ckpt' = mem' /\ pc' \in {pc, "examine"}
        <4>1. /\ st.matches = mem.matches
              /\ {"matches", "players", "strata", "exhausted"} \subseteq DOMAIN st
          BY <3>1
        <4>2. QED
          BY <3>2, <4>1, CandidateMatches
      <3>3. \/ \E st \in Moved : TakeCandidate(st)
            \/ mem' = CursorMoved /\ ckpt' = mem' /\ pc' = pc
            \/ mem' = CursorMoved /\ ckpt' = ckpt /\ pc' = "abort"
        BY <2>3 DEF SampleKnownStratum, SampleNewStratum, Save, Keep
      <3>4. pc = "sample" /\ CursorMoved.matches = mem.matches
        BY <2>3, <3>1 DEF SampleKnownStratum, SampleNewStratum, Sampling
      <3> HIDE DEF Moved
      <3>5. QED
        BY <3>2, <3>3, <3>4
    <2>4. CASE ExaminePlayer
      <3>1. \/ mem' = mem /\ ckpt' = ckpt
            \/ \E rec : mem' = WithPlayer(mem, cur, rec) /\ ckpt' = mem'
        BY <2>4 DEF ExaminePlayer, PuuidKnown, Save
      <3>2. pc' \in {"history", "sample", "cover", "abort"}
        BY <2>4 DEF ExaminePlayer, PuuidKnown, EnterHistory
      <3>3. QED
        BY <1>2, <3>1, <3>2, PlayerMatches
    <2>5. CASE CoverOnly \/ HistoryMaxReached \/ FetchPage \/ OlderCutoff \/ ChunkDone \/ PageDone
      <3>1. \/ mem' = mem /\ ckpt' = ckpt
            \/ \E rec : mem' = WithPlayer(mem, cur, rec) /\ ckpt' = mem'
        BY <2>5 DEF CoverOnly, HistoryMaxReached, FetchPage, OlderCutoff, ChunkDone, PageDone,
           FinishPage, LeaveWith, Save
      <3>2. pc' \in {"sample", "page", "history", "abort", ret}
        BY <2>5 DEF CoverOnly, HistoryMaxReached, FetchPage, OlderCutoff, ChunkDone, PageDone,
           FinishPage, LeaveWith
      <3>3. QED
        BY <1>2, <3>1, <3>2, PlayerMatches
    <2>6. QED
      BY <2>1, <2>2, <2>3, <2>4, <2>5
  <1>5. QED
    BY <1>1, <1>3, <1>4

\* So they keep the credit.
LEMMA ControlCredit ==
    ASSUME TypeInv, Credit, ControlStep
    PROVE  Credit' /\ Kept
  BY ControlEffect, QuietCredit

\* Every step keeps the credit.
LEMMA StepCredit ==
    ASSUME TypeInv, Credit, [Next]_vars
    PROVE  Credit' /\ Kept
  <1>1. TypeInv'
    BY StepTypes
  <1>2. CASE Start
    BY <1>2, StartCredit
  <1>3. CASE Collect
    BY <1>1, <1>3, MigrateCredit, DownloadCredit, UnusableCredit, WriteCredit, ProcessedCredit,
       RejectedCredit, RaisedCredit, ControlCredit, RegisterCredit, EndCredit DEF Collect,
       ControlStep
  <1>4. CASE Interrupt \/ Crash
    BY <1>4, EndCredit
  <1>5. CASE UNCHANGED vars
    <2>1. /\ raw' = raw /\ norm' = norm /\ catalog' = catalog /\ kind' = kind /\ wide' = wide
          /\ ckpt' = ckpt /\ mem' = mem /\ pc' = pc /\ queue' = queue /\ stage' = stage
      BY <1>5 DEF vars, world, config, stores, control
    <2>2. Kept
      BY <2>1 DEF Kept, Processed
    <2>3. Credit'
      BY <2>1 DEF Credit, Stored, Settled, Earned, Keeps, QueueDue, Due, HeadWritten, Processed,
                  HasRaw, InWindow, Fresh, FilesWritten, Result
    <2>4. QED
      BY <2>2, <2>3
  <1>6. QED
    BY <1>2, <1>3, <1>4, <1>5 DEF Next

\* The inductive invariant of the collector.
THEOREM Inductive == Spec => [](TypeInv /\ Credit)
  <1>1. Init => TypeInv /\ Credit
    BY InitTypes, InitCredit
  <1>2. TypeInv /\ Credit /\ [Next]_vars => TypeInv' /\ Credit'
    BY StepTypes, StepCredit
  <1>3. QED
    BY <1>1, <1>2, PTL DEF Spec

\* Whatever crashes between two writes, a processed row has its payload and all its
\* normalized files, and what the checkpoint accepts has a processed row.
THEOREM StoresSafe == Spec => []StoresInOrder
  <1>1. TypeInv /\ Credit => StoresInOrder
    BY DEF Credit, Stored, Earned, Processed, HasRaw, StoresInOrder
  <1>2. QED
    BY <1>1, Inductive, PTL

\* What is credited is inside the window, whichever way it was credited and however the
\* window was widened between invocations.
THEOREM WindowSafe == Spec => []CreditInWindow
  <1>1. TypeInv /\ Credit => CreditInWindow
    BY DEF Credit, Earned, CreditInWindow
  <1>2. QED
    BY <1>1, Inductive, PTL

\* No crash, retry, rejection or later invocation takes credit back.
THEOREM CreditSafe == Spec => CreditIsFinal
  <1>1. TypeInv /\ Credit /\ [Next]_vars =>
            [\A m \in Matches :
                /\ catalog[m] # Absent /\ catalog[m].result = "processed" =>
                       catalog'[m] # Absent /\ catalog'[m].result = "processed"
                /\ ckpt.matches[m] \in AcceptedStatuses => ckpt'.matches[m] = ckpt.matches[m]]_vars
    BY StepCredit DEF Kept, Processed
  <1>2. QED
    BY <1>1, Inductive, PTL DEF Spec, CreditIsFinal
=============================================================================
