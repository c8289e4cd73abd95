---------------------- MODULE PopulationDownloadsProofs ----------------------
(***************************************************************************)
(* Proofs about what PopulationCollector downloads: no more than the       *)
(* target lacks, nothing twice, and nothing once the run is sealed.        *)
(***************************************************************************)
EXTENDS PopulationCollectorProofs

-----------------------------------------------------------------------------
(* The target.  While downloads are dealt with, the target lacks as many   *)
(* matches as results are left; what a migration deals with is not pending *)
(* and does not count.                                                     *)

Lacking == Len(queue) <= Remaining

NonePending == \A i \in 1 .. Len(queue) : mem.matches[queue[i].match] # "pending"

Bounded == /\ pc = "results" /\ queue # <<>> => Lacking \/ NonePending
           /\ pc = "idle" => mem = Absent

\* The accepted matches of a state are finitely many.
LEMMA AcceptedFinite ==
    ASSUME NEW st
    PROVE  IsFiniteSet(Accepted(st)) /\ AcceptedCount(st) \in Nat
  BY MatchesFinite DEF AcceptedCount, Accepted

\* A record of one match adds one to them at most, and none if it accepts nothing.
LEMMA AcceptedGrowth ==
    ASSUME NEW st, NEW new, NEW m \in Matches, NEW status, DOMAIN st.matches = Matches,
           new.matches = [st.matches EXCEPT ![m] = status]
    PROVE  /\ AcceptedCount(new) <= AcceptedCount(st) + 1
           /\ status \notin AcceptedStatuses => AcceptedCount(new) <= AcceptedCount(st)
  <1>1. \A x \in Matches : new.matches[x] = IF x = m THEN status ELSE st.matches[x]
    OBVIOUS
  <1>2. /\ Accepted(new) \subseteq Accepted(st) \cup {m}
        /\ status \notin AcceptedStatuses => Accepted(new) \subseteq Accepted(st)
    BY <1>1 DEF Accepted
  <1>3. /\ IsFiniteSet(Accepted(st)) /\ AcceptedCount(st) \in Nat
        /\ IsFiniteSet(Accepted(new)) /\ AcceptedCount(new) \in Nat
    BY AcceptedFinite
  <1>4. /\ IsFiniteSet(Accepted(st) \cup {m})
        /\ Cardinality(Accepted(st) \cup {m}) <= Cardinality(Accepted(st)) + 1
    <2> DEFINE A == Accepted(st)
    <2>1. IsFiniteSet(A) /\ Cardinality(A) \in Nat
      BY <1>3 DEF AcceptedCount
    <2> HIDE DEF A
    <2>2. /\ IsFiniteSet(A \cup {m})
          /\ Cardinality(A \cup {m}) = IF m \in A THEN Cardinality(A) ELSE Cardinality(A) + 1
      BY <2>1, FS_AddElement
    <2>3. Cardinality(A \cup {m}) <= Cardinality(A) + 1
      BY <2>1, <2>2
    <2>4. QED
      BY <2>2, <2>3 DEF A
  <1>5. Cardinality(Accepted(st) \cup {m}) \in Nat
    BY <1>4, FS_CardinalityType
  <1>6. Cardinality(Accepted(new)) <= Cardinality(Accepted(st) \cup {m})
    BY <1>2, <1>4, FS_Subset
  <1>7. ASSUME status \notin AcceptedStatuses
        PROVE  AcceptedCount(new) <= AcceptedCount(st)
    BY <1>2, <1>3, <1>7, FS_Subset DEF AcceptedCount
  <1>8. QED
    BY <1>3, <1>4, <1>5, <1>6, <1>7 DEF AcceptedCount

\* A result that is dealt with leaves the bound: what the target lacks shrinks by one
\* at most, and so does the number of results.
LEMMA PoppedBound ==
    ASSUME TypeInv, Bounded, pc = "results", queue # <<>>, queue' = Tail(queue),
           target' = target, NEW status, status # "pending",
           mem'.matches = [mem.matches EXCEPT ![Result.match] = status]
    PROVE  Lacking' \/ NonePending'
  <1>1. /\ queue \in Seq(Results) /\ Len(Tail(queue)) = Len(queue) - 1 /\ Len(queue) \in Nat
        /\ \A i \in 1 .. Len(Tail(queue)) : Tail(queue)[i] = queue[i + 1]
    BY QueueTyped, HeadTailProperties, LenProperties
  <1>2. Result.match \in Matches /\ mem \in StateType
    BY QueueTyped DEF TypeInv
  <1>3. DOMAIN mem.matches = Matches
    BY <1>2 DEF StateType
  <1>4. CASE Lacking
    <2>1. AcceptedCount(mem') <= AcceptedCount(mem) + 1
      BY <1>2, <1>3, AcceptedGrowth
    <2>2. AcceptedCount(mem) \in Nat /\ AcceptedCount(mem') \in Nat /\ target \in Nat
      BY AcceptedFinite, CollectorAssumption DEF TypeInv, TypeOK
    <2>3. Len(queue) <= target - AcceptedCount(mem)
      BY <1>4 DEF Lacking, Remaining
    <2>4. Len(queue') <= target' - AcceptedCount(mem')
      BY <1>1, <2>1, <2>2, <2>3
    <2>5. AcceptedCount(mem') = AcceptedCount(mem)'
      BY DEF AcceptedCount, Accepted
    <2>6. QED
      BY <2>4, <2>5 DEF Lacking, Remaining
  <1>5. CASE NonePending
    <2>1. ASSUME NEW i \in 1 .. Len(queue')
          PROVE  mem'.matches[queue'[i].match] # "pending"
      <3>1. i + 1 \in 1 .. Len(queue) /\ queue'[i] = queue[i + 1]
        BY <1>1
      <3>2. queue[i + 1] \in Results
        BY <1>1, <3>1, ElementOfSeq
      <3>3. queue[i + 1].match \in Matches /\ mem.matches[queue[i + 1].match] # "pending"
        BY <1>5, <3>1, <3>2 DEF NonePending, Results
      <3>4. QED
        BY <1>3, <3>1, <3>3
    <2>2. QED
      BY <2>1 DEF NonePending
  <1>6. QED
    BY <1>4, <1>5 DEF Bounded

\* The steps that deal with the results.
ResultStep == ResultUnusable \/ WriteRaw \/ RecordRejected \/ WriteNormalizedFile \/ RecordProcessed
              \/ ResultRaises

\* The invocation makes no more downloads.
Ending == \/ pc = "abort"
          \/ /\ stop = "request_budget_exhausted"
             /\ pc \in {"pending", "resume", "sample", "closing"}

\* They record the first result and drop it, write for it, or drop them all and end the
\* downloads.
LEMMA ResultEffect ==
    ASSUME TypeInv, ResultStep
    PROVE  /\ pc = "results" /\ queue # <<>> /\ pc' \notin {"idle", "migrate"}
           /\ UNCHANGED <<target, external, ckpt, chunk, ret, fetched>>
           /\ mem'.players = mem.players
           /\ \/ /\ queue' = Tail(queue) /\ pc' = "results"
                 /\ \E status \in MatchStatuses \ {"unknown", "pending"} :
                       mem'.matches = [mem.matches EXCEPT ![Result.match] = status]
              \/ queue' = queue /\ pc' = "results" /\ mem'.matches = mem.matches
              \/ queue' = <<>> /\ pc' # "results" /\ Ending'
           /\ \A m \in Matches : mem'.matches[m] # mem.matches[m] => m = Result.match
  <1> USE DEF ResultStep
  <1>1. pc = "results" /\ queue # <<>> /\ pc' \in {"results", "pending", "abort"}
    BY DEF ResultUnusable, WriteRaw, RecordRejected, WriteNormalizedFile, RecordProcessed,
           ResultRaises, RawDone, Usable
  <1>2. UNCHANGED <<target, external, ckpt, chunk, ret, fetched>>
    BY DEF ResultUnusable, WriteRaw, RecordRejected, WriteNormalizedFile, RecordProcessed,
           ResultRaises, Keep, config, world, client
  <1>3. mem \in StateType /\ Result.match \in Matches
    BY <1>1, QueueTyped DEF TypeInv
  <1>4. DOMAIN mem.matches = Matches
    BY <1>3 DEF StateType
  <1>5. ASSUME Usable, ~Acceptable(Result.match)
        PROVE  RejectStatus(RejectCode(kind[Result.match])) \in MatchStatuses \ {"unknown", "pending"}
    <2>1. kind[Result.match] \in Kinds \ {"target", "invalid"}
      BY <1>1, <1>5, RefusedKind
    <2>2. QED
      BY <2>1, CollectorAssumption DEF Kinds, RejectCode, RejectStatus, MatchStatuses
  <1>6. {"accepted", "rejected_schema", "request_failed"} \subseteq MatchStatuses \ {"unknown", "pending"}
    BY DEF MatchStatuses
  <1>7. ASSUME NEW status
        PROVE  LET st == WithMatch(mem, Result.match, status)
               IN  /\ st.matches = [mem.matches EXCEPT ![Result.match] = status]
                   /\ st.players = mem.players
                   /\ {"matches", "players", "transition"} \subseteq DOMAIN st
    BY <1>3 DEF WithMatch, StateType
  <1> DEFINE Recorded(status) == /\ mem'.matches = [mem.matches EXCEPT ![Result.match] = status]
                                 /\ mem'.players = mem.players
  <1>8. \A status : Recorded(status) =>
            \A m \in Matches : mem'.matches[m] # mem.matches[m] => m = Result.match
    BY <1>4
  <1>9. CASE ResultUnusable
    <2>1. CASE mem' = mem /\ queue' = <<>> /\ stop' = "request_budget_exhausted" /\ pc' = "pending"
      BY <1>1, <1>2, <2>1 DEF Ending
    <2>2. CASE /\ queue' = Tail(queue) /\ pc' = pc
               /\ \E status \in {"rejected_schema", "request_failed"} :
                     mem' = WithMatch(mem, Result.match, status)
      <3>1. PICK status \in {"rejected_schema", "request_failed"} :
                mem' = WithMatch(mem, Result.match, status)
        BY <2>2
      <3>2. Recorded(status)
        BY <1>7, <3>1
      <3>3. QED
        BY <1>1, <1>2, <1>6, <1>8, <2>2, <3>2
    <2>3. QED
      BY <1>9, <2>1, <2>2 DEF ResultUnusable, Keep, PopResult
  <1>10. CASE WriteRaw \/ WriteNormalizedFile
    <2>1. queue' = queue /\ pc' = pc
      BY <1>10 DEF WriteRaw, WriteNormalizedFile
    <2>2. mem'.matches = mem.matches /\ mem'.players = mem.players
      BY <1>3, <1>10 DEF WriteRaw, WriteNormalizedFile, Keep, StateType
    <2>3. QED
      BY <1>1, <1>2, <2>1, <2>2
  <1>11. CASE RecordRejected
    <2> DEFINE status == RejectStatus(RejectCode(kind[Result.match]))
               st == WithMatch(mem, Result.match, status)
    <2>1. /\ queue' = Tail(queue) /\ pc' = pc /\ Usable /\ ~Acceptable(Result.match)
          /\ \E sealed : mem' = [st EXCEPT !.transition = @ \/ sealed]
      BY <1>11 DEF RecordRejected, RawDone, Keep, PopResult
    <2>2. status \in MatchStatuses \ {"unknown", "pending"}
      BY <1>5, <2>1
    <2>3. /\ st.matches = [mem.matches EXCEPT ![Result.match] = status]
          /\ st.players = mem.players
          /\ {"matches", "players", "transition"} \subseteq DOMAIN st
      BY <1>7
    <2> HIDE DEF status, st
    <2>4. Recorded(status)
      BY <2>1, <2>3
    <2>5. QED
      BY <1>1, <1>2, <1>8, <2>1, <2>2, <2>4
  <1>12. CASE RecordProcessed
    <2>1. queue' = Tail(queue) /\ pc' = pc /\ mem' = WithMatch(mem, Result.match, "accepted")
      BY <1>12 DEF RecordProcessed, Keep, PopResult
    <2>2. Recorded("accepted")
      BY <1>7, <2>1
    <2>3. QED
      BY <1>1, <1>2, <1>6, <1>8, <2>1, <2>2
  <1>13. CASE ResultRaises
    <2>1. /\ queue' = <<>> /\ pc' = "abort"
          /\ mem' = mem \/ \E status : mem' = WithMatch(mem, Result.match, status)
      BY <1>13 DEF ResultRaises, Keep
    <2>2. mem' = mem \/ \E status : Recorded(status)
      BY <1>7, <2>1
    <2>3. QED
      BY <1>1, <1>2, <1>8, <2>1, <2>2 DEF Ending
  <1>14. QED
    BY <1>9, <1>10, <1>11, <1>12, <1>13

\* The bound holds at first and through every step.
LEMMA StepBounded ==
    ASSUME TypeInv, TypeInv', Bounded, [Next]_vars
    PROVE  Bounded'
  <1>1. CASE Start
    BY <1>1 DEF Start, Bounded
  <1>2. CASE Complete \/ Abort \/ Interrupt \/ Crash
    BY <1>2 DEF Complete, Abort, Interrupt, Crash, Exit, Bounded
  <1>3. CASE MigrateRecords
    <2>1. pc' = "results"
      BY <1>3 DEF MigrateRecords
    <2>2. "pending" \notin OutsideStatuses
      BY DEF OutsideStatuses
    <2>3. \A i \in 1 .. Len(queue') : mem'.matches[queue'[i].match] # "pending"
      BY <1>3, <2>2, MigratedQueue
    <2>4. QED
      BY <2>1, <2>3 DEF Bounded, NonePending
  <1>4. CASE DownloadPending \/ DownloadChunk
    <2>1. PICK n \in Nat : /\ n # 0 => n <= Remaining
                           /\ \E list \in [1 .. n -> PendingMatches] : GatherDownloads(list)
      BY <1>4, PendingList, ChunkList
    <2>2. PICK list \in [1 .. n -> PendingMatches] : GatherDownloads(list)
      BY <2>1
    <2>3. list \in [1 .. n -> Matches]
      BY DEF PendingMatches
    <2>4. queue' \in Seq(Results) /\ Len(queue') = n /\ pc' = "results"
      BY <2>2, <2>3, GatherTypes
    <2>5. mem' = mem /\ target' = target
      BY <1>4 DEF DownloadPending, DownloadChunk, config
    <2>6. Remaining' = Remaining
      BY <2>5 DEF Remaining, AcceptedCount, Accepted
    <2>7. queue' # <<>> => n # 0
      BY <2>4, EmptySeq
    <2>8. QED
      BY <2>1, <2>4, <2>6, <2>7 DEF Bounded, Lacking
  <1>5. CASE ResultStep
    <2>1. /\ pc = "results" /\ queue # <<>> /\ pc' # "idle" /\ target' = target
          /\ \/ /\ queue' = Tail(queue)
                /\ \E status \in MatchStatuses \ {"unknown", "pending"} :
                      mem'.matches = [mem.matches EXCEPT ![Result.match] = status]
             \/ queue' = queue /\ mem'.matches = mem.matches
             \/ queue' = <<>>
      BY <1>5, ResultEffect
    <2>2. CASE /\ queue' = Tail(queue)
               /\ \E status \in MatchStatuses \ {"unknown", "pending"} :
                     mem'.matches = [mem.matches EXCEPT ![Result.match] = status]
      <3>1. Lacking' \/ NonePending'
        BY <2>1, <2>2, PoppedBound
      <3>2. QED
        BY <2>1, <3>1 DEF Bounded
    <2>3. CASE queue' = queue /\ mem'.matches = mem.matches
      <3>1. Lacking' <=> Lacking
        BY <2>1, <2>3 DEF Lacking, Remaining, AcceptedCount, Accepted
      <3>2. NonePending' <=> NonePending
        BY <2>3 DEF NonePending
      <3>3. QED
        BY <2>1, <3>1, <3>2 DEF Bounded
    <2>4. CASE queue' = <<>>
      BY <2>1, <2>4 DEF Bounded
    <2>5. QED
      BY <2>1, <2>2, <2>3, <2>4
  <1>6. CASE ControlStep
    BY <1>6, ControlEffect DEF Bounded
  <1>7. CASE RegisterMatch
    BY <1>7 DEF RegisterMatch, Bounded
  <1>8. CASE UNCHANGED vars
    <2>1. pc' = pc /\ queue' = queue /\ mem' = mem /\ target' = target
      BY <1>8 DEF vars, control, config
    <2>2. QED
      BY <2>1 DEF Bounded, Lacking, NonePending, Remaining, AcceptedCount, Accepted
  <1>9. QED
    BY <1>1, <1>2, <1>3, <1>4, <1>5, <1>6, <1>7, <1>8 DEF Next, Collect, ControlStep, ResultStep

\* A pending match becomes accepted only while the target lacks one.
LEMMA StepStopsAtTarget ==
    ASSUME TypeInv, Bounded, [Next]_vars, mem # Absent, mem' # Absent, NEW m \in Matches,
           mem.matches[m] = "pending", mem'.matches[m] = "accepted"
    PROVE  AcceptedCount(mem) < target
  <1>1. pc # "idle" /\ mem \in StateType
    BY DEF Bounded, TypeInv
  <1>2. ResultStep
    <2>1. ~Start
      BY <1>1 DEF Start
    <2>2. ~(Complete \/ Abort \/ Interrupt \/ Crash)
      BY DEF Complete, Abort, Interrupt, Crash, Exit
    <2>3. ~MigrateRecords
      BY MigratedQueue
    <2>4. ~(DownloadPending \/ DownloadChunk)
      BY DEF DownloadPending, DownloadChunk
    <2>5. ~ControlStep
      BY ControlEffect
    <2>6. ~RegisterMatch
      <3>1. ASSUME RegisterMatch
            PROVE  FALSE
        <4> DEFINE x == Head(queue)
                   st == WithMatch(mem, x, RegisteredStatus(x))
        <4>1. \/ mem' = mem
              \/ /\ mem.matches[x] = "unknown"
                 /\ \E sealed : mem' = [st EXCEPT !.transition = @ \/ sealed]
          BY <3>1 DEF RegisterMatch, Keep
        <4>2. /\ st.matches = [mem.matches EXCEPT ![x] = RegisteredStatus(x)]
              /\ {"matches", "transition"} \subseteq DOMAIN st
              /\ DOMAIN mem.matches = Matches
          BY <1>1 DEF WithMatch, StateType
        <4> HIDE DEF st, x
        <4>3. mem' = mem \/ (mem.matches[x] = "unknown" /\ mem'.matches = st.matches)
          BY <4>1, <4>2
        <4>4. QED
          BY <4>2, <4>3
      <3>2. QED
        BY <3>1
    <2>7. ~UNCHANGED vars
      BY DEF vars
    <2>8. QED
      BY <2>1, <2>2, <2>3, <2>4, <2>5, <2>6, <2>7 DEF Next, Collect, ControlStep, ResultStep
  <1>3. pc = "results" /\ queue # <<>> /\ m = Result.match
    BY <1>2, ResultEffect
  <1>4. queue \in Seq(Results) /\ Len(queue) \in Nat \ {0} /\ Result = queue[1]
    BY <1>3, QueueTyped, EmptySeq
  <1>5. ~NonePending
    BY <1>3, <1>4 DEF NonePending
  <1>6. Len(queue) <= target - AcceptedCount(mem)
    BY <1>3, <1>5 DEF Bounded, Lacking, Remaining
  <1>7. AcceptedCount(mem) \in Nat /\ target \in Nat
    BY AcceptedFinite, CollectorAssumption DEF TypeInv, TypeOK
  <1>8. QED
    BY <1>4, <1>6, <1>7

\* No download is credited beyond the target: whatever is cached, retried or credited
\* from the catalog, no more is gathered than the target still lacks.
THEOREM TargetSafe == Spec => DownloadsStopAtTarget
  <1>1. Init => Bounded
    BY DEF Init, Bounded
  <1>2. TypeInv /\ TypeInv' /\ Bounded /\ [Next]_vars => Bounded'
    BY StepBounded
  <1>3. TypeInv /\ Bounded /\ [Next]_vars =>
            [(/\ mem # Absent
              /\ mem' # Absent
              /\ \E m \in Matches : mem.matches[m] = "pending" /\ mem'.matches[m] = "accepted")
             => AcceptedCount(mem) < target]_mem
    BY StepStopsAtTarget
  <1>4. QED
    BY <1>1, <1>2, <1>3, Inductive, PTL DEF Spec, DownloadsStopAtTarget

-----------------------------------------------------------------------------
(* Nothing is downloaded twice, if the API lists no match twice in one     *)
(* player's history.  A match that was downloaded is dealt with, waits in  *)
(* the queue, or has been dropped by an invocation that downloads no more. *)

DistinctHistory == \A p \in Players : Distinct(History[p])

DistinctPages(st) == \A p \in Players : Distinct(st.players[p].page)

\* What the private index holds is recorded as its duplicate or not at all.
ExternalKept(st) == \A m \in external : st.matches[m] \in {"unknown", "external_duplicate"}

Dealt(m) == mem.matches[m] \notin {"unknown", "pending"}

Waiting(m) == pc = "results" /\ \E i \in 1 .. Len(queue) : queue[i].match = m

Downloaded(m) == fetched[m] # 0

Frugal ==
    /\ ExternalKept(ckpt) /\ DistinctPages(ckpt)
    /\ pc # "idle" => ExternalKept(mem) /\ DistinctPages(mem)
    /\ Distinct(chunk)
    /\ chunk # <<>> \/ pc \in {"history", "page", "register", "relations"} => ret # "migrate"
    /\ pc = "results" => \A i \in 1 .. Len(queue) : queue[i].match \notin external
    /\ pc \in {"idle", "migrate"} => \A m \in Matches : ~Downloaded(m)
    /\ \A m \in Matches : Downloaded(m) =>
           fetched[m] = 1 /\ m \notin external /\ (Dealt(m) \/ Waiting(m) \/ Ending)

\* Nothing occurs twice in an empty list.
LEMMA EmptyDistinct == Distinct(<<>>)
  BY EmptySeq DEF Distinct

\* Nor in a part of a list without repetitions.
LEMMA PartDistinct ==
    ASSUME NEW S, NEW list \in Seq(S), Distinct(list),
           NEW first \in Nat \ {0}, NEW last \in Int, last <= Len(list)
    PROVE  Distinct(SubSeq(list, first, last))
  <1> DEFINE part == SubSeq(list, first, last)
  <1>1. Len(list) \in Nat
    BY LenProperties
  <1>2. \A i \in first .. last : list[i] \in S
    BY <1>1, ElementOfSeq
  <1>3. /\ Len(part) = IF first <= last THEN last - first + 1 ELSE 0
        /\ \A i \in 1 .. last - first + 1 : part[i] = list[first + i - 1]
    BY <1>2, SubSeqProperties
  <1> HIDE DEF part
  <1>4. ASSUME NEW i \in 1 .. Len(part), NEW j \in 1 .. Len(part), part[i] = part[j]
        PROVE  i = j
    <2>1. first <= last /\ Len(part) = last - first + 1
      BY <1>3, <1>4
    <2>2. i \in 1 .. last - first + 1 /\ j \in 1 .. last - first + 1
      BY <1>4, <2>1
    <2>3. first + i - 1 \in 1 .. Len(list) /\ first + j - 1 \in 1 .. Len(list)
      BY <1>1, <2>2
    <2>4. list[first + i - 1] = list[first + j - 1]
      BY <1>3, <1>4, <2>2
    <2>5. first + i - 1 = first + j - 1
      BY <2>3, <2>4 DEF Distinct
    <2>6. QED
      BY <2>2, <2>5
  <1>5. QED
    BY <1>4 DEF Distinct, part

\* A list without repetitions has a thing at one place at most.
LEMMA AtOnePlace ==
    ASSUME NEW n \in Nat, NEW S \in SUBSET (1 .. n), \A i, j \in S : i = j
    PROVE  Cardinality(S) \in {0, 1} /\ (Cardinality(S) # 0 => S # {})
  <1>1. CASE S = {}
    BY <1>1, FS_EmptySet
  <1>2. CASE S # {}
    <2>1. PICK i \in S : TRUE
      BY <1>2
    <2>2. S = {i}
      BY <2>1
    <2>3. Cardinality({i}) = 1
      BY FS_Singleton
    <2>4. QED
      BY <1>2, <2>2, <2>3
  <1>3. QED
    BY <1>1, <1>2

\* What is gathered is downloaded once.
LEMMA GatherOnce ==
    ASSUME TypeInv, NEW n \in Nat, NEW list \in [1 .. n -> Matches], Distinct(list),
           GatherDownloads(list)
    PROVE  \A m \in Matches : \/ fetched'[m] = fetched[m]
                              \/ /\ fetched'[m] = fetched[m] + 1
                                 /\ \E i \in 1 .. n : list[i] = m
  <1>1. PICK outcome \in [1 .. Len(list) -> CallOutcomes \cup {"cached"}] :
            LET calls == {i \in 1 .. Len(list) : outcome[i] # "cached"}
            IN  fetched' = [m \in Matches |->
                   fetched[m] + Cardinality({i \in calls : list[i] = m /\ outcome[i] = "ok"})]
    BY DEF GatherDownloads
  <1>2. Len(list) = n
    BY FunctionIsSequence
  <1>3. fetched \in [Matches -> Nat]
    BY DEF TypeInv, TypeOK
  <1> TAKE m \in Matches
  <1> DEFINE places == {i \in {i \in 1 .. Len(list) : outcome[i] # "cached"} :
                            list[i] = m /\ outcome[i] = "ok"}
  <1>4. fetched'[m] = fetched[m] + Cardinality(places)
    BY <1>1
  <1>5. /\ places \in SUBSET (1 .. n)
        /\ \A i, j \in places : i = j
        /\ \A i \in places : list[i] = m
    BY <1>2 DEF Distinct
  <1> HIDE DEF places
  <1>6. Cardinality(places) \in {0, 1} /\ (Cardinality(places) # 0 => places # {})
    BY <1>5, AtOnePlace
  <1>7. CASE Cardinality(places) = 0
    BY <1>3, <1>4, <1>7
  <1>8. CASE Cardinality(places) = 1
    <2>1. PICK i \in places : TRUE
      BY <1>6, <1>8
    <2>2. i \in 1 .. n /\ list[i] = m
      BY <1>5, <2>1
    <2>3. QED
      BY <1>4, <1>8, <2>2
  <1>9. QED
    BY <1>6, <1>7, <1>8

\* A start reads the checkpoint and has downloaded nothing.
LEMMA StartFrugal ==
    ASSUME TypeInv, Frugal, Start
    PROVE  Frugal'
  <1>1. /\ pc = "idle" /\ ckpt' = ckpt /\ external' = external /\ pc' = "migrate" /\ chunk' = <<>>
        /\ fetched' = [m \in Matches |-> 0] /\ ckpt \in StateType
    BY DEF Start, world, TypeInv, TypeOK
  <1>2. /\ mem'.matches = [m \in Matches |-> IF ckpt.matches[m] = "request_failed" THEN "pending"
                                                                           ELSE ckpt.matches[m]]
        /\ mem'.players = ckpt.players
    BY <1>1 DEF Start, StateType
  <1>3. external \subseteq Matches
    BY DEF TypeInv, TypeOK
  <1>4. ExternalKept(ckpt)' /\ DistinctPages(ckpt)'
    BY <1>1 DEF Frugal, ExternalKept, DistinctPages
  <1>5. ExternalKept(mem)'
    BY <1>1, <1>2, <1>3 DEF Frugal, ExternalKept
  <1>6. DistinctPages(mem)'
    BY <1>2 DEF Frugal, DistinctPages
  <1>7. QED
    BY <1>1, <1>4, <1>5, <1>6, EmptyDistinct DEF Frugal, Downloaded

\* The end of an invocation forgets what it has downloaded.
LEMMA EndFrugal ==
    ASSUME TypeInv, Frugal, Complete \/ Abort \/ Interrupt \/ Crash
    PROVE  Frugal'
  <1>1. pc # "idle" /\ Exit /\ pc' = "idle" /\ chunk' = <<>>
    BY DEF Complete, Abort, Interrupt, Crash, AtAwait, Sampling, Exit
  <1>2. mem \in StateType
    BY <1>1 DEF TypeInv
  <1>3. CursorMoved.matches = mem.matches /\ CursorMoved.players = mem.players
    BY <1>2 DEF CursorMoved, StateType
  <1>4. \/ ckpt'.matches = ckpt.matches /\ ckpt'.players = ckpt.players
        \/ ckpt'.matches = mem.matches /\ ckpt'.players = mem.players
    BY <1>3 DEF Complete, Abort, Interrupt, Crash
  <1>5. external' = external /\ fetched' = [m \in Matches |-> 0]
    BY <1>1 DEF Exit, world
  <1>6. ExternalKept(ckpt)' /\ DistinctPages(ckpt)'
    BY <1>1, <1>4, <1>5 DEF Frugal, ExternalKept, DistinctPages
  <1>7. QED
    BY <1>1, <1>5, <1>6, EmptyDistinct DEF Frugal, Downloaded

\* The migration downloads nothing.
LEMMA MigrateFrugal ==
    ASSUME TypeInv, Frugal, MigrateRecords
    PROVE  Frugal'
  <1>1. /\ pc = "migrate" /\ pc' = "results" /\ mem \in StateType
        /\ UNCHANGED <<ckpt, external, chunk, ret, fetched>>
    BY DEF MigrateRecords, Keep, world, client, TypeInv
  <1>2. mem'.players = mem.players
    BY <1>1 DEF MigrateRecords, Keep, StateType
  <1>3. external \subseteq Matches /\ \A m \in external : mem.matches[m] \notin OutsideStatuses
    BY <1>1 DEF TypeInv, TypeOK, Frugal, ExternalKept, OutsideStatuses
  <1>4. ExternalKept(mem)'
    BY <1>1, <1>3, MigratedQueue DEF Frugal, ExternalKept
  <1>5. \A i \in 1 .. Len(queue') : queue'[i].match \notin external
    BY <1>3, MigratedQueue
  <1>6. ExternalKept(ckpt)' /\ DistinctPages(ckpt)' /\ DistinctPages(mem)'
    BY <1>1, <1>2 DEF Frugal, ExternalKept, DistinctPages
  <1>7. QED
    BY <1>1, <1>4, <1>5, <1>6 DEF Frugal, Downloaded

\* What is pending has not been downloaded by this invocation.
LEMMA DownloadFrugal ==
    ASSUME TypeInv, Frugal, DownloadPending \/ DownloadChunk
    PROVE  Frugal'
  <1>1. /\ pc \in {"pending", "register"} /\ ~Ending
        /\ UNCHANGED <<ckpt, mem, external, chunk, ret>>
    BY DEF DownloadPending, DownloadChunk, DownloadShouldStop, BoundReached, Ending, world
  <1>2. PICK n \in Nat : \E list \in [1 .. n -> PendingMatches] : GatherDownloads(list) /\ Distinct(list)
    BY PendingList, ChunkList DEF Frugal
  <1>3. PICK list \in [1 .. n -> PendingMatches] : GatherDownloads(list) /\ Distinct(list)
    BY <1>2
  <1>4. list \in [1 .. n -> Matches]
    BY DEF PendingMatches
  <1>5. /\ Len(queue') = n /\ pc' = "results"
        /\ \A i \in 1 .. n : queue'[i].match = list[i]
    BY <1>3, <1>4, GatherTypes
  <1>6. \A m \in Matches : \/ fetched'[m] = fetched[m]
                           \/ /\ fetched'[m] = fetched[m] + 1
                              /\ \E i \in 1 .. n : list[i] = m
    BY <1>3, <1>4, GatherOnce
  <1>7. \A m \in PendingMatches : m \in Matches /\ mem.matches[m] = "pending" /\ m \notin external
    BY <1>1 DEF PendingMatches, Frugal, ExternalKept
  <1>8. \A i \in 1 .. Len(queue') : queue'[i].match \notin external
    BY <1>5, <1>7
  <1>9. ASSUME NEW m \in Matches, Downloaded(m)'
        PROVE  fetched'[m] = 1 /\ m \notin external /\ (Dealt(m)' \/ Waiting(m)')
    <2>1. CASE fetched'[m] = fetched[m]
      <3>1. Downloaded(m)
        BY <1>9, <2>1 DEF Downloaded
      <3>2. fetched[m] = 1 /\ m \notin external /\ Dealt(m)
        BY <1>1, <3>1 DEF Frugal, Waiting
      <3>3. QED
        BY <1>1, <2>1, <3>2 DEF Dealt
    <2>2. CASE fetched'[m] = fetched[m] + 1 /\ \E i \in 1 .. n : list[i] = m
      <3>1. PICK i \in 1 .. n : list[i] = m
        BY <2>2
      <3>2. mem.matches[m] = "pending" /\ m \notin external
        BY <1>7, <3>1
      <3>3. ~Downloaded(m)
        BY <1>1, <3>2 DEF Frugal, Waiting, Dealt
      <3>4. i \in 1 .. Len(queue') /\ queue'[i].match = m
        BY <1>5, <3>1
      <3>5. QED
        BY <1>5, <2>2, <3>2, <3>3, <3>4 DEF Waiting, Downloaded
    <2>3. QED
      BY <1>6, <2>1, <2>2
  <1>10. /\ ExternalKept(ckpt)' /\ DistinctPages(ckpt)'
         /\ ExternalKept(mem)' /\ DistinctPages(mem)'
    BY <1>1 DEF Frugal, ExternalKept, DistinctPages
  <1>11. QED
    BY <1>1, <1>5, <1>8, <1>9, <1>10 DEF Frugal

\* A result is dealt with, waits on, or is dropped when the downloads end.
LEMMA ResultFrugal ==
    ASSUME TypeInv, Frugal, ResultStep
    PROVE  Frugal'
  <1>1. /\ pc = "results" /\ queue # <<>> /\ pc' \notin {"idle", "migrate"}
        /\ UNCHANGED <<external, ckpt, chunk, ret, fetched>>
        /\ mem'.players = mem.players
        /\ \A m \in Matches : mem'.matches[m] # mem.matches[m] => m = Result.match
    BY ResultEffect
  <1>2. /\ queue \in Seq(Results) /\ Result = queue[1] /\ Len(queue) \in Nat \ {0}
        /\ mem \in StateType /\ Result.match \in Matches
    BY <1>1, QueueTyped, EmptySeq DEF TypeInv
  <1>3. Result.match \notin external /\ external \subseteq Matches
    BY <1>1, <1>2 DEF Frugal, TypeInv, TypeOK
  <1>4. ExternalKept(ckpt)' /\ DistinctPages(ckpt)' /\ ExternalKept(mem)' /\ DistinctPages(mem)'
    BY <1>1, <1>3 DEF Frugal, ExternalKept, DistinctPages
  <1>5. pc' \in {"results", "pending", "abort"}
    BY ResultEffect DEF Ending, ResultStep, ResultUnusable, WriteRaw, RecordRejected,
       WriteNormalizedFile, RecordProcessed, ResultRaises
  <1>6. /\ \A m \in Matches : Downloaded(m) =>
               fetched[m] = 1 /\ m \notin external /\ (Dealt(m) \/ Waiting(m))
        /\ chunk # <<>> => ret # "migrate"
        /\ Distinct(chunk)
        /\ \A i \in 1 .. Len(queue) : queue[i].match \notin external
    BY <1>1 DEF Frugal, Ending
  <1>7. CASE /\ queue' = Tail(queue) /\ pc' = "results"
             /\ \E status \in MatchStatuses \ {"unknown", "pending"} :
                   mem'.matches = [mem.matches EXCEPT ![Result.match] = status]
    <2>1. /\ Len(Tail(queue)) = Len(queue) - 1
          /\ \A i \in 1 .. Len(Tail(queue)) : Tail(queue)[i] = queue[i + 1]
      BY <1>1, <1>2, HeadTailProperties, LenProperties
    <2>2. \A i \in 1 .. Len(queue') : queue'[i].match \notin external
      BY <1>2, <1>6, <1>7, <2>1
    <2>3. ASSUME NEW m \in Matches, Downloaded(m)
          PROVE  Dealt(m)' \/ Waiting(m)'
      <3>1. CASE m = Result.match
        BY <1>2, <1>7, <3>1 DEF Dealt, StateType
      <3>2. CASE m # Result.match /\ Dealt(m)
        BY <1>1, <3>2 DEF Dealt
      <3>3. CASE m # Result.match /\ Waiting(m)
        <4>1. PICK i \in 1 .. Len(queue) : queue[i].match = m
          BY <3>3 DEF Waiting
        <4>2. i - 1 \in 1 .. Len(Tail(queue)) /\ Tail(queue)[i - 1] = queue[i]
          BY <1>2, <2>1, <3>3, <4>1
        <4>3. QED
          BY <1>7, <4>1, <4>2 DEF Waiting
      <3>4. QED
        BY <1>6, <2>3, <3>1, <3>2, <3>3
    <2>4. QED
      BY <1>1, <1>4, <1>6, <1>7, <2>2, <2>3 DEF Frugal, Downloaded
  <1>8. CASE queue' = queue /\ pc' = "results" /\ mem'.matches = mem.matches
    <2>1. \A m \in Matches : (Dealt(m)' <=> Dealt(m)) /\ (Waiting(m)' <=> Waiting(m))
      BY <1>1, <1>8 DEF Dealt, Waiting
    <2>2. QED
      BY <1>1, <1>4, <1>6, <1>8, <2>1 DEF Frugal, Downloaded
  <1>9. CASE queue' = <<>> /\ pc' # "results" /\ Ending'
    BY <1>1, <1>4, <1>5, <1>6, <1>9 DEF Frugal, Downloaded
  <1>10. QED
    BY <1>7, <1>8, <1>9, ResultEffect

\* A new record is of a match that was not downloaded, and the private index decides first.
LEMMA RegisterFrugal ==
    ASSUME TypeInv, Frugal, RegisterMatch
    PROVE  Frugal'
  <1> DEFINE x == Head(queue)
             st == WithMatch(mem, x, RegisteredStatus(x))
  <1>1. /\ pc = "register" /\ pc' = "register" /\ queue # <<>>
        /\ UNCHANGED <<external, ckpt, chunk, ret, fetched>>
        /\ mem \in StateType
    BY DEF RegisterMatch, Keep, world, client, TypeInv
  <1>2. x \in Matches
    BY <1>1, HeadTailProperties DEF TypeInv, ControlTyped
  <1>3. \/ mem' = mem
        \/ /\ mem.matches[x] = "unknown"
           /\ \E sealed : mem' = [st EXCEPT !.transition = @ \/ sealed]
    BY DEF RegisterMatch, Keep
  <1>4. /\ st.matches = [mem.matches EXCEPT ![x] = RegisteredStatus(x)]
        /\ st.players = mem.players
        /\ {"matches", "players", "transition"} \subseteq DOMAIN st
        /\ DOMAIN mem.matches = Matches
    BY <1>1 DEF WithMatch, StateType
  <1>5. x \in external => RegisteredStatus(x) = "external_duplicate"
    BY DEF RegisteredStatus
  <1> HIDE DEF x, st
  <1>6. /\ mem'.players = mem.players
        /\ \A m \in Matches : mem'.matches[m] # mem.matches[m] =>
              mem.matches[m] = "unknown" /\ (m \in external => mem'.matches[m] = "external_duplicate")
    BY <1>2, <1>3, <1>4, <1>5
  <1>7. external \subseteq Matches
    BY DEF TypeInv, TypeOK
  <1>8. ExternalKept(ckpt)' /\ DistinctPages(ckpt)' /\ ExternalKept(mem)' /\ DistinctPages(mem)'
    BY <1>1, <1>6, <1>7 DEF Frugal, ExternalKept, DistinctPages
  <1>9. ASSUME NEW m \in Matches, Downloaded(m)
        PROVE  fetched[m] = 1 /\ m \notin external /\ Dealt(m)'
    <2>1. fetched[m] = 1 /\ m \notin external /\ Dealt(m)
      BY <1>1, <1>9 DEF Frugal, Waiting, Ending
    <2>2. QED
      BY <1>6, <2>1 DEF Dealt
  <1>10. QED
    BY <1>1, <1>8, <1>9 DEF Frugal, Downloaded

\* A page is a part of the history.
LEMMA PageDistinct ==
    ASSUME TypeInv, DistinctHistory, pc = "history", NEW count \in Nat
    PROVE  Distinct(PageAt(count))
  <1>1. History[cur] \in Seq(Matches) /\ Player.offset \in Nat /\ cur \in Players
    BY PlayerTyped DEF WithPlayerAtHand, PlayerType
  <1>2. Len(History[cur]) \in Nat
    BY <1>1, LenProperties
  <1> DEFINE last == Min({Player.offset + count, Len(History[cur])})
  <1>3. last \in Int /\ last <= Len(History[cur])
    <2>1. Player.offset + count \in Nat
      BY <1>1
    <2>2. QED
      BY <1>2, <2>1, MinOfTwo
  <1> HIDE DEF last
  <1>4. Distinct(SubSeq(History[cur], Player.offset + 1, last))
    BY <1>1, <1>3, PartDistinct DEF DistinctHistory
  <1>5. QED
    BY <1>4 DEF PageAt, last

\* The steps of the control keep the pages free of repetitions.
LEMMA ControlPages ==
    ASSUME TypeInv, DistinctHistory, pc # "idle", DistinctPages(mem), ControlStep
    PROVE  DistinctPages(mem')
  <1>1. mem \in StateType
    BY DEF TypeInv
  <1>2. ASSUME NEW st, st.players = mem.players
        PROVE  DistinctPages(st)
    BY <1>2 DEF DistinctPages
  <1>3. ASSUME NEW rec, Distinct(rec.page), mem' = WithPlayer(mem, cur, rec)
        PROVE  DistinctPages(mem')
    <2>1. mem'.players = [mem.players EXCEPT ![cur] = rec] /\ DOMAIN mem.players = Players
      BY <1>1, <1>3 DEF WithPlayer, StateType
    <2>2. QED
      BY <1>3, <2>1 DEF DistinctPages
  <1>4. CASE PendingDone \/ ResultsDone \/ ResumePlayer \/ ResumeDone \/ SamplingDone
             \/ HistoryStops \/ ResumePage \/ NextChunk
    <2>1. mem' = mem
      BY <1>4 DEF PendingDone, ResultsDone, ResumePlayer, ResumeDone, SamplingDone, HistoryStops,
         ResumePage, NextChunk, MoveTo, Save
    <2>2. QED
      BY <2>1
  <1>5. CASE SampleKnownStratum \/ SampleNewStratum
    <2> DEFINE Moved == {[CursorMoved EXCEPT !.strata[Stratum] = list] :
                             list \in {Schedule[Stratum], <<>>}} \cup {CursorMoved}
    <2>1. \A st \in Moved : /\ st.players = mem.players
                            /\ {"matches", "players", "strata", "exhausted"} \subseteq DOMAIN st
      BY <1>1 DEF CursorMoved, StateType
    <2>2. \/ \E st \in Moved : TakeCandidate(st)
          \/ mem' \in Moved
      BY <1>5 DEF SampleKnownStratum, SampleNewStratum, Save, Keep
    <2> HIDE DEF Moved
    <2>3. ASSUME NEW st \in Moved, TakeCandidate(st)
          PROVE  mem'.players = mem.players
      <3>1. st.players = mem.players /\ {"matches", "players", "strata", "exhausted"} \subseteq DOMAIN st
        BY <2>1
      <3>2. QED
        BY <2>3, <3>1, CandidateMatches
    <2>4. mem'.players = mem.players
      BY <2>1, <2>2, <2>3
    <2>5. QED
      BY <1>2, <2>4
  <1>6. CASE ExaminePlayer
    <2>1. mem' = mem \/ \E rec : rec.page = <<>> /\ mem' = WithPlayer(mem, cur, rec)
      <3> DEFINE added == [NewPlayer EXCEPT !.status = "discovered", !.tier = TierOf[LastStratum]]
      <3>1. added.page = <<>>
        BY DEF NewPlayer
      <3>2. mem' = mem \/ mem' = WithPlayer(mem, cur, added)
        BY <1>6 DEF ExaminePlayer, PuuidKnown, Save
      <3> HIDE DEF added
      <3>3. QED
        BY <3>1, <3>2
    <2>2. QED
      BY <1>3, <2>1, EmptyDistinct
  <1>7. CASE CoverOnly \/ HistoryMaxReached \/ FetchPage \/ OlderCutoff \/ ChunkDone \/ PageDone
    <2>1. pc \in WithPlayerAtHand
      BY <1>7 DEF CoverOnly, HistoryMaxReached, FetchPage, OlderCutoff, ChunkDone, PageDone,
         WithPlayerAtHand
    <2>2. Player \in PlayerType /\ Distinct(Player.page)
      BY <2>1, PlayerTyped DEF DistinctPages, Player
    <2>3. CASE CoverOnly \/ HistoryMaxReached \/ ChunkDone
      <3>1. \E rec : mem' = WithPlayer(mem, cur, rec) /\ rec.page = Player.page
        BY <2>2, <2>3 DEF CoverOnly, HistoryMaxReached, ChunkDone, LeaveWith, Save, PlayerType, Player
      <3>2. QED
        BY <1>3, <2>2, <3>1
    <2>4. CASE OlderCutoff \/ PageDone
      <3> DEFINE passed == Player.offset + Len(Player.page)
                 finished(old, status) == [Player EXCEPT !.old = old, !.offset = passed, !.page = <<>>,
                                                         !.status = status]
                 turned == [Player EXCEPT !.offset = passed, !.page = <<>>]
      <3>1. turned.page = <<>> /\ \A old, status : finished(old, status).page = <<>>
        BY <2>2 DEF PlayerType
      <3>2. \/ \E old, status : mem' = WithPlayer(mem, cur, finished(old, status))
            \/ mem' = WithPlayer(mem, cur, turned)
        BY <2>4 DEF OlderCutoff, PageDone, FinishPage, LeaveWith, Save
      <3> HIDE DEF finished, turned
      <3>3. QED
        BY <1>3, <3>1, <3>2, EmptyDistinct
    <2>5. CASE FetchPage
      <3> DEFINE count == Min({BatchSize, MaxHistory - Player.offset})
                 page == PageAt(count)
      <3>1. count \in Nat /\ pc = "history"
        <4>1. Player.offset \in Nat /\ MaxHistory \in Nat /\ BatchSize \in Nat
          BY <2>2, CollectorAssumption DEF PlayerType
        <4>2. Player.offset < MaxHistory /\ pc = "history"
          BY <2>5 DEF FetchPage
        <4>3. QED
          BY <4>1, <4>2, MinOfTwo
      <3>2. Distinct(page)
        <4> HIDE DEF count
        <4>1. QED
          BY <3>1, PageDistinct
      <3>3. \/ mem' = mem
            \/ \E rec : mem' = WithPlayer(mem, cur, rec) /\ rec.page \in {page, Player.page}
        <4> HIDE DEF count, page
        <4> DEFINE asked == [Player EXCEPT !.page = page, !.asked = count]
        <4>1. \/ mem' = mem
              \/ mem' = WithPlayer(mem, cur, asked)
              \/ \E status : mem' = WithPlayer(mem, cur, [Player EXCEPT !.status = status])
          BY <2>5 DEF FetchPage, LeaveWith, Save, count, page
        <4>2. /\ asked.page = page
              /\ \A status : [Player EXCEPT !.status = status].page = Player.page
          BY <2>2 DEF PlayerType
        <4> HIDE DEF asked
        <4>3. QED
          BY <4>1, <4>2
      <3>4. QED
        BY <1>3, <2>2, <3>2, <3>3
    <2>6. QED
      BY <1>7, <2>3, <2>4, <2>5
  <1>8. QED
    BY <1>4, <1>5, <1>6, <1>7 DEF ControlStep

\* They do not come back to the migration, and what ends the downloads stays.
LEMMA ControlPlaces ==
    ASSUME TypeInv, Frugal, ControlStep
    PROVE  /\ UNCHANGED <<external, fetched>> /\ pc' # "migrate"
           /\ chunk' # <<>> \/ pc' \in {"history", "page", "register", "relations"} => ret' # "migrate"
           /\ Distinct(chunk')
           /\ Ending => Ending'
  <1> USE DEF ControlStep
  <1>1. /\ chunk # <<>> \/ pc \in {"history", "page", "register", "relations"} => ret # "migrate"
        /\ Distinct(chunk)
    BY DEF Frugal
  <1>2. UNCHANGED <<external, fetched>>
    BY DEF PendingDone, ResultsDone, ResumePlayer, ResumeDone, SampleKnownStratum,
           SampleNewStratum, SamplingDone, ExaminePlayer, CoverOnly, HistoryStops,
           HistoryMaxReached, FetchPage, ResumePage, NextChunk, OlderCutoff, ChunkDone, PageDone,
           MoveTo, world, client
  <1>3. CASE PendingDone \/ ResumeDone \/ SamplingDone \/ SampleKnownStratum \/ SampleNewStratum
             \/ CoverOnly
    <2>1. /\ pc' \in {"resume", "sample", "closing", "examine", "abort"}
          /\ chunk' = chunk /\ ret' = ret
      BY <1>3 DEF PendingDone, ResumeDone, SamplingDone, SampleKnownStratum, SampleNewStratum,
         CoverOnly, MoveTo, TakeCandidate, Sampling, control
    <2>2. Ending => Ending'
      BY <1>3 DEF PendingDone, ResumeDone, SamplingDone, SampleKnownStratum, SampleNewStratum,
         CoverOnly, MoveTo, Sampling, ShouldStop, BoundReached, Ending
    <2>3. QED
      BY <1>1, <1>2, <2>1, <2>2
  <1>4. CASE ResultsDone
    <2>1. pc = "results" /\ pc' \in {"relations", "pending"} /\ chunk' = chunk
          /\ (pc' = "relations" => chunk # <<>>) /\ (ret' = ret \/ ret' = "sample")
      BY <1>4 DEF ResultsDone, InChunk
    <2>2. QED
      BY <1>1, <1>2, <2>1 DEF Ending
  <1>5. CASE ResumePlayer
    <2>1. /\ pc = "resume" /\ ~ShouldStop /\ chunk' = chunk
          /\ \/ pc' = "resume" /\ ret' = ret
             \/ pc' = "history" /\ ret' = "resume"
      BY <1>5 DEF ResumePlayer, EnterHistory
    <2>2. ~Ending
      BY <2>1 DEF Ending, ShouldStop, BoundReached
    <2>3. QED
      BY <1>1, <1>2, <2>1, <2>2
  <1>6. CASE ExaminePlayer
    <2>1. /\ pc = "examine" /\ chunk' = chunk
          /\ \/ pc' \in {"sample", "cover", "abort"} /\ ret' = ret
             \/ pc' = "history" /\ ret' = "sample"
      BY <1>6 DEF ExaminePlayer, PuuidKnown, EnterHistory
    <2>2. QED
      BY <1>1, <1>2, <2>1 DEF Ending
  <1>7. CASE HistoryStops \/ HistoryMaxReached \/ FetchPage \/ ResumePage \/ OlderCutoff
             \/ ChunkDone \/ PageDone
    <2>1. /\ pc \in {"history", "page", "relations"} /\ ret' = ret /\ chunk' \in {chunk, <<>>}
          /\ pc' \in {ret, "history", "page", "abort"}
      BY <1>7 DEF HistoryStops, HistoryMaxReached, FetchPage, ResumePage, OlderCutoff, ChunkDone,
         PageDone, FinishPage, LeaveWith, MoveTo, control
    <2>2. ~Ending
      BY <2>1 DEF Ending
    <2>3. QED
      BY <1>1, <1>2, <2>1, <2>2, EmptyDistinct
  <1>8. CASE NextChunk
    <2> DEFINE last == Min({pos + Concurrency, Len(Player.page)})
    <2>1. /\ pc = "page" /\ ret' = ret /\ pc' = "register" /\ chunk' = SubSeq(Player.page, pos + 1, last)
      BY <1>8 DEF NextChunk
    <2>2. /\ Player.page \in Seq(Matches) /\ Distinct(Player.page) /\ pos \in Nat
      <3>1. pc \in WithPlayerAtHand /\ pc # "idle"
        BY <2>1 DEF WithPlayerAtHand
      <3>2. Player \in PlayerType /\ cur \in Players
        BY <3>1, PlayerTyped
      <3>3. QED
        BY <3>1, <3>2 DEF PlayerType, Frugal, DistinctPages, Player, TypeInv, ControlTyped
    <2>3. last \in Int /\ last <= Len(Player.page)
      <3>1. Len(Player.page) \in Nat /\ pos + Concurrency \in Nat
        BY <2>2, LenProperties, CollectorAssumption
      <3>2. QED
        BY <3>1, MinOfTwo
    <2> HIDE DEF last
    <2>4. Distinct(chunk')
      BY <2>1, <2>2, <2>3, PartDistinct
    <2>5. QED
      BY <1>1, <1>2, <2>1, <2>4 DEF Ending
  <1>9. QED
    BY <1>3, <1>4, <1>5, <1>6, <1>7, <1>8

\* So nothing that was downloaded comes back to be pending.
LEMMA ControlFrugal ==
    ASSUME TypeInv, DistinctHistory, Frugal, ControlStep
    PROVE  Frugal'
  <1>1. /\ pc # "idle" /\ (pc # "results" \/ queue = <<>>)
        /\ mem'.matches = mem.matches /\ ckpt' \in {ckpt, mem'}
        /\ pc' \notin {"idle", "results"}
    BY ControlEffect
  <1>2. DistinctPages(mem')
    BY <1>1, ControlPages DEF Frugal
  <1>3. external' = external /\ fetched' = fetched
    BY ControlPlaces
  <1>4. /\ ExternalKept(ckpt)' /\ ExternalKept(mem)'
        /\ DistinctPages(ckpt)' /\ DistinctPages(mem)'
    BY <1>1, <1>2, <1>3 DEF Frugal, ExternalKept, DistinctPages
  <1>5. ASSUME NEW m \in Matches, Downloaded(m)'
        PROVE  fetched'[m] = 1 /\ m \notin external' /\ (Dealt(m)' \/ Ending')
    <2>1. ~Waiting(m)
      BY <1>1, EmptySeq DEF Waiting
    <2>2. fetched[m] = 1 /\ m \notin external /\ (Dealt(m) \/ Ending)
      BY <1>3, <1>5, <2>1 DEF Frugal, Downloaded
    <2>3. QED
      BY <1>1, <1>3, <2>2, ControlPlaces DEF Dealt
  <1>6. QED
    BY <1>1, <1>4, <1>5, ControlPlaces DEF Frugal

\* Frugality holds at first and through every step.
LEMMA StepFrugal ==
    ASSUME TypeInv, DistinctHistory, Frugal, [Next]_vars
    PROVE  Frugal'
  <1>1. CASE UNCHANGED vars
    <2>1. UNCHANGED <<external, ckpt, mem, pc, stop, chunk, ret, queue, fetched>>
      BY <1>1 DEF vars, world, client, control
    <2>2. QED
      BY <2>1 DEF Frugal, ExternalKept, DistinctPages, Dealt, Waiting, Downloaded, Ending
  <1>2. QED
    BY <1>1, StartFrugal, EndFrugal, MigrateFrugal, DownloadFrugal, ResultFrugal, RegisterFrugal,
       ControlFrugal DEF Next, Collect, ControlStep, ResultStep

\* The initial states.
LEMMA InitFrugal ==
    ASSUME Init
    PROVE  Frugal
  <1>1. /\ ckpt = NewState /\ pc = "idle" /\ chunk = <<>> /\ fetched = [m \in Matches |-> 0]
        /\ external \subseteq Matches
    BY WorldsAssumption DEF Init
  <1>2. /\ \A m \in external : ckpt.matches[m] = "unknown"
        /\ \A p \in Players : ckpt.players[p].page = <<>>
    BY <1>1 DEF NewState, NewPlayer
  <1>3. QED
    BY <1>1, <1>2, EmptyDistinct DEF Frugal, ExternalKept, DistinctPages, Downloaded

\* No payload is downloaded twice by one invocation, whatever fails or is shared, and
\* none that the private index holds, if no history has a match twice.
THEOREM WasteSafe ==
    ASSUME DistinctHistory
    PROVE  Spec => []NoWastedDownload
  <1>1. Init => Frugal
    BY InitFrugal
  <1>2. TypeInv /\ Frugal /\ [Next]_vars => Frugal'
    BY DistinctHistory, StepFrugal
  <1>3. TypeInv /\ Frugal => NoWastedDownload
    <2>1. TypeInv => fetched \in [Matches -> Nat]
      BY DEF TypeInv, TypeOK
    <2>2. QED
      BY <2>1 DEF Frugal, Downloaded, NoWastedDownload
  <1>4. QED
    BY <1>1, <1>2, <1>3, Inductive, PTL DEF Spec

-----------------------------------------------------------------------------
(* A sealed run.  Whatever stop reason replaces that of the seal, one of   *)
(* the conditions that stop every loop holds from then on.                 *)

Halted == \/ stop \in {"newer_patch_transition_detected", "request_budget_exhausted"}
          \/ Cardinality(KnownMatches(mem)) >= MaxMatchIds

Sealing == /\ ckpt.transition => StopOnNewer
           /\ pc # "idle" /\ mem.transition => StopOnNewer /\ Halted /\ pc # "examine"

\* What a step does to the records and the stop reason.
SealStep ==
    /\ pc # "idle" /\ ckpt' \in {ckpt, mem'}
    /\ \/ mem'.transition = mem.transition /\ (pc' = "examine" => ~Halted)
       \/ StopOnNewer /\ stop' = "newer_patch_transition_detected" /\ pc' # "examine"
    /\ \A m \in Matches : mem.matches[m] # "unknown" => mem'.matches[m] # "unknown"
    /\ \/ stop' \in {stop, "newer_patch_transition_detected", "request_budget_exhausted"}
       \/ Cardinality(KnownMatches(mem)) >= MaxMatchIds

\* Such a step keeps the seal.
LEMMA SealKept ==
    ASSUME TypeInv, Sealing, SealStep
    PROVE  Sealing'
  <1>1. Halted => Halted'
    <2> DEFINE before == KnownMatches(mem)
               after == KnownMatches(mem')
    <2>1. before \subseteq after
      BY DEF SealStep, KnownMatches
    <2>2. /\ IsFiniteSet(after) /\ Cardinality(after) \in Nat
          /\ Cardinality(before) \in Nat
      BY MatchesFinite DEF KnownMatches
    <2>3. KnownMatches(mem)' = after
      BY DEF KnownMatches
    <2> HIDE DEF before, after
    <2>4. Cardinality(before) <= Cardinality(after)
      BY <2>1, <2>2, FS_Subset
    <2>5. Cardinality(before) >= MaxMatchIds => Cardinality(after) >= MaxMatchIds
      BY <2>2, <2>4, CollectorAssumption
    <2>6. QED
      BY <2>3, <2>5 DEF Halted, SealStep, before
  <1>2. mem'.transition => StopOnNewer /\ Halted' /\ pc' # "examine"
    BY <1>1 DEF Sealing, SealStep, Halted
  <1>3. QED
    BY <1>2 DEF Sealing, SealStep

\* The results: a rejected payload may seal the run, and the records stay known.
LEMMA ResultSeals ==
    ASSUME TypeInv, ResultStep
    PROVE  SealStep
  <1> USE DEF ResultStep
  <1>1. pc = "results" /\ queue # <<>> /\ pc' \in {"results", "pending", "abort"} /\ ckpt' = ckpt
    BY DEF ResultUnusable, WriteRaw, RecordRejected, WriteNormalizedFile, RecordProcessed,
           ResultRaises, RawDone, Usable, Keep
  <1>2. mem \in StateType /\ Result.match \in Matches
    BY <1>1, QueueTyped DEF TypeInv
  <1>3. DOMAIN mem.matches = Matches
    BY <1>2 DEF StateType
  <1>4. ASSUME Usable, ~Acceptable(Result.match)
        PROVE  RejectStatus(RejectCode(kind[Result.match])) # "unknown"
    <2>1. kind[Result.match] \in Kinds \ {"target", "invalid"}
      BY <1>1, <1>4, RefusedKind
    <2>2. QED
      BY <2>1, CollectorAssumption DEF Kinds, RejectCode, RejectStatus
  <1>5. ASSUME NEW status
        PROVE  LET st == WithMatch(mem, Result.match, status)
               IN  /\ st.matches = [mem.matches EXCEPT ![Result.match] = status]
                   /\ st.transition = mem.transition
                   /\ {"matches", "transition"} \subseteq DOMAIN st
    BY <1>2 DEF WithMatch, StateType
  <1>6. CASE RecordRejected
    <2> DEFINE code == RejectCode(kind[Result.match])
               status == RejectStatus(code)
               st == WithMatch(mem, Result.match, status)
               sealed == code = "newer_patch_transition"
    <2>1. /\ Usable /\ ~Acceptable(Result.match)
          /\ mem' = [st EXCEPT !.transition = @ \/ sealed]
          /\ stop' = IF sealed THEN "newer_patch_transition_detected" ELSE stop
          /\ pc' = pc
      BY <1>6 DEF RecordRejected, RawDone, Keep
    <2>2. status # "unknown"
      BY <1>4, <2>1
    <2>3. sealed => StopOnNewer
      <3>1. kind[Result.match] \in Kinds \ {"target", "invalid"}
        BY <1>1, <2>1, RefusedKind
      <3>2. QED
        BY <3>1 DEF Kinds, RejectCode
    <2>4. /\ st.matches = [mem.matches EXCEPT ![Result.match] = status]
          /\ st.transition = mem.transition
          /\ {"matches", "transition"} \subseteq DOMAIN st
      BY <1>5
    <2>5. mem.transition \in BOOLEAN
      BY <1>2 DEF StateType
    <2> HIDE DEF code, status, st, sealed
    <2>6. /\ mem'.matches = [mem.matches EXCEPT ![Result.match] = status]
          /\ mem'.transition = (mem.transition \/ sealed)
      BY <2>1, <2>4
    <2>7. \A m \in Matches : mem.matches[m] # "unknown" => mem'.matches[m] # "unknown"
      BY <1>3, <2>2, <2>6
    <2>8. CASE sealed
      BY <1>1, <2>1, <2>3, <2>7, <2>8 DEF SealStep
    <2>9. CASE ~sealed
      <3>1. mem'.transition = mem.transition
        BY <2>5, <2>6, <2>9
      <3>2. QED
        BY <1>1, <2>1, <2>7, <2>9, <3>1 DEF SealStep
    <2>10. QED
      BY <2>8, <2>9
  <1>7. CASE ResultUnusable \/ RecordProcessed \/ ResultRaises
    <2>1. \/ mem' = mem
          \/ \E status : status # "unknown" /\ mem' = WithMatch(mem, Result.match, status)
      BY <1>4, <1>7 DEF ResultUnusable, RecordProcessed, ResultRaises, RawDone, Keep
    <2>2. /\ mem'.transition = mem.transition
          /\ \A m \in Matches : mem.matches[m] # "unknown" => mem'.matches[m] # "unknown"
      <3>1. CASE mem' = mem
        BY <3>1
      <3>2. CASE \E status : status # "unknown" /\ mem' = WithMatch(mem, Result.match, status)
        <4>1. PICK status : status # "unknown" /\ mem' = WithMatch(mem, Result.match, status)
          BY <3>2
        <4>2. /\ mem'.matches = [mem.matches EXCEPT ![Result.match] = status]
              /\ mem'.transition = mem.transition
          BY <1>5, <4>1
        <4>3. QED
          BY <1>3, <4>1, <4>2
      <3>3. QED
        BY <2>1, <3>1, <3>2
    <2>3. stop' \in {stop, "request_budget_exhausted"}
      BY <1>7 DEF ResultUnusable, RecordProcessed, ResultRaises
    <2>4. QED
      BY <1>1, <2>2, <2>3 DEF SealStep
  <1>8. CASE WriteRaw \/ WriteNormalizedFile
    <2>1. mem'.matches = mem.matches /\ mem'.transition = mem.transition /\ stop' = stop
      BY <1>2, <1>8 DEF WriteRaw, WriteNormalizedFile, Keep, StateType
    <2>2. QED
      BY <1>1, <2>1 DEF SealStep
  <1>9. QED
    BY <1>6, <1>7, <1>8

\* A registered match may seal the run by its catalog row.
LEMMA RegisterSeals ==
    ASSUME TypeInv, RegisterMatch
    PROVE  SealStep
  <1> DEFINE x == Head(queue)
             status == RegisteredStatus(x)
             sealed == StopOnNewer /\ status = "newer_patch_transition_cached"
             st == WithMatch(mem, x, status)
  <1>1. /\ pc = "register" /\ pc' = "register" /\ queue # <<>> /\ ckpt' = ckpt /\ mem \in StateType
    BY DEF RegisterMatch, Keep, TypeInv
  <1>2. x \in Matches
    BY <1>1, HeadTailProperties DEF TypeInv, ControlTyped
  <1>3. \/ mem' = mem /\ stop' = stop
        \/ mem' = mem /\ Cardinality(KnownMatches(mem)) >= MaxMatchIds
        \/ /\ mem' = [st EXCEPT !.transition = @ \/ sealed]
           /\ stop' = IF sealed THEN "newer_patch_transition_detected" ELSE stop
    BY DEF RegisterMatch, Keep
  <1>4. /\ st.matches = [mem.matches EXCEPT ![x] = status]
        /\ st.transition = mem.transition
        /\ {"matches", "transition"} \subseteq DOMAIN st
        /\ DOMAIN mem.matches = Matches /\ mem.transition \in BOOLEAN
    BY <1>1 DEF WithMatch, StateType
  <1>5. status # "unknown"
    BY DEF RegisteredStatus
  <1>6. sealed => StopOnNewer
    OBVIOUS
  <1> HIDE DEF x, status, sealed, st
  <1>7. CASE mem' = mem
    <2>1. stop' = stop \/ Cardinality(KnownMatches(mem)) >= MaxMatchIds
                       \/ stop' = "newer_patch_transition_detected"
      BY <1>3
    <2>2. QED
      BY <1>1, <1>7, <2>1 DEF SealStep
  <1>8. CASE /\ mem' = [st EXCEPT !.transition = @ \/ sealed]
             /\ stop' = IF sealed THEN "newer_patch_transition_detected" ELSE stop
    <2>1. /\ mem'.matches = [mem.matches EXCEPT ![x] = status]
          /\ mem'.transition = (mem.transition \/ sealed)
      BY <1>4, <1>8
    <2>2. \A m \in Matches : mem.matches[m] # "unknown" => mem'.matches[m] # "unknown"
      BY <1>4, <1>5, <2>1
    <2>3. CASE sealed
      BY <1>1, <1>6, <1>8, <2>2, <2>3 DEF SealStep
    <2>4. CASE ~sealed
      <3>1. mem'.transition = mem.transition
        BY <1>4, <2>1, <2>4
      <3>2. QED
        BY <1>1, <1>8, <2>2, <2>4, <3>1 DEF SealStep
    <2>5. QED
      BY <2>3, <2>4
  <1>9. QED
    BY <1>3, <1>7, <1>8

\* The control only samples a candidate while nothing halts it.
LEMMA ControlSeals ==
    ASSUME TypeInv, ControlStep
    PROVE  SealStep
  <1> USE DEF ControlStep
  <1>1. pc # "idle" /\ mem'.matches = mem.matches /\ ckpt' \in {ckpt, mem'}
    BY ControlEffect
  <1>2. mem \in StateType
    BY <1>1 DEF TypeInv
  <1>3. stop' \in {stop, "request_budget_exhausted"}
    BY DEF PendingDone, ResultsDone, ResumePlayer, ResumeDone, SampleKnownStratum,
           SampleNewStratum, SamplingDone, ExaminePlayer, CoverOnly, HistoryStops,
           HistoryMaxReached, FetchPage, ResumePage, NextChunk, OlderCutoff, ChunkDone, PageDone,
           MoveTo
  <1>4. pc' = "examine" => ~Halted
    <2>1. CASE SampleKnownStratum \/ SampleNewStratum
      BY <2>1 DEF SampleKnownStratum, SampleNewStratum, Sampling, ShouldStop, BoundReached, Halted
    <2>2. CASE HistoryStops \/ HistoryMaxReached \/ FetchPage \/ OlderCutoff \/ ChunkDone \/ PageDone
      <3>1. ret # "examine"
        BY DEF TypeInv, ControlTyped
      <3>2. QED
        BY <2>2, <3>1 DEF HistoryStops, HistoryMaxReached, FetchPage, OlderCutoff, ChunkDone, PageDone,
           FinishPage, LeaveWith, MoveTo
    <2>3. CASE PendingDone \/ ResultsDone \/ ResumePlayer \/ ResumeDone \/ SamplingDone
               \/ ExaminePlayer \/ CoverOnly \/ ResumePage \/ NextChunk
      BY <2>3 DEF PendingDone, ResultsDone, ResumePlayer, EnterHistory, ResumeDone, SamplingDone,
         ExaminePlayer, PuuidKnown, CoverOnly, ResumePage, NextChunk, MoveTo
    <2>4. QED
      BY <2>1, <2>2, <2>3
  <1>5. mem'.transition = mem.transition
    <2>1. ASSUME NEW rec
          PROVE  WithPlayer(mem, cur, rec).transition = mem.transition
      BY <1>2 DEF WithPlayer, StateType
    <2>2. CASE PendingDone \/ ResultsDone \/ ResumePlayer \/ ResumeDone \/ SamplingDone
               \/ HistoryStops \/ ResumePage \/ NextChunk
      BY <2>2 DEF PendingDone, ResultsDone, ResumePlayer, ResumeDone, SamplingDone, HistoryStops,
         ResumePage, NextChunk, MoveTo, Save
    <2>3. CASE SampleKnownStratum \/ SampleNewStratum
      <3> DEFINE Moved == {[CursorMoved EXCEPT !.strata[Stratum] = list] :
                               list \in {Schedule[Stratum], <<>>}} \cup {CursorMoved}
      <3>1. \A st \in Moved : st.transition = mem.transition
                              /\ {"strata", "exhausted", "transition"} \subseteq DOMAIN st
        BY <1>2 DEF CursorMoved, StateType
      <3>2. \/ \E st \in Moved : \/ mem' = [st EXCEPT !.exhausted = @ \cup {Stratum}]
                                 \/ mem' = [st EXCEPT !.strata[Stratum] = Tail(st.strata[Stratum])]
            \/ mem' \in Moved
        BY <2>3 DEF SampleKnownStratum, SampleNewStratum, TakeCandidate, Save, Keep
      <3> HIDE DEF Moved
      <3>3. QED
        BY <3>1, <3>2
    <2>4. CASE ExaminePlayer \/ CoverOnly \/ HistoryMaxReached \/ FetchPage \/ OlderCutoff
               \/ ChunkDone \/ PageDone
      <3>1. mem' = mem \/ \E rec : mem' = WithPlayer(mem, cur, rec)
        BY <2>4 DEF ExaminePlayer, PuuidKnown, CoverOnly, HistoryMaxReached, FetchPage, OlderCutoff,
           ChunkDone, PageDone, FinishPage, LeaveWith, Save
      <3>2. QED
        BY <2>1, <3>1
    <2>5. QED
      BY <2>2, <2>3, <2>4
  <1>6. QED
    BY <1>1, <1>3, <1>4, <1>5 DEF SealStep

\* The seal holds at first and through every step.
LEMMA StepSealing ==
    ASSUME TypeInv, Sealing, [Next]_vars
    PROVE  Sealing'
  <1>1. CASE Start
    <2>1. /\ ckpt' = ckpt /\ stop' = InitialStop /\ pc' = "migrate" /\ ckpt \in StateType
      BY <1>1 DEF Start, TypeInv, TypeOK
    <2>2. mem'.transition = ckpt.transition
      BY <1>1, <2>1 DEF Start, StateType
    <2>3. QED
      BY <2>1, <2>2 DEF Sealing, InitialStop, Halted
  <1>2. CASE Complete \/ Abort \/ Interrupt \/ Crash
    <2>1. pc # "idle" /\ pc' = "idle"
      BY <1>2 DEF Complete, Abort, Interrupt, Crash, AtAwait, Sampling, Exit
    <2>2. CursorMoved.transition = mem.transition
      BY <2>1 DEF TypeInv, CursorMoved, StateType
    <2>3. ckpt'.transition \in {ckpt.transition, mem.transition}
      BY <1>2, <2>2 DEF Complete, Abort, Interrupt, Crash
    <2>4. QED
      BY <2>1, <2>3 DEF Sealing
  <1>3. CASE MigrateRecords
    <2>1. /\ pc = "migrate" /\ pc' = "results" /\ ckpt' = ckpt /\ stop' = stop /\ mem \in StateType
      BY <1>3 DEF MigrateRecords, Keep, TypeInv
    <2>2. mem'.transition = mem.transition
      BY <1>3, <2>1 DEF MigrateRecords, Keep, StateType
    <2>3. \A m \in Matches : mem.matches[m] # "unknown" => mem'.matches[m] # "unknown"
      BY <1>3, MigratedQueue
    <2>4. QED
      BY <2>1, <2>2, <2>3, SealKept DEF SealStep
  <1>4. CASE DownloadPending \/ DownloadChunk
    <2>1. pc # "idle" /\ pc' = "results" /\ UNCHANGED <<ckpt, mem, stop>>
      BY <1>4 DEF DownloadPending, DownloadChunk, GatherDownloads
    <2>2. QED
      BY <2>1, SealKept DEF SealStep
  <1>5. CASE ResultStep \/ ControlStep \/ RegisterMatch
    BY <1>5, ResultSeals, ControlSeals, RegisterSeals, SealKept
  <1>6. CASE UNCHANGED vars
    <2>1. UNCHANGED <<ckpt, mem, pc, stop>>
      BY <1>6 DEF vars
    <2>2. QED
      BY <2>1 DEF Sealing, Halted, KnownMatches
  <1>7. QED
    BY <1>1, <1>2, <1>3, <1>4, <1>5, <1>6 DEF Next, Collect, ControlStep, ResultStep

\* A step of a sealed run, but for the chunk in which it was sealed, makes no request.
LEMMA StepSealed ==
    ASSUME TypeInv, Bounded, Sealing, [Next]_vars, mem # Absent, mem.transition, pc # "register"
    PROVE  used' <= used
  <1>1. pc # "idle" /\ Halted /\ pc # "examine"
    BY DEF Bounded, Sealing
  <1>2. DownloadShouldStop /\ ShouldStop
    BY <1>1 DEF Halted, DownloadShouldStop, ShouldStop, BoundReached
  <1>3. used \in Nat
    BY CollectorAssumption DEF TypeInv, TypeOK
  <1>4. CASE Complete \/ Abort \/ Interrupt \/ Crash
    BY <1>3, <1>4 DEF Complete, Abort, Interrupt, Crash, Exit
  <1>5. CASE MigrateRecords \/ ResultStep \/ RegisterMatch
    <2>1. used' = used
      BY <1>5 DEF MigrateRecords, ResultStep, ResultUnusable, WriteRaw, RecordRejected,
         WriteNormalizedFile, RecordProcessed, ResultRaises, RegisterMatch, client
    <2>2. QED
      BY <1>3, <2>1
  <1>6. CASE ControlStep
    <2>1. ~SampleNewStratum /\ ~ExaminePlayer /\ ~FetchPage
      BY <1>1, <1>2 DEF SampleNewStratum, Sampling, ExaminePlayer, FetchPage
    <2>2. used' = used
      BY <1>6, <2>1 DEF ControlStep, PendingDone, ResultsDone, ResumePlayer, ResumeDone,
         SampleKnownStratum, SamplingDone, CoverOnly, HistoryStops, HistoryMaxReached, ResumePage,
         NextChunk, OlderCutoff, ChunkDone, PageDone, MoveTo, client
    <2>3. QED
      BY <1>3, <2>2
  <1>7. ~Start /\ ~DownloadPending /\ ~DownloadChunk
    BY <1>1, <1>2 DEF Start, DownloadPending, DownloadChunk
  <1>8. CASE UNCHANGED vars
    BY <1>3, <1>8 DEF vars, client
  <1>9. QED
    BY <1>4, <1>5, <1>6, <1>7, <1>8 DEF Next, Collect, ControlStep, ResultStep

\* A sealed run stays sealed through crashes and resumes and makes no further request.
THEOREM SealSafe == Spec => SealedRunMakesNoRequest
  <1>1. Init => Bounded /\ Sealing
    BY DEF Init, Bounded, Sealing, NewState
  <1>2. TypeInv /\ TypeInv' /\ Bounded /\ Sealing /\ [Next]_vars => Bounded' /\ Sealing'
    BY StepBounded, StepSealing
  <1>3. TypeInv /\ Bounded /\ Sealing /\ [Next]_vars =>
            [mem # Absent /\ mem.transition /\ pc # "register" => used' <= used]_vars
    BY StepSealed
  <1>4. QED
    BY <1>1, <1>2, <1>3, Inductive, PTL DEF Spec, SealedRunMakesNoRequest
=============================================================================
