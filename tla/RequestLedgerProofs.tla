------------------------- MODULE RequestLedgerProofs -------------------------
(***************************************************************************)
(* Theorems about RequestLedger, for every number of attempts per call,    *)
(* pages per stratum and concurrent downloads, every ceiling and any       *)
(* number of crashes.                                                      *)
(***************************************************************************)
EXTENDS RequestLedger, TLAPS

\* Attempts are awaited only where calls are made.
NothingAwaited == pc \notin Calling => left = 0

\* What the ledger knows of all the attempts ever made: a running process accounts for
\* them in memory, a checkpoint at rest in what it records and what its marker will be
\* charged; every crash may have lost one call's attempts.
AccountedFor ==
    LET known == IF pc \in Running THEN base + used
                 ELSE IF file.active THEN Charge
                 ELSE file.attempted
    IN  total <= known + AttemptsPerCall * crashes

\* Without a crash the account is exact.
ExactWithoutCrash ==
    crashes = 0 => /\ pc \in Running => total = base + used
                   /\ pc \notin Running => ~file.active /\ file.attempted = total

\* Begin marks the checkpoint, and nothing but the end of the run takes the mark away.
RecoveredUnmarked == pc = "recovered" => ~file.active

\* The inductive invariant.
IInv == /\ TypeOK
        /\ NothingAwaited
        /\ RecoveredUnmarked
        /\ UnsavedBounded
        /\ AccountedFor
        /\ ExactWithoutCrash
        /\ OverrunBounded

-----------------------------------------------------------------------------
(* Arithmetic.                                                             *)

\* Products of natural numbers are natural numbers.
LEMMA TimesNat == \A a, m \in Nat : a * m \in Nat
  OBVIOUS

\* A product distributes over a sum.
LEMMA TimesPlus == \A a, m, n \in Nat : a * (m + n) = a * m + a * n
  OBVIOUS

\* A product grows with its second factor.
LEMMA TimesMono == \A a, m, n \in Nat : m <= n => a * m <= a * n
  <1> SUFFICES ASSUME NEW a \in Nat, NEW m \in Nat, NEW n \in Nat, m <= n
               PROVE  a * m <= a * n
    OBVIOUS
  <1>1. n - m \in Nat /\ n = m + (n - m)
    OBVIOUS
  <1>2. a * n = a * m + a * (n - m)
    BY <1>1, TimesPlus
  <1>3. a * (n - m) \in Nat
    BY <1>1, TimesNat
  <1>4. QED
    BY <1>2, <1>3, TimesNat

\* Where control is, as a plain set of names.
LEMMA UnsavedCallsBounded ==
    ASSUME NEW where \in Running \cup {"idle", "recovered"}
    PROVE  /\ UnsavedCalls(where) \in Nat
           /\ UnsavedCalls(where) <= Larger(PagesPerStratum, Concurrency) + 1
  BY LedgerAssumption DEF UnsavedCalls, Running, Quiet, Calling, Larger

\* The attempts since the last save never exceed the charge by more than one call's.
LEMMA CrashLosesOneCall ==
    ASSUME IInv, pc \in Running
    PROVE  base + used <= Charge + AttemptsPerCall
  <1> DEFINE most == Larger(PagesPerStratum, Concurrency)
  <1>1. most \in Nat
    BY LedgerAssumption DEF Larger
  <1>2. /\ UnsavedCalls(pc) \in Nat
        /\ UnsavedCalls(pc) <= most + 1
    BY UnsavedCallsBounded
  <1>3. AttemptsPerCall * UnsavedCalls(pc) <= AttemptsPerCall * (most + 1)
    BY <1>1, <1>2, TimesMono, LedgerAssumption
  <1>4. AttemptsPerCall * (most + 1) = AttemptsPerCall * most + AttemptsPerCall
    BY <1>1, TimesPlus, LedgerAssumption
  <1>5. /\ AttemptsPerCall * most \in Nat
        /\ AttemptsPerCall * UnsavedCalls(pc) \in Nat
        /\ AttemptsPerCall * (most + 1) \in Nat
    BY <1>1, <1>2, TimesNat, LedgerAssumption
  <1>6. base + used + left <= file.attempted + AttemptsPerCall * UnsavedCalls(pc)
    BY DEF IInv, UnsavedBounded
  <1>7. /\ base \in Nat /\ used \in Nat /\ left \in Nat /\ file.attempted \in Nat
        /\ AttemptsPerCall \in Nat
    BY LedgerAssumption DEF IInv, TypeOK
  <1>8. Charge = file.attempted + AttemptsPerCall * most
    BY DEF Charge
  <1> HIDE DEF most
  <1>9. QED
    BY <1>3, <1>4, <1>5, <1>6, <1>7, <1>8

\* Nothing is spent, saved or charged before the first invocation.
LEMMA InitIInv == Init => IInv
  <1> SUFFICES ASSUME Init PROVE IInv
    OBVIOUS
  <1>1. AttemptsPerCall * 0 = 0
    BY LedgerAssumption
  <1>2. QED
    BY <1>1, LedgerAssumption
       DEF Init, IInv, TypeOK, NothingAwaited, RecoveredUnmarked, UnsavedBounded, AccountedFor,
           ExactWithoutCrash, OverrunBounded, Running, Quiet, Calling, Nothing

-----------------------------------------------------------------------------
(* The moves a running collector is made of.                               *)

\* Control moves within a run and nothing is saved: the place it goes to allows for as
\* many unsaved calls as the one it leaves.
LEMMA GotoKeepsIInv ==
    ASSUME IInv, NEW to \in Quiet, pc \in Running, Goto(to),
           UnsavedCalls(pc) <= UnsavedCalls(to)
    PROVE  IInv'
  <1> USE DEF IInv, Goto, Running
  <1>1. TypeOK'
    BY DEF TypeOK
  <1>2. NothingAwaited' /\ RecoveredUnmarked'
    BY DEF NothingAwaited, RecoveredUnmarked, Quiet, Calling
  <1>3. UnsavedBounded'
    <2>1. AttemptsPerCall * UnsavedCalls(pc) <= AttemptsPerCall * UnsavedCalls(to)
      BY UnsavedCallsBounded, TimesMono, LedgerAssumption
    <2>2. /\ AttemptsPerCall * UnsavedCalls(pc) \in Nat
          /\ AttemptsPerCall * UnsavedCalls(to) \in Nat
      BY UnsavedCallsBounded, TimesNat, LedgerAssumption
    <2>3. /\ file.active /\ file.attempted <= base + used
          /\ base + used + left <= file.attempted + AttemptsPerCall * UnsavedCalls(pc)
      BY DEF UnsavedBounded
    <2>4. base + used + 0 <= file.attempted + AttemptsPerCall * UnsavedCalls(to)
      BY <2>1, <2>2, <2>3 DEF TypeOK
    <2>5. /\ pc' = to /\ left' = 0
          /\ UNCHANGED <<file, base, used>>
      OBVIOUS
    <2>6. UnsavedCalls(pc)' = UnsavedCalls(to)
      BY <2>5 DEF UnsavedCalls
    <2>7. QED
      BY <2>3, <2>4, <2>5, <2>6 DEF UnsavedBounded
  <1>4. AccountedFor' /\ ExactWithoutCrash' /\ OverrunBounded'
    BY DEF AccountedFor, ExactWithoutCrash, OverrunBounded
  <1>5. QED
    BY <1>1, <1>2, <1>3, <1>4

\* A save leaves nothing unsaved.
LEMMA SaveKeepsIInv ==
    ASSUME IInv, NEW to \in Quiet, NEW has \in {Nothing, Candidates, Players},
           pc \in Running, SaveAnd(to, has)
    PROVE  IInv'
  <1> USE DEF IInv, SaveAnd, Running
  <1>1. TypeOK'
    BY DEF TypeOK, Larger, Nothing, Candidates, Players
  <1>2. NothingAwaited' /\ RecoveredUnmarked'
    BY DEF NothingAwaited, RecoveredUnmarked, Quiet, Calling
  <1>3. UnsavedBounded'
    <2>1. AttemptsPerCall * UnsavedCalls(to) \in Nat
      BY UnsavedCallsBounded, TimesNat, LedgerAssumption
    <2>2. file.active
      BY DEF UnsavedBounded
    <2>3. /\ pc' = to /\ left' = 0
          /\ file' = [attempted |-> base + used, active |-> TRUE]
          /\ UNCHANGED <<base, used>>
      BY <2>2 DEF TypeOK
    <2>4. UnsavedCalls(pc)' = UnsavedCalls(to)
      BY <2>3 DEF UnsavedCalls
    <2>5. base + used \in Nat
      BY DEF TypeOK
    <2>6. base + used + 0 <= base + used + AttemptsPerCall * UnsavedCalls(to)
      BY <2>1, <2>5
    <2>7. QED
      BY <2>3, <2>4, <2>5, <2>6 DEF UnsavedBounded
  <1>4. AccountedFor' /\ ExactWithoutCrash' /\ OverrunBounded'
    BY DEF AccountedFor, ExactWithoutCrash, OverrunBounded
  <1>5. QED
    BY <1>1, <1>2, <1>3, <1>4

\* Calls go out from a place that has made none of them: the place where they are
\* awaited allows for these calls on top of the unsaved ones.
LEMMA AwaitKeepsIInv ==
    ASSUME IInv, NEW where \in Calling, pc \in Quiet, Await(where),
           UnsavedCalls(pc) + CallsAt(where) = UnsavedCalls(where)
    PROVE  IInv'
  <1> USE DEF IInv, Await, Running
  <1>1. CallsAt(where) \in Nat
    BY LedgerAssumption DEF CallsAt
  <1>2. TypeOK'
    BY <1>1, TimesNat, LedgerAssumption DEF TypeOK
  <1>3. NothingAwaited' /\ RecoveredUnmarked'
    BY DEF NothingAwaited, RecoveredUnmarked, Calling
  <1>4. UnsavedBounded'
    <2>1. AttemptsPerCall * UnsavedCalls(pc) + AttemptsPerCall * CallsAt(where)
             = AttemptsPerCall * UnsavedCalls(where)
      BY <1>1, UnsavedCallsBounded, TimesPlus, LedgerAssumption
    <2>2. /\ AttemptsPerCall * UnsavedCalls(pc) \in Nat
          /\ AttemptsPerCall * CallsAt(where) \in Nat
      BY <1>1, UnsavedCallsBounded, TimesNat, LedgerAssumption
    <2>3. /\ file.active /\ file.attempted <= base + used
          /\ base + used + left <= file.attempted + AttemptsPerCall * UnsavedCalls(pc)
      BY DEF UnsavedBounded
    <2>4. base + used + AttemptsPerCall * CallsAt(where)
             <= file.attempted + AttemptsPerCall * UnsavedCalls(where)
      BY <2>1, <2>2, <2>3 DEF TypeOK
    <2>5. /\ pc' = where /\ left' = AttemptsPerCall * CallsAt(where)
          /\ UNCHANGED <<file, base, used>>
      OBVIOUS
    <2>6. UnsavedCalls(pc)' = UnsavedCalls(where)
      BY <2>5 DEF UnsavedCalls
    <2>7. QED
      BY <2>3, <2>4, <2>5, <2>6 DEF UnsavedBounded
  <1>5. AccountedFor' /\ ExactWithoutCrash' /\ OverrunBounded'
    BY DEF AccountedFor, ExactWithoutCrash, OverrunBounded, Quiet, Calling
  <1>6. QED
    BY <1>2, <1>3, <1>4, <1>5
\* An attempt spends what the awaited calls may spend and what the ceiling leaves.
LEMMA AttemptKeepsIInv == IInv /\ Attempt => IInv'
  <1> SUFFICES ASSUME IInv, Attempt PROVE IInv'
    OBVIOUS
  <1> USE DEF IInv, Attempt
  <1>1. AttemptsPerCall * crashes \in Nat
    BY TimesNat, LedgerAssumption DEF TypeOK
  <1>2. pc \in Running /\ pc' = pc
    BY DEF Running
  <1>3. TypeOK'
    BY DEF TypeOK
  <1>4. NothingAwaited' /\ RecoveredUnmarked'
    BY <1>2 DEF NothingAwaited, RecoveredUnmarked
  <1>5. UnsavedBounded'
    <2>1. UnsavedCalls(pc)' = UnsavedCalls(pc)
      BY <1>2 DEF UnsavedCalls
    <2>2. AttemptsPerCall * UnsavedCalls(pc) \in Nat
      BY <1>2, UnsavedCallsBounded, TimesNat, LedgerAssumption
    <2>3. QED
      BY <1>2, <2>1, <2>2 DEF UnsavedBounded, TypeOK
  <1>6. AccountedFor' /\ ExactWithoutCrash'
    BY <1>1, <1>2 DEF AccountedFor, ExactWithoutCrash, TypeOK
  <1>7. OverrunBounded'
    <2>1. base + used < ceiling
      BY LedgerAssumption DEF Grant, TypeOK
    <2>2. total <= base + used + AttemptsPerCall * crashes
      BY <1>2 DEF AccountedFor
    <2>3. ceiling \in Nat
      BY LedgerAssumption DEF TypeOK
    <2>4. total + 1 <= ceiling + AttemptsPerCall * crashes
      BY <1>1, <2>1, <2>2, <2>3 DEF TypeOK
    <2>5. QED
      BY <2>4 DEF OverrunBounded
  <1>8. QED
    BY <1>3, <1>4, <1>5, <1>6, <1>7

\* The recovery turns what a marker will be charged into recorded attempts.
LEMMA RecoverKeepsIInv == IInv /\ Recover => IInv'
  <1> SUFFICES ASSUME IInv, Recover PROVE IInv'
    OBVIOUS
  <1> USE DEF IInv, Recover
  <1>1. Charge \in Nat
    <2>1. Larger(PagesPerStratum, Concurrency) \in Nat
      BY LedgerAssumption DEF Larger
    <2>2. QED
      BY <2>1, TimesNat, LedgerAssumption DEF Charge, TypeOK
  <1>2. /\ pc \notin Running /\ pc' \notin Running
        /\ pc' \notin Calling /\ pc \notin Calling
        /\ file'.attempted = IF file.active THEN Charge ELSE file.attempted
        /\ file'.active = FALSE
    BY DEF Running, Quiet, Calling
  <1>3. TypeOK'
    BY <1>1 DEF TypeOK
  <1>4. NothingAwaited' /\ RecoveredUnmarked' /\ UnsavedBounded'
    BY <1>2 DEF NothingAwaited, RecoveredUnmarked, UnsavedBounded
  <1>5. AccountedFor' /\ ExactWithoutCrash'
    BY <1>2 DEF AccountedFor, ExactWithoutCrash, TypeOK
  <1>6. OverrunBounded'
    <2>1. ceiling \in Nat /\ ceiling' \in Nat /\ ceiling' >= ceiling
      BY LedgerAssumption DEF TypeOK
    <2>2. AttemptsPerCall * crashes \in Nat
      BY TimesNat, LedgerAssumption DEF TypeOK
    <2>3. QED
      BY <2>1, <2>2 DEF OverrunBounded, TypeOK
  <1>7. QED
    BY <1>3, <1>4, <1>5, <1>6

\* An invocation that begins takes the recovered count as its base; a finalization only
\* removes the marker.
LEMMA BeginKeepsIInv == IInv /\ (Begin \/ Finalize) => IInv'
  <1> SUFFICES ASSUME IInv, Begin \/ Finalize PROVE IInv'
    OBVIOUS
  <1> USE DEF IInv, Running, Quiet, Calling
  <1>1. CASE Begin
    <2> USE <1>1 DEF Begin
    <2>1. /\ pc = "recovered" /\ pc' = "pending"
          /\ left = 0 /\ left' = 0
          /\ file' = [attempted |-> file.attempted, active |-> TRUE]
      BY DEF NothingAwaited, TypeOK
    <2>2. TypeOK'
      <3>1. file.attempted \in Nat
        BY DEF TypeOK
      <3>2. file' \in [attempted : Nat, active : BOOLEAN]
        BY <2>1, <3>1
      <3>3. QED
        BY <2>1, <3>1, <3>2 DEF TypeOK
    <2>3. UnsavedBounded'
      <3>1. AttemptsPerCall * 0 = 0
        BY LedgerAssumption
      <3>2. UnsavedCalls(pc)' = 0
        BY <2>1 DEF UnsavedCalls
      <3>3. QED
        BY <2>1, <3>1, <3>2 DEF UnsavedBounded, TypeOK
    <2>4. AccountedFor' /\ ExactWithoutCrash'
      BY <2>1 DEF AccountedFor, ExactWithoutCrash, RecoveredUnmarked, TypeOK
    <2>5. NothingAwaited' /\ RecoveredUnmarked' /\ OverrunBounded'
      BY <2>1 DEF NothingAwaited, RecoveredUnmarked, OverrunBounded
    <2>6. QED
      BY <2>2, <2>3, <2>4, <2>5
  <1>2. CASE Finalize
    <2> USE <1>2 DEF Finalize
    <2>1. /\ pc = "recovered" /\ pc' = "idle"
          /\ file' = file
      BY DEF TypeOK, RecoveredUnmarked
    <2>2. QED
      BY <2>1 DEF TypeOK, NothingAwaited, RecoveredUnmarked, UnsavedBounded, AccountedFor,
                  ExactWithoutCrash, OverrunBounded
  <1>3. QED
    BY <1>1, <1>2

\* The end of a run saves everything; a crash loses at most one call's attempts more
\* than the charge to come.
LEMMA EndKeepsIInv == IInv /\ (Close \/ Crash) => IInv'
  <1> SUFFICES ASSUME IInv, Close \/ Crash PROVE IInv'
    OBVIOUS
  <1> USE DEF IInv
  <1>1. /\ pc' = "idle" /\ left' = 0
        /\ pc' \notin Running /\ pc' \notin Calling /\ pc' # "recovered"
    BY DEF Close, Crash, Running, Quiet, Calling
  <1>2. NothingAwaited' /\ RecoveredUnmarked' /\ UnsavedBounded'
    BY <1>1 DEF NothingAwaited, RecoveredUnmarked, UnsavedBounded
  <1>3. CASE Close
    <2>1. pc \in Running
      BY <1>3 DEF Close, Running, Quiet
    <2>2. TypeOK'
      BY <1>3 DEF Close, TypeOK
    <2>3. AccountedFor' /\ ExactWithoutCrash' /\ OverrunBounded'
      BY <1>1, <1>3, <2>1 DEF Close, AccountedFor, ExactWithoutCrash, OverrunBounded
    <2>4. QED
      BY <1>2, <2>2, <2>3
  <1>4. CASE Crash
    <2> USE <1>4 DEF Crash
    <2>1. TypeOK'
      BY DEF TypeOK
    <2>2. /\ AttemptsPerCall * (crashes + 1) = AttemptsPerCall * crashes + AttemptsPerCall
          /\ AttemptsPerCall * crashes \in Nat
          /\ AttemptsPerCall \in Nat
      BY TimesPlus, TimesNat, LedgerAssumption DEF TypeOK
    <2>3. AccountedFor'
      <3>1. Charge' = Charge
        BY DEF Charge
      <3>2. CASE pc \in Running
        <4>1. /\ file.active
              /\ total <= base + used + AttemptsPerCall * crashes
          BY <3>2 DEF UnsavedBounded, AccountedFor
        <4>2. base + used <= Charge + AttemptsPerCall
          BY <3>2, CrashLosesOneCall
        <4>3. Charge \in Nat
          <5>1. Larger(PagesPerStratum, Concurrency) \in Nat
            BY LedgerAssumption DEF Larger
          <5>2. QED
            BY <5>1, TimesNat, LedgerAssumption DEF Charge, TypeOK
        <4>4. total <= Charge + AttemptsPerCall * (crashes + 1)
          BY <2>2, <4>1, <4>2, <4>3 DEF TypeOK
        <4>5. QED
          BY <1>1, <3>1, <4>1, <4>4 DEF AccountedFor
      <3>3. CASE pc \notin Running
        <4>1. ~file.active /\ total <= file.attempted + AttemptsPerCall * crashes
          BY <3>3 DEF AccountedFor, RecoveredUnmarked
        <4>2. total <= file.attempted + AttemptsPerCall * (crashes + 1)
          BY <2>2, <4>1 DEF TypeOK
        <4>3. QED
          BY <1>1, <4>1, <4>2 DEF AccountedFor
      <3>4. QED
        BY <3>2, <3>3
    <2>4. ExactWithoutCrash'
      BY DEF ExactWithoutCrash, TypeOK
    <2>5. OverrunBounded'
      <3>1. ceiling \in Nat
        BY LedgerAssumption DEF TypeOK
      <3>2. total <= ceiling + AttemptsPerCall * (crashes + 1)
        BY <2>2, <3>1 DEF OverrunBounded, TypeOK
      <3>3. QED
        BY <3>2 DEF OverrunBounded
    <2>6. QED
      BY <1>2, <2>1, <2>3, <2>4, <2>5
  <1>5. QED
    BY <1>3, <1>4

-----------------------------------------------------------------------------
\* What each control point allows, evaluated.
LEMMA UnsavedCallsAt ==
    /\ UnsavedCalls("pending") = 0 /\ UnsavedCalls("examine") = 0
    /\ \A q \in {"resume", "sample", "resolving", "history", "page"} : UnsavedCalls(q) = 1
    /\ UnsavedCalls("listing") = 2
    /\ UnsavedCalls("fetching") = PagesPerStratum + 1
    /\ UnsavedCalls("chunking") = Concurrency + 1
    /\ UnsavedCalls("downloading") = Concurrency
    /\ UnsavedCalls("closing") = Larger(PagesPerStratum, Concurrency) + 1
    /\ CallsAt("downloading") = Concurrency /\ CallsAt("chunking") = Concurrency
    /\ CallsAt("fetching") = PagesPerStratum
    /\ CallsAt("resolving") = 1 /\ CallsAt("listing") = 1
  BY DEF UnsavedCalls, CallsAt

\* From anywhere in a run, control may give up without a save.
LEMMA GiveUpKeepsIInv ==
    ASSUME IInv, pc \in Running, Goto("closing")
    PROVE  IInv'
  <1>1. UnsavedCalls(pc) <= UnsavedCalls("closing")
    BY UnsavedCallsAt, UnsavedCallsBounded
  <1>2. QED
    BY <1>1, GotoKeepsIInv DEF Quiet

\* Between the places that follow an unsaved call, and to them, control moves freely.
LEMMA StepAsideKeepsIInv ==
    ASSUME IInv, NEW to \in {"resume", "sample", "history", "page"},
           pc \in {"pending", "examine", "resume", "sample", "resolving", "history", "page"},
           Goto(to)
    PROVE  IInv'
  <1>1. UnsavedCalls(pc) <= UnsavedCalls(to)
    BY UnsavedCallsAt
  <1>2. QED
    BY <1>1, GotoKeepsIInv DEF Running, Quiet, Calling

\* A candidate with an identifier is saved as a player, or control goes on without a save.
LEMMA CandidateKeepsIInv ==
    ASSUME IInv, pc \in {"examine", "resolving"}, Candidate
    PROVE  IInv'
  BY StepAsideKeepsIInv, SaveKeepsIInv DEF Candidate, Running, Quiet, Calling
\* One step per handler of the collector.
LEMMA CollectorKeepsIInv ==
    ASSUME IInv,
           \/ Pending \/ Downloaded \/ Resume \/ Sample \/ Fetched
           \/ Examine \/ Resolved \/ History \/ Listed \/ Page \/ Chunked
    PROVE  IInv'
  <1> USE DEF Running, Quiet, Calling
  <1>1. CASE Pending
    <2>1. CASE Await("downloading")
      BY <1>1, <2>1, UnsavedCallsAt, AwaitKeepsIInv, LedgerAssumption DEF Pending
    <2>2. CASE Goto("resume")
      BY <1>1, <2>2, StepAsideKeepsIInv DEF Pending
    <2>3. QED
      BY <1>1, <2>1, <2>2 DEF Pending
  <1>2. CASE Downloaded
    BY <1>2, SaveKeepsIInv, GiveUpKeepsIInv DEF Downloaded
  <1>3. CASE Resume
    BY <1>3, StepAsideKeepsIInv DEF Resume
  <1>4. CASE Sample
    <2>1. CASE Await("fetching")
      BY <1>4, <2>1, UnsavedCallsAt, AwaitKeepsIInv, LedgerAssumption DEF Sample
    <2>2. CASE ~Await("fetching")
      BY <1>4, <2>2, SaveKeepsIInv, GiveUpKeepsIInv DEF Sample
    <2>3. QED
      BY <2>1, <2>2
  <1>5. CASE Fetched
    BY <1>5, SaveKeepsIInv, GiveUpKeepsIInv DEF Fetched
  <1>6. CASE Examine
    <2>1. CASE Await("resolving")
      BY <1>6, <2>1, UnsavedCallsAt, AwaitKeepsIInv DEF Examine
    <2>2. CASE Candidate
      BY <1>6, <2>2, CandidateKeepsIInv DEF Examine
    <2>3. CASE Goto("sample")
      BY <1>6, <2>3, StepAsideKeepsIInv DEF Examine
    <2>4. QED
      BY <1>6, <2>1, <2>2, <2>3 DEF Examine
  <1>7. CASE Resolved
    BY <1>7, CandidateKeepsIInv, StepAsideKeepsIInv, GiveUpKeepsIInv DEF Resolved
  <1>8. CASE History
    <2>1. CASE Await("listing")
      BY <1>8, <2>1, UnsavedCallsAt, AwaitKeepsIInv DEF History
    <2>2. CASE ~Await("listing")
      BY <1>8, <2>2, StepAsideKeepsIInv, SaveKeepsIInv DEF History
    <2>3. QED
      BY <2>1, <2>2
  <1>9. CASE Listed
    BY <1>9, SaveKeepsIInv, GiveUpKeepsIInv DEF Listed
  <1>10. CASE Page
    <2>1. CASE Await("chunking")
      BY <1>10, <2>1, UnsavedCallsAt, AwaitKeepsIInv, LedgerAssumption DEF Page
    <2>2. CASE ~Await("chunking")
      BY <1>10, <2>2, SaveKeepsIInv DEF Page
    <2>3. QED
      BY <2>1, <2>2
  <1>11. CASE Chunked
    BY <1>11, SaveKeepsIInv, GiveUpKeepsIInv DEF Chunked
  <1>12. QED
    BY <1>1, <1>2, <1>3, <1>4, <1>5, <1>6, <1>7, <1>8, <1>9, <1>10, <1>11

\* Every step of the ledger keeps the invariant.
LEMMA NextIInv == IInv /\ [Next]_vars => IInv'
  <1> SUFFICES ASSUME IInv, [Next]_vars PROVE IInv'
    OBVIOUS
  <1>1. CASE Recover
    BY <1>1, RecoverKeepsIInv
  <1>2. CASE Begin \/ Finalize
    BY <1>2, BeginKeepsIInv
  <1>3. CASE Attempt
    BY <1>3, AttemptKeepsIInv
  <1>4. CASE \/ Pending \/ Downloaded \/ Resume \/ Sample \/ Fetched
             \/ Examine \/ Resolved \/ History \/ Listed \/ Page \/ Chunked
    BY <1>4, CollectorKeepsIInv
  <1>5. CASE Close \/ Crash
    BY <1>5, EndKeepsIInv
  <1>6. CASE UNCHANGED vars
    BY <1>6 DEF vars, IInv, TypeOK, NothingAwaited, RecoveredUnmarked, UnsavedBounded,
                UnsavedCalls, AccountedFor, Charge, ExactWithoutCrash, OverrunBounded
  <1>7. QED
    BY <1>1, <1>2, <1>3, <1>4, <1>5, <1>6 DEF Next

-----------------------------------------------------------------------------
(* The theorems.                                                           *)

\* Type correctness of the ledger: in particular no call ever makes more attempts than
\* it may.
THEOREM TypeCorrect == Spec => []TypeOK
  <1>1. IInv => TypeOK
    BY DEF IInv
  <1>2. QED
    BY <1>1, InitIInv, NextIInv, PTL DEF Spec

\* Every place where the collector can die has made at most the calls that UnsavedCalls
\* names since the last save.
THEOREM UnsavedSafe == Spec => []UnsavedBounded
  <1>1. IInv => UnsavedBounded
    BY DEF IInv
  <1>2. QED
    BY <1>1, InitIInv, NextIInv, PTL DEF Spec

\* The cumulative ceiling: however often a run is resumed, it never makes more than
\* max_requests attempts and, for each crash, one call's attempts more.
THEOREM OverrunSafe == Spec => []OverrunBounded
  <1>1. IInv => OverrunBounded
    BY DEF IInv
  <1>2. QED
    BY <1>1, InitIInv, NextIInv, PTL DEF Spec

\* A run that never crashed has recorded exactly what it spent.
THEOREM CleanEndsSafe == Spec => []CleanEndsExact
  <1>1. IInv => CleanEndsExact
    BY DEF IInv, ExactWithoutCrash, CleanEndsExact, Running, Quiet, Calling
  <1>2. QED
    BY <1>1, InitIInv, NextIInv, PTL DEF Spec

\* The recorded attempts of a run never decrease, whatever is saved, charged or resumed.
THEOREM LedgerMonotone == Spec => LedgerNeverDecreases
  <1>1. ASSUME IInv, [Next]_vars
        PROVE  [file'.attempted >= file.attempted]_vars
    <2>1. file.attempted \in Nat /\ base \in Nat /\ used \in Nat
      BY <1>1 DEF IInv, TypeOK
    <2>2. CASE Recover
      <3>1. AttemptsPerCall * Larger(PagesPerStratum, Concurrency) \in Nat
        BY TimesNat, LedgerAssumption DEF Larger
      <3>2. QED
        BY <2>1, <2>2, <3>1 DEF Recover, Charge
    <2>3. CASE Begin \/ Finalize
      BY <1>1, <2>1, <2>3 DEF Begin, Finalize, IInv, TypeOK
    <2>4. CASE Attempt \/ Crash \/ UNCHANGED vars
      BY <2>1, <2>4 DEF Attempt, Crash, vars
    <2>5. ASSUME pc \in Running,
                 \/ file' = file
                 \/ file'.attempted = base + used
          PROVE  file'.attempted >= file.attempted
      BY <1>1, <2>1, <2>5 DEF IInv, UnsavedBounded
    <2>6. CASE Close
      BY <2>5, <2>6 DEF Close, Running, Quiet
    <2>7. ASSUME NEW to, NEW has, SaveAnd(to, has)
          PROVE  file'.attempted = base + used
      BY <1>1, <2>7 DEF SaveAnd, IInv, TypeOK
    <2>8. ASSUME NEW to, Goto(to) \/ Await(to) PROVE file' = file
      BY <2>8 DEF Goto, Await
    <2>9. CASE \/ Pending \/ Downloaded \/ Resume \/ Sample \/ Fetched
      BY <2>5, <2>7, <2>8, <2>9
         DEF Pending, Downloaded, Resume, Sample, Fetched, Running, Quiet, Calling
    <2>10. CASE \/ Examine \/ Resolved \/ History \/ Listed \/ Page \/ Chunked
      BY <2>5, <2>7, <2>8, <2>10
         DEF Examine, Resolved, Candidate, History, Listed, Page, Chunked, Running, Quiet,
             Calling
    <2>11. QED
      BY <1>1, <2>2, <2>3, <2>4, <2>6, <2>9, <2>10 DEF Next
  <1>2. QED
    BY <1>1, InitIInv, NextIInv, PTL DEF Spec, LedgerNeverDecreases
=============================================================================
