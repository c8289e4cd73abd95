---------------------- MODULE TimelineCollectionProofs ----------------------
(***************************************************************************)
(* Proofs about TimelineCollection, for any matches, payload versions,     *)
(* ceilings, concurrency and number of invocations and crashes.            *)
(***************************************************************************)
EXTENDS TimelineCollection, FiniteSetTheorems, TLAPS

\* No two tasks are between two writes that belong together.
OneUndivided ==
    \A m, n \in Matches :
        task[m] \in {"sending", "storing"} /\ task[n] \in {"sending", "storing"} => m = n

\* A task that is about to send has been charged for it, out of a budget.
ChargedAhead == /\ sent <= charged
                /\ \A m \in Matches : task[m] = "sending" => sent < charged /\ grant > 0

\* The client's budget is what the ceiling has left.
GrantFits == /\ used <= grant
             /\ grant > 0 => charged + grant <= ceiling + used

\* A call that goes on has attempts left.
AttemptsLeft ==
    \A m \in Matches : task[m] \in {"waiting", "calling"} => spent[m] < AttemptsPerCall

\* A task about to record its download has written the file.
HeldIsWritten ==
    \A m \in Matches : task[m] = "storing" => held[m] \in Versions /\ <<m, held[m]>> \in files

\* Only matches without a terminal row have a live task.
LiveIsMissing == \A m \in Matches : task[m] \in Live => ~Terminal(rows[m])

\* Every row and every task is of a selected match.
OnlySelected == \A m \in Matches :
    rows[m].status # "none" \/ task[m] # "none" => m \in selected

\* While collecting, a selected match without a task, or whose task is done, has a
\* terminal row; when no process runs there is no task.
DoneIsTerminal ==
    /\ main = "collecting" =>
           \A m \in selected : task[m] \in {"none", "done"} => Terminal(rows[m])
    /\ main = "idle" => \A m \in Matches : task[m] = "none"

ReturnedIsTerminal ==
    main = "idle" /\ result = "returned" => \A m \in selected : Terminal(rows[m])

IInv == /\ TypeOK
        /\ OneUndivided
        /\ ChargedAhead
        /\ GrantFits
        /\ AttemptsLeft
        /\ HeldIsWritten
        /\ LiveIsMissing
        /\ OnlySelected
        /\ DoneIsTerminal
        /\ ReturnedIsTerminal
        /\ DownloadsReadable

-----------------------------------------------------------------------------
(* Arithmetic and cardinalities.                                           *)

\* A positive grant is what the charges leave of the ceiling.
LEMMA GrantIsRemainder ==
    ASSUME charged \in Nat, NEW limit \in Nat
    PROVE  /\ Grant(limit) \in Nat
           /\ Grant(limit) > 0 => charged + Grant(limit) = limit
  <1>1. CASE limit >= charged
    BY <1>1 DEF Grant
  <1>2. CASE ~(limit >= charged)
    BY <1>2 DEF Grant
  <1>3. QED
    BY <1>1, <1>2

\* The sizes of disjoint sets add up.
LEMMA DisjointUnion ==
    ASSUME NEW S, NEW T, IsFiniteSet(S), IsFiniteSet(T), S \cap T = {}
    PROVE  Cardinality(S \cup T) = Cardinality(S) + Cardinality(T)
  <1>1. Cardinality(S) \in Nat /\ Cardinality(T) \in Nat
    BY FS_CardinalityType
  <1>2. Cardinality(S \cup T) = Cardinality(S) + Cardinality(T) - Cardinality(S \cap T)
    BY FS_Union
  <1>3. Cardinality(S \cap T) = 0
    BY FS_EmptySet
  <1>4. QED
    BY <1>1, <1>2, <1>3

-----------------------------------------------------------------------------
(* The initial state, and the steps of one task.                           *)

\* There is no task and no charge before the first invocation.
LEMMA InitIInv == Init => IInv
  BY TimelineAssumption
     DEF Init, IInv, TypeOK, OneUndivided, ChargedAhead, GrantFits, AttemptsLeft, HeldIsWritten,
         LiveIsMissing, OnlySelected, DoneIsTerminal, ReturnedIsTerminal, DownloadsReadable,
         NoRow, Live, Terminal

\* A task moves and its row stays: the place it goes to asks for no more than it has.
LEMMA EnterKeepsIInv ==
    ASSUME IInv, NEW m \in Matches, Enter(m) \/ Retry(m)
    PROVE  IInv'
  <1> USE DEF IInv, Enter, Retry, Goto
  <1>1. TypeOK' /\ OneUndivided' /\ ChargedAhead' /\ GrantFits'
    BY DEF TypeOK, Undivided, OneUndivided, ChargedAhead, GrantFits, Live, stores, ledger, config
  <1>2. AttemptsLeft' /\ HeldIsWritten'
    BY DEF TypeOK, AttemptsLeft, HeldIsWritten, stores
  <1>3. LiveIsMissing' /\ OnlySelected'
    BY DEF TypeOK, LiveIsMissing, OnlySelected, Live, Terminal, stores, config
  <1>4. DoneIsTerminal' /\ ReturnedIsTerminal' /\ DownloadsReadable'
    BY DEF TypeOK, DoneIsTerminal, ReturnedIsTerminal, DownloadsReadable, Readable, Terminal,
           stores, config
  <1>5. QED
    BY <1>1, <1>2, <1>3, <1>4

\* The budget of the client is spent as the ceiling is charged.
LEMMA ChargeKeepsIInv ==
    ASSUME IInv, NEW m \in Matches, Charge(m) \/ Send(m)
    PROVE  IInv'
  <1> USE DEF IInv, Charge, Send, Goto
  <1>1. TypeOK'
    <2>1. spent' \in [Matches -> 0 .. AttemptsPerCall]
      <3>1. \/ spent[m] \in Nat /\ spent[m] < AttemptsPerCall
            \/ spent' = spent
        BY DEF TypeOK, AttemptsLeft
      <3>2. QED
        BY <3>1, TimelineAssumption DEF TypeOK
    <2>2. task' \in [Matches -> Live \cup Ended \cup {"none"}]
      BY DEF TypeOK, Live
    <2>3. {charged', sent', grant', used', invocations'} \subseteq Nat
      BY DEF TypeOK, config
    <2>4. QED
      BY <2>1, <2>2, <2>3 DEF TypeOK, stores, config
  <1>2. OneUndivided' /\ ChargedAhead'
    BY DEF TypeOK, Undivided, OneUndivided, ChargedAhead, GrantFits
  <1>3. GrantFits' /\ AttemptsLeft' /\ HeldIsWritten'
    BY TimelineAssumption DEF TypeOK, GrantFits, AttemptsLeft, HeldIsWritten, stores, config
  <1>4. LiveIsMissing' /\ OnlySelected'
    BY DEF TypeOK, LiveIsMissing, OnlySelected, Live, Terminal, stores, config
  <1>5. DoneIsTerminal' /\ ReturnedIsTerminal' /\ DownloadsReadable'
    BY DEF TypeOK, DoneIsTerminal, ReturnedIsTerminal, DownloadsReadable, Readable, Terminal,
           stores, config
  <1>6. QED
    BY <1>1, <1>2, <1>3, <1>4, <1>5

\* A file is added and none is taken away: what was readable stays so.
LEMMA StoreFileKeepsIInv ==
    ASSUME IInv, NEW m \in Matches, StoreFile(m)
    PROVE  IInv'
  <1> USE DEF IInv, StoreFile, Goto
  <1>1. PICK v \in Versions : /\ files' = files \cup {<<m, v>>}
                              /\ held' = [held EXCEPT ![m] = v]
    OBVIOUS
  <1>2. TypeOK'
    BY <1>1 DEF TypeOK, Live, ledger, config
  <1>3. OneUndivided' /\ ChargedAhead' /\ GrantFits'
    BY DEF TypeOK, Undivided, OneUndivided, ChargedAhead, GrantFits, ledger, config
  <1>4. AttemptsLeft' /\ HeldIsWritten'
    BY <1>1 DEF TypeOK, AttemptsLeft, HeldIsWritten
  <1>5. LiveIsMissing' /\ OnlySelected'
    BY DEF TypeOK, LiveIsMissing, OnlySelected, Live, Terminal, config
  <1>6. DoneIsTerminal' /\ ReturnedIsTerminal' /\ DownloadsReadable'
    BY <1>1 DEF TypeOK, DoneIsTerminal, ReturnedIsTerminal, DownloadsReadable, Readable,
                Terminal, config
  <1>7. QED
    BY <1>2, <1>3, <1>4, <1>5, <1>6

\* A task ends with a terminal row: a download names the file the task has written.
LEMMA DoneKeepsIInv ==
    ASSUME IInv, NEW m \in Matches, RecordDownload(m) \/ NotFound(m)
    PROVE  IInv'
  <1> USE DEF IInv, RecordDownload, NotFound, End, Goto
  <1>1. \/ /\ rows' = [rows EXCEPT ![m] = [status |-> "downloaded", version |-> held[m]]]
           /\ <<m, held[m]>> \in files
           /\ held[m] \in Versions
        \/ rows' = [rows EXCEPT ![m] = [status |-> "unavailable", version |-> Absent]]
    BY DEF HeldIsWritten
  <1>2. rows' \in [Matches -> [status : Statuses \cup {"none"},
                               version : Versions \cup {Absent}]]
    BY <1>1 DEF TypeOK, Statuses
  <1>3. TypeOK'
    <2>1. /\ task' \in [Matches -> Live \cup Ended \cup {"none"}]
          /\ spent' \in [Matches -> 0 .. AttemptsPerCall]
          /\ held' \in [Matches -> Versions \cup {Absent}]
      BY TimelineAssumption DEF TypeOK, Ended
    <2>2. QED
      BY <1>2, <2>1 DEF TypeOK, ledger, config
  <1>4. OneUndivided' /\ ChargedAhead' /\ GrantFits'
    BY DEF TypeOK, OneUndivided, ChargedAhead, GrantFits, ledger, config
  <1>5. AttemptsLeft' /\ HeldIsWritten'
    BY DEF TypeOK, AttemptsLeft, HeldIsWritten
  <1>6. LiveIsMissing' /\ OnlySelected'
    BY <1>1 DEF TypeOK, LiveIsMissing, OnlySelected, Live, Terminal, config
  <1>7. DoneIsTerminal' /\ ReturnedIsTerminal'
    BY <1>1 DEF TypeOK, DoneIsTerminal, ReturnedIsTerminal, Terminal, config
  <1>8. DownloadsReadable'
    BY <1>1 DEF TypeOK, DownloadsReadable, Readable
  <1>9. QED
    BY <1>3, <1>4, <1>5, <1>6, <1>7, <1>8

\* A task ends with an exception; the row it may leave behind is not terminal.
LEMMA FailKeepsIInv ==
    ASSUME IInv, NEW m \in Matches, Fails(m) \/ Refused(m)
    PROVE  IInv'
  <1> USE DEF IInv, Fails, Refused, EndFailed, End, Goto
  <1>1. rows' \in [Matches -> [status : Statuses \cup {"none"},
                               version : Versions \cup {Absent}]]
    BY DEF TypeOK, Statuses
  <1>2. TypeOK'
    BY <1>1, TimelineAssumption DEF TypeOK, Ended, ledger, config
  <1>3. OneUndivided' /\ ChargedAhead' /\ GrantFits'
    <2>1. /\ used' \in {used, used + 1} /\ used' <= grant
          /\ UNCHANGED <<charged, sent, grant, ceiling>>
      BY DEF TypeOK, GrantFits, ledger, config
    <2>2. GrantFits'
      <3>1. /\ charged \in Nat /\ grant \in Nat /\ used \in Nat /\ ceiling \in Nat
        BY TimelineAssumption DEF TypeOK
      <3>2. QED
        BY <2>1, <3>1 DEF GrantFits
    <2>3. QED
      BY <2>1, <2>2 DEF TypeOK, OneUndivided, ChargedAhead
  <1>4. AttemptsLeft' /\ HeldIsWritten'
    BY DEF TypeOK, AttemptsLeft, HeldIsWritten
  <1>5. /\ ~Terminal(rows[m])
        /\ task[m] # "none"
    BY DEF LiveIsMissing, Live
  <1>6. LiveIsMissing' /\ OnlySelected'
    BY <1>5 DEF TypeOK, LiveIsMissing, OnlySelected, Live, Terminal, config
  <1>7. DoneIsTerminal' /\ ReturnedIsTerminal'
    <2>1. main' = main /\ main # "idle" /\ selected' = selected
      BY <1>5 DEF DoneIsTerminal, config
    <2>2. \A n \in Matches : n # m => rows'[n] = rows[n] /\ task'[n] = task[n]
      BY DEF TypeOK
    <2>3. task'[m] = "failed"
      BY DEF TypeOK
    <2>4. QED
      BY <2>1, <2>2, <2>3 DEF TypeOK, DoneIsTerminal, ReturnedIsTerminal
  <1>8. DownloadsReadable'
    <2>1. \A n \in Matches : \/ rows'[n] = rows[n]
                             \/ rows'[n].status = "failed"
      BY DEF TypeOK
    <2>2. QED
      BY <2>1 DEF DownloadsReadable, Readable
  <1>9. QED
    BY <1>2, <1>3, <1>4, <1>6, <1>7, <1>8

-----------------------------------------------------------------------------
(* The steps of the collecting coroutine.                                  *)

\* A new invocation grants what the ceiling has left and starts only missing matches.
LEMMA StartKeepsIInv == IInv /\ Start => IInv'
  <1> SUFFICES ASSUME IInv, Start PROVE IInv'
    OBVIOUS
  <1> USE DEF IInv, Start
  <1>1. /\ grant' \in Nat
        /\ grant' > 0 => charged + grant' = ceiling'
    <2>1. charged \in Nat /\ ceiling' \in Nat
      BY TimelineAssumption DEF TypeOK
    <2>2. QED
      BY <2>1, GrantIsRemainder
  <1>2. \A m \in Matches : /\ task'[m] = "waiting" => m \in selected' /\ ~Terminal(rows[m])
                           /\ task'[m] # "waiting" => /\ task'[m] = "none"
                                                      /\ m \in selected' => Terminal(rows[m])
    BY DEF Pending
  <1>3. TypeOK'
    BY <1>1, TimelineAssumption DEF TypeOK, Live, stores, ledger
  <1>4. OneUndivided' /\ ChargedAhead' /\ HeldIsWritten'
    BY <1>2 DEF OneUndivided, ChargedAhead, HeldIsWritten, ledger
  <1>5. GrantFits' /\ AttemptsLeft'
    BY <1>1, TimelineAssumption DEF TypeOK, GrantFits, AttemptsLeft, ledger
  <1>6. LiveIsMissing' /\ OnlySelected'
    BY <1>2 DEF LiveIsMissing, OnlySelected, DoneIsTerminal, Live, stores
  <1>7. DoneIsTerminal' /\ ReturnedIsTerminal' /\ DownloadsReadable'
    <2>1. /\ main' = "collecting" /\ selected' \subseteq Matches
          /\ rows' = rows /\ files' = files
      BY <1>3 DEF TypeOK, stores
    <2>2. DoneIsTerminal'
      BY <1>2, <2>1 DEF DoneIsTerminal
    <2>3. QED
      BY <2>1, <2>2 DEF ReturnedIsTerminal, DownloadsReadable, Readable
  <1>8. QED
    BY <1>3, <1>4, <1>5, <1>6, <1>7

\* The coroutine is cancelled or fails: nothing is promised of the selected matches.
LEMMA FailureKeepsIInv == IInv /\ (NoticeFailure \/ Interrupt) => IInv'
  <1> SUFFICES ASSUME IInv, NoticeFailure \/ Interrupt PROVE IInv'
    OBVIOUS
  <1> USE DEF IInv, NoticeFailure, Interrupt
  <1>1. \A m \in Matches : /\ task'[m] \in {task[m], "cancelled"}
                           /\ task'[m] # task[m] => task[m] \in Live
    BY DEF TypeOK, tasks
  <1>2. TypeOK'
    BY <1>1, TimelineAssumption DEF TypeOK, Ended, stores, ledger, config, tasks
  <1>3. OneUndivided' /\ ChargedAhead' /\ GrantFits'
    BY <1>1 DEF OneUndivided, ChargedAhead, GrantFits, ledger, config
  <1>4. AttemptsLeft' /\ HeldIsWritten'
    BY <1>1, TimelineAssumption DEF AttemptsLeft, HeldIsWritten, Undivided, Live, stores, tasks
  <1>5. LiveIsMissing' /\ OnlySelected' /\ DownloadsReadable'
    BY <1>1 DEF LiveIsMissing, OnlySelected, DownloadsReadable, Readable, Live, stores, config
  <1>6. DoneIsTerminal' /\ ReturnedIsTerminal'
    BY DEF DoneIsTerminal, ReturnedIsTerminal
  <1>7. QED
    BY <1>2, <1>3, <1>4, <1>5, <1>6

\* The process ends; a return says that no task has failed.
LEMMA EndKeepsIInv == IInv /\ (Return \/ Leave \/ Crash) => IInv'
  <1> SUFFICES ASSUME IInv, Return \/ Leave \/ Crash PROVE IInv'
    OBVIOUS
  <1> USE DEF IInv, Return, Leave, Crash, Gone
  <1>1. TypeOK'
    BY TimelineAssumption DEF TypeOK, stores, ledger, config
  <1>2. OneUndivided' /\ ChargedAhead' /\ GrantFits' /\ HeldIsWritten'
    BY DEF OneUndivided, ChargedAhead, GrantFits, HeldIsWritten, ledger
  <1>3. AttemptsLeft' /\ LiveIsMissing' /\ OnlySelected'
    BY DEF AttemptsLeft, LiveIsMissing, OnlySelected, Live, stores, config
  <1>4. DoneIsTerminal' /\ ReturnedIsTerminal' /\ DownloadsReadable'
    BY DEF TypeOK, DoneIsTerminal, ReturnedIsTerminal, DownloadsReadable, Readable, stores, config
  <1>5. QED
    BY <1>1, <1>2, <1>3, <1>4

\* The invariant reads the variables of the module only.
LEMMA StutterKeepsIInv == IInv /\ UNCHANGED vars => IInv'
  BY DEF vars, stores, ledger, config, tasks, IInv, TypeOK, OneUndivided, ChargedAhead, GrantFits,
         AttemptsLeft, HeldIsWritten, LiveIsMissing, OnlySelected, DoneIsTerminal,
         ReturnedIsTerminal, DownloadsReadable, Readable, Terminal

\* Every step of a task, of the collection and of its process keeps the invariant.
LEMMA StepKeepsIInv == IInv /\ [Next]_vars => IInv'
  <1> SUFFICES ASSUME IInv, Next PROVE IInv'
    BY StutterKeepsIInv
  <1>1. CASE \E m \in Matches : Fetch(m)
    BY <1>1, EnterKeepsIInv, ChargeKeepsIInv, StoreFileKeepsIInv, DoneKeepsIInv, FailKeepsIInv
       DEF Fetch
  <1>2. CASE Start \/ NoticeFailure \/ Interrupt
    BY <1>2, StartKeepsIInv, FailureKeepsIInv
  <1>3. CASE Return \/ Leave \/ Crash
    BY <1>3, EndKeepsIInv
  <1>4. QED
    BY <1>1, <1>2, <1>3 DEF Next, Run

\* The inductive invariant of the timeline collection.
LEMMA Inductive == Spec => []IInv
  <1>1. QED
    BY InitIInv, StepKeepsIInv, PTL DEF Spec

-----------------------------------------------------------------------------
\* The files, rows, counts and tasks are always of the types the code gives them.
THEOREM TypeCorrect == Spec => []TypeOK
  BY Inductive, PTL DEF IInv

\* Whatever crashes between a file and its row, the offline verification finds the
\* payload of every downloaded row.
THEOREM DownloadsSafe == Spec => []DownloadsReadable
  BY Inductive, PTL DEF IInv

\* The catalog has charged every request that was ever sent.
THEOREM ChargedSafe == Spec => []SentIsCharged
  <1>1. IInv => SentIsCharged
    BY DEF IInv, ChargedAhead, SentIsCharged
  <1>2. QED
    BY <1>1, Inductive, PTL

\* A summary that is returned counts a terminal row for every selected match.
THEOREM ReturnSafe == Spec => []ReturnIsComplete
  <1>1. ASSUME IInv PROVE ReturnIsComplete
    <2> SUFFICES ASSUME main = "idle", result = "returned" PROVE TargetComplete
      BY <1>1 DEF ReturnIsComplete, IInv, ReturnedIsTerminal
    <2> DEFINE Of(status) == {m \in Matches : rows[m].status = status}
    <2>1. \A m \in selected : Terminal(rows[m])
      BY <1>1 DEF IInv, ReturnedIsTerminal
    <2>2. Of("downloaded") \cup Of("unavailable") = selected
      BY <1>1, <2>1 DEF IInv, TypeOK, OnlySelected, Terminal
    <2>3. Of("downloaded") \cap Of("unavailable") = {}
      OBVIOUS
    <2>4. /\ IsFiniteSet(Of("downloaded")) /\ IsFiniteSet(Of("unavailable"))
      BY TimelineAssumption, FS_Subset
    <2>5. Cardinality(selected) = Cardinality(Of("downloaded")) + Cardinality(Of("unavailable"))
      BY <2>2, <2>3, <2>4, DisjointUnion
    <2>6. QED
      BY <2>5 DEF TargetComplete, CountOf
  <1>2. QED
    BY <1>1, Inductive, PTL

\* No request goes out beyond the ceiling, over all invocations and crashes.
THEOREM CeilingSafe == Spec => CeilingHolds
  <1>1. ASSUME IInv, [Next]_vars PROVE [sent' > sent => sent < ceiling]_vars
    <2> SUFFICES ASSUME Next, sent' > sent PROVE sent < ceiling
      BY <1>1
    <2>1. sent \in Nat /\ charged \in Nat /\ grant \in Nat /\ used \in Nat /\ ceiling \in Nat
      BY <1>1, TimelineAssumption DEF IInv, TypeOK
    <2>2. PICK m \in Matches : Send(m)
      BY <2>1 DEF Next, Run, Fetch, Start, Enter, Charge, Retry, StoreFile, RecordDownload,
                  NotFound, Fails, Refused, NoticeFailure, Return, Interrupt, Leave, Crash,
                  Gone, ledger
    <2>3. sent < charged /\ grant > 0
      BY <1>1, <2>2 DEF IInv, ChargedAhead, Send
    <2>4. charged + grant <= ceiling + used /\ used <= grant
      BY <1>1, <2>3 DEF IInv, GrantFits
    <2>5. QED
      BY <2>1, <2>3, <2>4
  <1>2. QED
    BY <1>1, Inductive, PTL DEF Spec, CeilingHolds

\* A terminal row is final and its match is never fetched again.
THEOREM TerminalSafe == Spec => TerminalIsFinal
  <1>1. ASSUME IInv, [Next]_vars PROVE
            [\A m \in Matches : Terminal(rows[m]) => /\ rows'[m] = rows[m]
                                                     /\ task'[m] \notin {"calling", "sending"}]_vars
    <2> SUFFICES ASSUME Next, NEW m \in Matches, Terminal(rows[m])
                 PROVE  rows'[m] = rows[m] /\ task'[m] \notin {"calling", "sending"}
      BY <1>1
    <2>1. task[m] \notin Live
      BY <1>1 DEF IInv, LiveIsMissing
    <2>2. CASE \E n \in Matches : Fetch(n)
      <3>1. PICK n \in Matches : Fetch(n)
        BY <2>2
      <3>2. n # m
        BY <2>1, <3>1 DEF Fetch, Enter, Charge, Send, Retry, StoreFile, RecordDownload,
                          NotFound, Fails, Refused, Live
      <3>3. task'[m] = task[m]
        BY <1>1, <3>1, <3>2 DEF IInv, TypeOK, Fetch, Enter, Charge, Send, Retry, StoreFile,
                                RecordDownload, NotFound, Fails, Refused, EndFailed, End, Goto
      <3>4. rows'[m] = rows[m]
        BY <1>1, <3>1, <3>2 DEF IInv, TypeOK, Fetch, Enter, Charge, Send, Retry, StoreFile,
                                RecordDownload, NotFound, Fails, Refused, EndFailed, stores
      <3>5. QED
        BY <2>1, <3>3, <3>4 DEF Live
    <2>3. CASE Start \/ NoticeFailure \/ Interrupt
      BY <2>1, <2>3 DEF Start, NoticeFailure, Interrupt, stores, tasks, Pending, Live
    <2>4. CASE Return \/ Leave \/ Crash
      BY <2>4 DEF Return, Leave, Crash, Gone, stores
    <2>5. QED
      BY <2>2, <2>3, <2>4 DEF Next, Run
  <1>2. QED
    BY <1>1, Inductive, PTL DEF Spec, TerminalIsFinal
=============================================================================
