------------------------ MODULE PlatformRepairProofs ------------------------
(***************************************************************************)
(* Proofs about PlatformRepair, for any matches, processors and backup     *)
(* directories and any number of repairs, collections and invocations.     *)
(***************************************************************************)
EXTENDS PlatformRepair, TLAPS, FiniteSetTheorems

Copying == {"mkdir", "copy_checkpoint", "copy_manifest", "copy_catalog", "copy_files"}
Writing == {"removing", "checkpoint", "manifest"}
Restoring == {"restore_checkpoint", "restore_manifest", "restore_catalog", "restore_files"}

Done == {"processed", "legacy"}
Backups == [exists : BOOLEAN, status : States \cup {Absent},
            listed : (SUBSET Matches) \cup {Absent}, rows : AllRows \cup {Absent},
            norm : SUBSET Files(Matches)]

\* The types of the stores and of the repair, with the lock held by one or none.
StoreTypes ==
    /\ listed \in (SUBSET Matches) \cup {Absent} /\ rows \in AllRows
    /\ norm \subseteq Files(Matches) /\ cut \subseteq norm
    /\ status \in States \cup {Absent} /\ active \in BOOLEAN
    /\ holders \in {{}, {"collector"}, {"repair"}}
    /\ pc \in Phases /\ (pc = "idle" <=> holders # {"repair"})
    /\ loaded \in States \cup {Absent}
    /\ conflicts \subseteq Foreign /\ removed \subseteq Files(conflicts)
    /\ directory \in Directories \cup {Absent} /\ (pc # "idle" => directory \in Directories)
    /\ backup \in [Directories -> Backups]
    /\ report \in {"none", "repaired", "failed"}
    /\ beside \in BOOLEAN /\ runs \in 0..MaxRuns

\* The types of the processors.  Each has one match in hand at most.
ProcessorTypes ==
    /\ todo \in [Processors -> SUBSET Matches]
    /\ looked \in [Processors -> SUBSET Matches] /\ claimed \in [Processors -> SUBSET Matches]
    /\ written \in [Processors -> SUBSET Parts]
    /\ \A p \in Processors : \A m, n \in looked[p] \cup claimed[p] : m = n
    /\ \A p \in Processors : looked[p] = {} \/ claimed[p] = {}
    /\ killed \subseteq Processors /\ processing \in 0..MaxProcessing

\* No processor is going to look at the match.
NotInHand(m) == \A p \in Processors : m \notin todo[p] \cup looked[p] \cup claimed[p]
Clean(m) == AcceptedNowhere(m) /\ NotInHand(m)
Recoverable(m) == \E d \in Directories : Whole(backup[d], m)

\* TornIsRecoverable, with what makes it last: nobody works on a match that no store
\* accepts, and a match with a file cut short is in a backup.
Sound ==
    /\ Absent \in {status, listed} => \E m \in Foreign : Recoverable(m)
    /\ \A file \in cut : Recoverable(file[1])
    /\ status # Absent =>
          \A m \in Foreign : AcceptedThroughout(m) \/ Clean(m) \/ Recoverable(m)

\* What the collector has not seen, no store knows.
UnknownIsClean ==
    status # Absent => \A m \in Foreign : status[m] = "unknown" => Clean(m)

Rejected == [m \in Matches |-> IF m \in conflicts THEN "rejected_platform_mismatch"
                                                  ELSE loaded[m]]

\* What the checks of a repair have established, and what its writes have made of it.
Reconciled ==
    /\ pc \in {"idle", "loading"} => conflicts = {}
    /\ pc \notin Writing \cup Restoring => removed = {}
    /\ pc \notin {"idle", "loading"} =>
          /\ loaded \in States /\ listed = AcceptedIn(loaded)
          /\ conflicts = AcceptedIn(loaded) \cap Foreign
          /\ status = loaded \/ (pc \in {"manifest", "restore_checkpoint"} /\ status = Rejected)
          /\ pc = "manifest" => status = Rejected
    /\ pc \in {"files", "restore_files"} \cup Copying => \A m \in conflicts : IsProcessed(m)
    /\ pc \in Copying \cup Writing \cup Restoring =>
          conflicts # {} /\ Files(conflicts) \subseteq norm \cup removed

\* What the backup directory of the repair holds so far.
BackedUp ==
    /\ \A d \in Directories : ~backup[d].exists => backup[d].norm = {}
    /\ pc \in Copying => Saved.norm = {} /\ (pc = "mkdir" \/ Saved.exists)
    /\ pc \in {"copy_manifest", "copy_catalog", "copy_files"} \cup Writing \cup Restoring =>
          Saved.status = loaded
    /\ pc \in {"copy_catalog", "copy_files"} \cup Writing \cup Restoring =>
          Saved.listed = AcceptedIn(loaded)
    /\ pc \in {"copy_files"} \cup Writing \cup Restoring =>
          /\ Saved.rows \in AllRows
          /\ \A m \in conflicts : Saved.rows[m] \in Done
          /\ \A m \in Foreign \ conflicts : Recoverable(m) \/ Saved.rows[m] \notin Done
          /\ \A m \in Foreign : loaded[m] = "unknown" => Saved.rows[m] \notin Done
    /\ pc \in Writing \cup Restoring =>
          /\ Saved.norm \cap cut = {}
          /\ \A m \in conflicts : Recoverable(m)

\* What holds of the stores while no processor has worked beside the repair.
Undisturbed ==
    (~beside /\ pc # "idle") =>
        /\ \A m \in Matches : NotInHand(m)
        /\ pc \in {"files"} \cup Copying \cup Writing =>
              \A m \in MismatchedIn(loaded) : rows[m] = "platform_mismatch"
        /\ pc \in Copying \cup Writing => Files(MismatchedIn(loaded)) \cap norm = {}
        /\ pc \in Writing => removed \cap norm = {}
        /\ pc \in {"checkpoint", "manifest"} =>
              /\ \A m \in conflicts : rows[m] = "platform_mismatch"
              /\ Files(conflicts) \cap norm = {}

\* ReportedRepairHolds, with what makes it last.
Reported ==
    /\ report # "none" => pc = "idle"
    /\ (report = "repaired" /\ ~beside) => status # Absent /\ \A m \in Foreign : Clean(m)

\* The inductive invariant.
IInv == /\ StoreTypes /\ ProcessorTypes /\ Sound /\ UnknownIsClean
        /\ Reconciled /\ BackedUp /\ Undisturbed /\ Reported
-----------------------------------------------------------------------------
\* What a processor's step may do to what others rely on.
Harmless ==
    /\ UNCHANGED <<listed, checkpoint, holders, pc, repair, backup, report, runs>>
    /\ rows' \in AllRows /\ norm' \subseteq Files(Matches) /\ norm \subseteq norm'
    /\ cut' \subseteq cut
    /\ \A m \in Matches : IsProcessed(m) => rows'[m] \in Done
    /\ \A m \in Matches : ~Listed(m) /\ NotInHand(m) =>
          /\ NotInHand(m)' /\ rows'[m] = rows[m]
          /\ \A part \in Parts : <<m, part>> \in norm' => <<m, part>> \in norm
    /\ beside' = (beside \/ holders = {"repair"})

\* Every step of a processor is harmless and keeps its types.
LEMMA ProcessorSteps ==
    ASSUME StoreTypes, ProcessorTypes, ProcessorNext, BesideRepair
    PROVE  ProcessorTypes' /\ Harmless
  <1>0. /\ UNCHANGED <<checkpoint, holders, pc, repair, backup, report, runs>>
        /\ beside' = (beside \/ holders = {"repair"})
    <2>1. ("repair" \in holders) <=> (holders = {"repair"})
      BY DEF StoreTypes
    <2>2. UNCHANGED <<checkpoint, holders, pc, repair, backup, report, runs>>
      BY DEF BesideRepair
    <2>3. QED
      BY <2>1, <2>2, Zenon DEF BesideRepair
  <1> USE DEF Done, IsProcessed, NotInHand, Listed
  <1>1. ASSUME NEW p \in Processors, StartProcessing(p)
        PROVE  ProcessorTypes' /\ Harmless
    BY <1>0, <1>1, ProcessingAssumption
       DEF StartProcessing, ProcessorTypes, StoreTypes, Harmless, Idle, products
  <1>2. ASSUME NEW p \in Processors, SkipProcessed(p)
        PROVE  ProcessorTypes' /\ Harmless
    BY <1>0, <1>2 DEF SkipProcessed, ProcessorTypes, StoreTypes, Harmless, products
  <1>3. ASSUME NEW p \in Processors, Look(p)
        PROVE  ProcessorTypes' /\ Harmless
    BY <1>0, <1>3 DEF Look, AtLoopHead, ProcessorTypes, StoreTypes, Harmless, products
  <1>4. ASSUME NEW p \in Processors, Claim(p)
        PROVE  ProcessorTypes' /\ Harmless
    <2>1. PICK m \in looked[p] : ClaimRow(m)
      BY <1>4 DEF Claim
    <2>2. m \in Matches /\ claimed[p] = {}
      BY <2>1 DEF ProcessorTypes
    <2>3. ProcessorTypes'
      BY <1>4, <2>2 DEF Claim, ProcessorTypes
    <2>4. Harmless
      BY <1>0, <1>4, <2>1, <2>2
         DEF Claim, ClaimRow, ProcessorTypes, StoreTypes, Harmless, AllRows, RowStatuses, Settled
    <2>5. QED
      BY <2>3, <2>4
  <1>5. ASSUME NEW p \in Processors, WritePart(p)
        PROVE  ProcessorTypes' /\ Harmless
    <2>1. PICK m \in claimed[p], part \in Parts :
             /\ norm' = norm \cup {<<m, part>>} /\ cut' = cut \ {<<m, part>>}
             /\ written' = [written EXCEPT ![p] = @ \cup {part}]
      BY <1>5 DEF WritePart
    <2>2. m \in Matches
      BY DEF ProcessorTypes
    <2>3. ProcessorTypes'
      BY <1>5, <2>1 DEF WritePart, ProcessorTypes
    <2>4. Harmless
      BY <1>0, <1>5, <2>1, <2>2 DEF WritePart, ProcessorTypes, StoreTypes, Harmless, Files
    <2>5. QED
      BY <2>3, <2>4
  <1>6. ASSUME NEW p \in Processors, RecordDone(p) \/ RejectMatch(p)
        PROVE  ProcessorTypes' /\ Harmless
    <2>1. PICK m \in claimed[p] :
             rows' = [rows EXCEPT ![m] = "processed"] \/ RejectRow(m)
      BY <1>6 DEF RecordDone, RejectMatch
    <2>2. /\ Release(p) /\ UNCHANGED <<listed, norm, cut, todo, looked, processing, killed>>
          /\ m \in Matches
      BY <1>6, <2>1 DEF RecordDone, RejectMatch, ProcessorTypes
    <2>3. ProcessorTypes'
      BY <2>2 DEF Release, ProcessorTypes
    <2>4. Harmless
      BY <1>0, <2>1, <2>2
         DEF Release, RejectRow, ProcessorTypes, StoreTypes, Harmless, AllRows, RowStatuses, Settled
    <2>5. QED
      BY <2>3, <2>4
  <1>7. ASSUME NEW p \in Processors, ProcessorDies(p)
        PROVE  ProcessorTypes' /\ Harmless
    BY <1>0, <1>7 DEF ProcessorDies, Release, ProcessorTypes, StoreTypes, Harmless, products
  <1>8. QED
    BY <1>1, <1>2, <1>3, <1>4, <1>5, <1>6, <1>7 DEF ProcessorNext, Process

\* A harmless step keeps the invariant.
LEMMA ProcessorKeeps ==
    ASSUME IInv, ProcessorTypes', Harmless
    PROVE  IInv'
  <1>1. StoreTypes'
    BY DEF IInv, StoreTypes, Harmless, checkpoint, repair
  <1>2. \A m \in Foreign : Clean(m) => Clean(m)'
    BY RepairAssumption
       DEF IInv, StoreTypes, Harmless, checkpoint, Clean, AcceptedNowhere, Listed, IsProcessed, Files
  <1>3. \A m \in Foreign : AcceptedThroughout(m) => AcceptedThroughout(m)'
    BY RepairAssumption
       DEF IInv, StoreTypes, Harmless, checkpoint, AcceptedThroughout, Listed, IsProcessed, Complete, Done
  <1>4. \A m : Recoverable(m) <=> Recoverable(m)'
    BY DEF Harmless, Recoverable, Whole
  <1>5. Sound' /\ UnknownIsClean'
    BY <1>2, <1>3, <1>4 DEF IInv, Harmless, checkpoint, Sound, UnknownIsClean
  <1>6. Reconciled'
    <2>1. \A m \in conflicts : IsProcessed(m) => IsProcessed(m)'
      BY RepairAssumption DEF IInv, StoreTypes, Harmless, IsProcessed, Done
    <2>2. QED
      BY <2>1 DEF IInv, Reconciled, Harmless, checkpoint, repair, Rejected, AcceptedIn
  <1>7. BackedUp'
    BY <1>4 DEF IInv, BackedUp, Harmless, repair, Saved, AcceptedIn
  <1>8. Undisturbed'
    BY DEF IInv, StoreTypes, Undisturbed, Harmless
  <1>9. Reported'
    BY <1>2 DEF IInv, Reported, Harmless, checkpoint
  <1>10. QED
    BY <1>1, <1>5, <1>6, <1>7, <1>8, <1>9 DEF IInv

\* The collector takes turns with the repair: what it changes is not what a repair has
\* loaded or copied.
LEMMA CollectorSteps ==
    ASSUME IInv,
           BeginCollecting \/ (\E m \in Matches : Collect(m)) \/ EndCollecting \/ CollectorDies
    PROVE  IInv'
  <1>1. ASSUME BeginCollecting \/ EndCollecting \/ CollectorDies
        PROVE  IInv'
    <2>1. /\ pc = "idle" /\ pc' = "idle" /\ UNCHANGED <<status, norm, cut, rows, processor, processing>>
          /\ UNCHANGED <<killed, repair, backup, report, beside>>
          /\ holders' \in {{}, {"collector"}} /\ active' \in BOOLEAN /\ runs' \in 0..MaxRuns
          /\ listed' = listed \/ (listed' = Accepted /\ status # Absent)
      <3> USE DEF IInv, StoreTypes
      <3>1. CASE BeginCollecting
        BY <3>1, RepairAssumption DEF BeginCollecting, Lock, procVars, products
      <3>2. CASE EndCollecting
        <4>1. holders = {"collector"} /\ pc = "idle"
          BY <3>2 DEF EndCollecting
        <4>2. holders' = {}
          BY <3>2, <4>1 DEF EndCollecting, Unlock
        <4>3. active' \in BOOLEAN
          BY <3>2, Zenon DEF EndCollecting
        <4>4. QED
          BY <3>2, <4>1, <4>2, <4>3 DEF EndCollecting, products
      <3>3. CASE CollectorDies
        BY <3>3 DEF CollectorDies, Unlock, procVars, products, checkpoint
      <3>4. QED
        BY <1>1, <3>1, <3>2, <3>3
    <2>2. StoreTypes' /\ ProcessorTypes'
      BY <2>1 DEF IInv, StoreTypes, ProcessorTypes, repair, processor, Accepted, AcceptedIn
    <2>3. \A m \in Foreign : Clean(m) => Clean(m)'
      BY <2>1, RepairAssumption
         DEF Clean, AcceptedNowhere, Listed, NotInHand, IsProcessed, processor, Accepted, AcceptedIn
    <2>4. \A m \in Foreign : AcceptedThroughout(m) => AcceptedThroughout(m)'
      BY <2>1, RepairAssumption, AbsentAssumption
         DEF AcceptedThroughout, Listed, IsProcessed, Complete, Accepted, AcceptedIn
    <2>5. \A m : Recoverable(m) <=> Recoverable(m)'
      BY <2>1 DEF Recoverable, Whole
    <2>6. Sound' /\ UnknownIsClean'
      <3>1. Accepted # Absent
        BY AbsentAssumption DEF Accepted, AcceptedIn
      <3>2. QED
        BY <2>1, <2>3, <2>4, <2>5, <3>1 DEF IInv, Sound, UnknownIsClean
    <2>7. Reconciled' /\ BackedUp' /\ Undisturbed'
      BY <2>1
         DEF IInv, Reconciled, BackedUp, Undisturbed, Copying, Writing, Restoring, repair
    <2>8. Reported'
      BY <2>1, <2>3 DEF IInv, Reported
    <2>9. QED
      BY <2>2, <2>6, <2>7, <2>8 DEF IInv
  <1>2. ASSUME NEW m \in Matches, Collect(m)
        PROVE  IInv'
    <2>1. /\ pc = "idle" /\ pc' = "idle" /\ status # Absent /\ status \in States
          /\ UNCHANGED <<listed, processor, processing, killed, active, holders, repair, backup>>
          /\ UNCHANGED <<report, beside, runs>>
      BY <1>2 DEF Collect, IInv, StoreTypes
    <2>2. /\ status' \in States /\ status' # Absent
          /\ rows' \in AllRows /\ norm' \subseteq Files(Matches)
          /\ cut' \subseteq norm' /\ cut' \subseteq cut
      BY <1>2, <2>1, AbsentAssumption
         DEF Collect, IInv, StoreTypes, States, AllRows, RowStatuses, Settled, Files
    <2>3. \A n \in Foreign :
             /\ rows'[n] = rows[n] \/ (~IsProcessed(n) /\ rows'[n] = "platform_mismatch")
             /\ \A part \in Parts : /\ (<<n, part>> \in norm' <=> <<n, part>> \in norm)
                                     /\ (<<n, part>> \in cut' <=> <<n, part>> \in cut)
             /\ status'[n] = status[n]
                    \/ (status[n] = "unknown" /\ status'[n] = "rejected_platform_mismatch")
      BY <1>2, <2>1, RepairAssumption
         DEF Collect, IInv, StoreTypes, States, AllRows, Files, IsProcessed
    <2>4. StoreTypes' /\ ProcessorTypes'
      BY <2>1, <2>2 DEF IInv, StoreTypes, ProcessorTypes, repair, processor
    <2>5. \A n \in Foreign : Clean(n) => Clean(n)'
      BY <2>1, <2>3, RepairAssumption
         DEF Clean, AcceptedNowhere, Listed, NotInHand, IsProcessed, processor, Files
    <2>6. \A n \in Foreign : AcceptedThroughout(n) => AcceptedThroughout(n)'
      BY <2>1, <2>3, RepairAssumption DEF AcceptedThroughout, Listed, IsProcessed, Complete
    <2>7. \A n : Recoverable(n) <=> Recoverable(n)'
      BY <2>1 DEF Recoverable, Whole
    <2>8. Sound' /\ UnknownIsClean'
      BY <2>1, <2>2, <2>3, <2>5, <2>6, <2>7 DEF IInv, Sound, UnknownIsClean
    <2>9. Reconciled' /\ BackedUp' /\ Undisturbed'
      BY <2>1
         DEF IInv, Reconciled, BackedUp, Undisturbed, Copying, Writing, Restoring, repair
    <2>10. Reported'
      BY <2>1, <2>2, <2>5 DEF IInv, Reported
    <2>11. QED
      BY <2>4, <2>8, <2>9, <2>10 DEF IInv
  <1>3. QED
    BY <1>1, <1>2

-----------------------------------------------------------------------------
\* A step that changes neither the stores nor the backups keeps what is said of them.
LEMMA StoresKept ==
    ASSUME IInv, UNCHANGED <<procVars, status, backup>>
    PROVE  /\ ProcessorTypes' /\ Sound' /\ UnknownIsClean'
           /\ \A m : Clean(m) <=> Clean(m)'
           /\ \A m : Recoverable(m) <=> Recoverable(m)'
  <1> USE DEF procVars, products, processor
  <1>1. ProcessorTypes'
    BY DEF IInv, ProcessorTypes
  <1>2. \A m : Clean(m) <=> Clean(m)'
    BY DEF Clean, AcceptedNowhere, Listed, NotInHand, IsProcessed
  <1>3. \A m : Recoverable(m) <=> Recoverable(m)'
    BY DEF Recoverable, Whole
  <1>4. \A m : AcceptedThroughout(m) <=> AcceptedThroughout(m)'
    BY DEF AcceptedThroughout, Listed, IsProcessed, Complete
  <1>5. QED
    BY <1>1, <1>2, <1>3, <1>4 DEF IInv, Sound, UnknownIsClean

\* A repair that has begun to write has a whole backup of what it rejects.
LEMMA BackedUpIsWhole ==
    ASSUME IInv, pc \in Writing \cup Restoring
    PROVE  /\ \A m \in conflicts : Recoverable(m)
           /\ \E m \in Foreign : Recoverable(m)
  BY DEF IInv, StoreTypes, Reconciled, BackedUp

\* A write, its undoing or a copy cut short is sound when it leaves the matches alone
\* that the repair does not reject: the others are in the backup.
LEMMA WritesAreSound ==
    ASSUME IInv, pc \in Writing \cup Restoring, backup' = backup, status' \in States,
           \A m \in Foreign \ conflicts :
               Clean(m) => Clean(m)' \/ (status[m] # "unknown" /\ Recoverable(m)),
           \A m \in Foreign \ conflicts : status'[m] = status[m],
           \A m \in conflicts : status'[m] # "unknown",
           \A file \in cut' : file \in cut \/ file[1] \in conflicts
    PROVE  /\ Sound' /\ UnknownIsClean'
           /\ \A m : Recoverable(m) <=> Recoverable(m)'
  <1>1. \A m : Recoverable(m) <=> Recoverable(m)'
    BY DEF Recoverable, Whole
  <1>2. (\A m \in conflicts : Recoverable(m)) /\ (\E m \in Foreign : Recoverable(m))
    BY BackedUpIsWhole
  <1>3. /\ loaded \in States /\ conflicts = AcceptedIn(loaded) \cap Foreign
        /\ status = loaded \/ status = Rejected
    BY DEF IInv, Reconciled, Writing, Restoring
  <1>4. status \in States
    BY <1>3 DEF Rejected, States
  <1>5. \A m \in Foreign \ conflicts : ~AcceptedThroughout(m)
    BY <1>3, RepairAssumption DEF AcceptedThroughout, Rejected, AcceptedIn
  <1>6. \A m \in Foreign \ conflicts : Clean(m)' \/ Recoverable(m)'
    BY <1>1, <1>4, <1>5, AbsentAssumption DEF IInv, Sound
  <1>7. \A file \in cut' : Recoverable(file[1])'
    BY <1>1, <1>2 DEF IInv, Sound
  <1>8. Sound'
    BY <1>1, <1>2, <1>6, <1>7, AbsentAssumption DEF Sound
  <1>9. UnknownIsClean'
    BY <1>4, AbsentAssumption DEF IInv, UnknownIsClean
  <1>10. QED
    BY <1>1, <1>8, <1>9

\* A repair that ends, however it does, leaves the stores to what was said of them.
LEMMA Endings ==
    ASSUME IInv, pc # "idle", NEW how, how \in {"none", "failed"}, End(how), CutShort,
           UNCHANGED <<rows, processor, processing, killed, active, backup, runs>>
    PROVE  IInv'
  <1>1. /\ pc' = "idle" /\ holders' = {} /\ report' = how /\ loaded' = Absent
        /\ conflicts' = {} /\ removed' = {} /\ directory' = Absent
    BY DEF End, Unlock, IInv, StoreTypes
  <1>2. beside' \in BOOLEAN
    BY Zenon DEF End
  <1>3. ProcessorTypes' /\ \A m : NotInHand(m) <=> NotInHand(m)'
    BY DEF IInv, ProcessorTypes, processor, NotInHand
  <1>4. /\ Sound' /\ UnknownIsClean'
        /\ status' \in States \cup {Absent} /\ listed' \in (SUBSET Matches) \cup {Absent}
        /\ norm' \subseteq Files(Matches) /\ cut' \subseteq norm'
    <2>1. CASE UNCHANGED <<status, listed, norm, cut>>
      <3>1. Sound' /\ UnknownIsClean'
        BY <2>1, StoresKept DEF procVars, products
      <3>2. QED
        BY <2>1, <3>1 DEF IInv, StoreTypes
    <2>2. CASE pc = "restore_checkpoint" /\ status' = Absent /\ UNCHANGED <<listed, norm, cut>>
      <3>1. \E m \in Foreign : Recoverable(m)
        BY <2>2, BackedUpIsWhole DEF Restoring
      <3>2. \A m : Recoverable(m) <=> Recoverable(m)'
        BY DEF Recoverable, Whole
      <3>3. Sound' /\ UnknownIsClean'
        BY <2>2, <3>1, <3>2 DEF IInv, Sound, UnknownIsClean
      <3>4. QED
        BY <2>2, <3>3 DEF IInv, StoreTypes
    <2>3. CASE pc \in {"restore_manifest", "restore_files"} /\ ~UNCHANGED <<status, listed, norm, cut>>
      <3>1. /\ status' = status /\ status = loaded /\ loaded \in States
            /\ conflicts = AcceptedIn(loaded) \cap Foreign /\ removed \subseteq Files(conflicts)
            /\ Foreign \subseteq Matches
        BY <2>3, RepairAssumption DEF CutShort, IInv, StoreTypes, Reconciled
      <3>2. /\ listed' = listed \/ listed' = Absent
            /\ \/ UNCHANGED <<norm, cut>>
               \/ \E file \in removed : norm' = norm \cup {file} /\ cut' = cut \cup {file}
        BY <2>3 DEF CutShort
      <3>3. \A m \in Foreign \ conflicts : Clean(m) => Clean(m)'
        BY <1>3, <3>1, <3>2 DEF Clean, AcceptedNowhere, Listed, IsProcessed, Files
      <3>4. \A m \in conflicts : status'[m] # "unknown"
        BY <3>1 DEF AcceptedIn
      <3>5. \A file \in cut' : file \in cut \/ file[1] \in conflicts
        BY <3>1, <3>2 DEF Files
      <3>6. Sound' /\ UnknownIsClean'
        BY <2>3, <3>1, <3>3, <3>4, <3>5, WritesAreSound DEF Restoring
      <3>7. norm' \subseteq Files(Matches) /\ cut' \subseteq norm'
        BY <3>1, <3>2 DEF IInv, StoreTypes, Files
      <3>8. QED
        BY <3>1, <3>2, <3>6, <3>7 DEF IInv, StoreTypes
    <2>4. QED
      BY <2>1, <2>2, <2>3 DEF CutShort
  <1>5. StoreTypes'
    BY <1>1, <1>2, <1>4 DEF IInv, StoreTypes, Phases
  <1>6. Reconciled' /\ Undisturbed'
    BY <1>1 DEF Reconciled, Undisturbed, Copying, Writing, Restoring
  <1>7. BackedUp'
    BY <1>1 DEF IInv, BackedUp, Copying, Writing, Restoring
  <1>8. Reported'
    BY <1>1 DEF Reported
  <1>9. QED
    BY <1>3, <1>4, <1>5, <1>6, <1>7, <1>8 DEF IInv

\* A repair that finds nothing to repair, or refuses, or dies.
LEMMA Quits ==
    ASSUME IInv, FailCheck \/ BackUpFails \/ RepairDies
    PROVE  IInv'
  <1>1. "repair" \in holders /\ pc # "idle"
    BY DEF FailCheck, BackUpFails, Refuse, RepairDies, IInv, StoreTypes
  <1>2. CASE FailCheck \/ BackUpFails
    BY <1>1, <1>2, Endings
       DEF FailCheck, BackUpFails, Refuse, CutShort, procVars, products, checkpoint
  <1>3. CASE RepairDies
    BY <1>1, <1>3, Endings DEF RepairDies
  <1>4. QED
    BY <1>2, <1>3

\* A repair that starts knows that no processor is at work, or that one is.
LEMMA Starts ==
    ASSUME IInv, StartRepair
    PROVE  IInv'
  <1>1. /\ pc = "idle" /\ pc' = "loading" /\ holders' = {"repair"} /\ report' = "none"
        /\ directory' \in Directories /\ runs' \in 0..MaxRuns
        /\ UNCHANGED <<procVars, checkpoint, loaded, conflicts, removed, backup>>
    BY RepairAssumption DEF StartRepair, Lock, IInv, StoreTypes
  <1>2. beside' \in BOOLEAN
    BY Zenon DEF StartRepair
  <1>3. ~beside' => \A m \in Matches : NotInHand(m)
    <2>1. beside' = (\E p \in Processors : ~Idle(p))
      BY DEF StartRepair
    <2>2. ~beside' => \A p \in Processors : Idle(p)
      BY <2>1, Zenon
    <2>3. QED
      BY <2>2 DEF NotInHand, Idle
  <1>4. \A m \in Matches : NotInHand(m) => NotInHand(m)'
    BY <1>1 DEF NotInHand, procVars, processor
  <1>5. StoreTypes'
    BY <1>1, <1>2 DEF IInv, StoreTypes, procVars, products, checkpoint, Phases
  <1>6. ProcessorTypes' /\ Sound' /\ UnknownIsClean'
    BY <1>1, StoresKept DEF checkpoint
  <1>7. Reconciled'
    BY <1>1 DEF IInv, Reconciled, Copying, Writing, Restoring
  <1>8. BackedUp'
    BY <1>1 DEF IInv, BackedUp, Copying, Writing, Restoring
  <1>9. Undisturbed'
    BY <1>1, <1>3, <1>4 DEF Undisturbed, Copying, Writing
  <1>10. Reported'
    BY <1>1 DEF Reported
  <1>11. QED
    BY <1>5, <1>6, <1>7, <1>8, <1>9, <1>10 DEF IInv

\* The checks of a repair, and the error that ends its writes, change no store.
LEMMA Checks ==
    ASSUME IInv, CheckState \/ CheckCatalog \/ (CheckFiles /\ pc' = "mkdir") \/ Raise
    PROVE  IInv'
  <1>1. /\ pc # "idle" /\ pc' # "idle" /\ pc' \in Phases
        /\ UNCHANGED <<procVars, checkpoint, holders, removed, directory, backup>>
        /\ UNCHANGED <<report, beside, runs>>
    BY DEF CheckState, CheckCatalog, CheckFiles, End, Raise, repair, Phases
  <1>2. ProcessorTypes' /\ Sound' /\ UnknownIsClean'
    BY <1>1, StoresKept DEF checkpoint
  <1>3. \A m : NotInHand(m) <=> NotInHand(m)'
    BY <1>1 DEF NotInHand, procVars, processor
  <1>4. /\ \A m : IsProcessed(m) <=> IsProcessed(m)'
        /\ \A m : Recoverable(m) <=> Recoverable(m)'
    BY <1>1 DEF IsProcessed, procVars, products, Recoverable, Whole
  <1>5. Reported'
    BY <1>1 DEF IInv, Reported
  <1> USE <1>1, <1>3 DEF procVars, products, checkpoint
  <1>6. CASE CheckState
    <2>1. /\ pc = "loading" /\ pc' = "catalog" /\ removed = {} /\ status \in States
          /\ loaded' = status /\ conflicts' = Accepted \cap Foreign /\ listed = Accepted
      BY <1>6 DEF CheckState, StateReconciles, IInv, StoreTypes, Reconciled, Writing, Restoring
    <2>2. StoreTypes'
      BY <2>1 DEF IInv, StoreTypes
    <2>3. Reconciled'
      BY <2>1 DEF Reconciled, Accepted, AcceptedIn, Copying, Writing, Restoring
    <2>4. BackedUp' /\ Undisturbed'
      BY <2>1 DEF IInv, BackedUp, Undisturbed, Copying, Writing, Restoring
    <2>5. QED
      BY <1>2, <1>5, <2>2, <2>3, <2>4 DEF IInv
  <1>7. CASE CheckCatalog
    <2>1. /\ pc = "catalog" /\ pc' = "files" /\ UNCHANGED <<loaded, conflicts>>
          /\ CatalogReconciles
      BY <1>7 DEF CheckCatalog, repair
    <2>2. StoreTypes'
      BY <2>1 DEF IInv, StoreTypes
    <2>3. Reconciled'
      BY <1>4, <2>1
         DEF IInv, Reconciled, CatalogReconciles, AcceptedIn, Rejected, Copying, Writing, Restoring
    <2>4. BackedUp' /\ Undisturbed'
      BY <2>1 DEF IInv, BackedUp, Undisturbed, CatalogReconciles, MismatchedIn, Copying, Writing,
                  Restoring
    <2>5. QED
      BY <1>2, <1>5, <2>2, <2>3, <2>4 DEF IInv
  <1>8. CASE CheckFiles /\ pc' = "mkdir"
    <2>1. /\ pc = "files" /\ FilesReconcile /\ conflicts # {} /\ ~backup[directory].exists
          /\ UNCHANGED <<loaded, conflicts>>
      BY <1>8 DEF CheckFiles, End, repair
    <2>2. StoreTypes'
      BY <2>1 DEF IInv, StoreTypes
    <2>3. Reconciled'
      BY <1>4, <1>8, <2>1
         DEF IInv, Reconciled, FilesReconcile, AcceptedIn, Rejected, Copying, Writing, Restoring
    <2>4. Saved'.norm = {}
      BY <2>1 DEF IInv, StoreTypes, BackedUp, Saved
    <2>5. BackedUp'
      BY <1>8, <2>1, <2>4 DEF IInv, BackedUp, Copying, Writing, Restoring
    <2>6. Undisturbed'
      BY <1>8, <2>1 DEF IInv, Undisturbed, FilesReconcile, MismatchedIn, Copying, Writing
    <2>7. QED
      BY <1>2, <1>5, <2>2, <2>3, <2>5, <2>6 DEF IInv
  <1>9. CASE Raise
    <2>1. pc \in Writing /\ pc' = "restore_checkpoint" /\ UNCHANGED <<loaded, conflicts>>
      BY <1>9 DEF Raise, repair, Writing
    <2>2. StoreTypes'
      BY <2>1 DEF IInv, StoreTypes
    <2>3. Reconciled'
      BY <2>1 DEF IInv, Reconciled, AcceptedIn, Rejected, Copying, Writing, Restoring
    <2>4. BackedUp'
      BY <1>4, <2>1 DEF IInv, BackedUp, AcceptedIn, Saved, Copying, Writing, Restoring
    <2>5. Undisturbed'
      BY <2>1 DEF IInv, Undisturbed, Copying, Writing
    <2>6. QED
      BY <1>2, <1>5, <2>2, <2>3, <2>4, <2>5 DEF IInv
  <1>10. QED
    BY <1>6, <1>7, <1>8, <1>9

\* A match of another platform that is not accepted in a reconciled and undisturbed run
\* is in no store.
LEMMA RestIsClean ==
    ASSUME IInv, pc \notin {"idle", "loading"}, ~beside, status \in States,
           NEW m \in Foreign \ conflicts, status[m] = loaded[m],
           rows[m] = "platform_mismatch" \/ loaded[m] # "rejected_platform_mismatch",
           Files({m}) \cap norm = {} \/ loaded[m] # "rejected_platform_mismatch"
    PROVE  Clean(m)
  <1>1. /\ loaded \in States /\ listed = AcceptedIn(loaded) /\ NotInHand(m) /\ m \in Matches
        /\ conflicts = AcceptedIn(loaded) \cap Foreign /\ status # Absent
    BY RepairAssumption, AbsentAssumption DEF IInv, Reconciled, Undisturbed
  <1>2. loaded[m] # "accepted" /\ m \notin listed
    BY <1>1 DEF AcceptedIn
  <1>3. CASE loaded[m] = "unknown"
    BY <1>1, <1>3 DEF IInv, UnknownIsClean
  <1>4. CASE loaded[m] = "rejected_platform_mismatch"
    BY <1>1, <1>2, <1>4 DEF Clean, AcceptedNowhere, Listed, IsProcessed
  <1>5. QED
    BY <1>1, <1>2, <1>3, <1>4 DEF States

\* A repair that reports success with nothing to repair has looked at every store.
LEMMA NothingToRepair ==
    ASSUME IInv, CheckFiles, pc' # "mkdir"
    PROVE  IInv'
  <1>1. /\ pc = "files" /\ FilesReconcile /\ End(IF conflicts = {} THEN "repaired" ELSE "none")
        /\ UNCHANGED <<procVars, checkpoint, backup, runs>>
    BY DEF CheckFiles
  <1>2. CASE conflicts # {}
    BY <1>1, <1>2, Endings DEF CutShort, procVars, products, checkpoint
  <1>3. CASE conflicts = {}
    <2>1. /\ pc' = "idle" /\ holders' = {} /\ report' = "repaired" /\ loaded' = Absent
          /\ conflicts' = {} /\ removed' = {} /\ directory' = Absent
      BY <1>1, <1>3 DEF End, Unlock, IInv, StoreTypes
    <2>2. beside' \in BOOLEAN /\ (beside => beside')
      BY <1>1, <1>3, Zenon DEF End
    <2>3. StoreTypes'
      BY <1>1, <2>1, <2>2 DEF IInv, StoreTypes, procVars, products, checkpoint, Phases
    <2>4. /\ ProcessorTypes' /\ Sound' /\ UnknownIsClean'
          /\ \A m : Clean(m) <=> Clean(m)'
      BY <1>1, StoresKept DEF checkpoint
    <2>5. Reconciled' /\ Undisturbed' /\ BackedUp'
      BY <1>1, <2>1
         DEF IInv, Reconciled, Undisturbed, BackedUp, Copying, Writing, Restoring
    <2>6. Reported'
      <3> SUFFICES ASSUME ~beside
                   PROVE  status' # Absent /\ \A m \in Foreign : Clean(m)
        BY <2>1, <2>2, <2>4 DEF Reported
      <3>1. status = loaded /\ loaded \in States /\ UNCHANGED status
        BY <1>1 DEF IInv, Reconciled, checkpoint
      <3>2. ASSUME NEW m \in Foreign
            PROVE  Clean(m)
        <4>1. loaded[m] = "rejected_platform_mismatch" =>
                 m \in MismatchedIn(loaded)
          BY RepairAssumption DEF MismatchedIn
        <4>2. loaded[m] = "rejected_platform_mismatch" => rows[m] = "platform_mismatch"
          BY <1>1, <4>1 DEF IInv, Undisturbed
        <4>3. loaded[m] = "rejected_platform_mismatch" => Files({m}) \cap norm = {}
          BY <1>1, <3>1, <4>1 DEF FilesReconcile, Files
        <4>4. QED
          BY <1>1, <1>3, <3>1, <4>2, <4>3, RestIsClean
      <3>3. QED
        BY <3>1, <3>2, AbsentAssumption
    <2>7. QED
      BY <2>3, <2>4, <2>5, <2>6 DEF IInv
  <1>4. QED
    BY <1>2, <1>3

\* A backup that is being made is none yet, and leaves the others as they are.
LEMMA Copies ==
    ASSUME IInv, BackUp
    PROVE  IInv'
  <1>1. /\ "repair" \in holders /\ pc \in Copying
        /\ UNCHANGED <<procVars, checkpoint, holders, repair, report, beside, runs>>
        /\ pc' \in Copying \cup {"removing"} /\ directory \in Directories
    BY DEF BackUp, Copying, IInv, StoreTypes
  <1>2. PICK field \in {"exists", "status", "listed", "rows", "norm"},
                  value \in {TRUE, status, listed, rows, Files(conflicts) \ cut} :
             /\ Store(field, value)
             /\ field = "exists" => pc = "mkdir" /\ pc' = "copy_checkpoint" /\ value = TRUE
             /\ field = "status" => pc = "copy_checkpoint" /\ pc' = "copy_manifest" /\ value = status
             /\ field = "listed" => pc = "copy_manifest" /\ pc' = "copy_catalog" /\ value = listed
             /\ field = "rows" => pc = "copy_catalog" /\ pc' = "copy_files" /\ value = rows
             /\ field = "norm" => pc = "copy_files" /\ pc' = "removing"
                                  /\ value = Files(conflicts) \ cut
    BY DEF BackUp
  <1>3. /\ conflicts \subseteq Foreign /\ loaded \in States /\ status = loaded
        /\ listed = AcceptedIn(loaded) /\ conflicts = AcceptedIn(loaded) \cap Foreign
        /\ removed = {} /\ \A m \in conflicts : IsProcessed(m)
    BY <1>1 DEF IInv, StoreTypes, Reconciled, Copying, Writing, Restoring
  <1>4. /\ backup' \in [Directories -> Backups]
        /\ \A d \in Directories \ {directory} : backup'[d] = backup[d]
        /\ backup'[directory] = [backup[directory] EXCEPT ![field] = value]
    <2>1. value \in (CASE field = "exists" -> BOOLEAN
                       [] field = "status" -> States \cup {Absent}
                       [] field = "listed" -> (SUBSET Matches) \cup {Absent}
                       [] field = "rows" -> AllRows \cup {Absent}
                       [] field = "norm" -> SUBSET Files(Matches))
      BY <1>2, <1>3, RepairAssumption DEF IInv, StoreTypes, Files
    <2>2. [backup[directory] EXCEPT ![field] = value] \in Backups
      BY <1>1, <2>1 DEF IInv, StoreTypes, Backups
    <2>3. QED
      BY <1>1, <1>2, <2>2 DEF Store, IInv, StoreTypes
  <1>5. \A m : Recoverable(m) => Recoverable(m)'
    <2>1. ASSUME NEW m
          PROVE  ~Whole(backup[directory], m)
      <3>1. backup[directory].norm = {}
        BY <1>1 DEF IInv, BackedUp, Saved
      <3>2. <<m, 1>> \in Files({m})
        BY ProcessingAssumption DEF Parts, Files
      <3>3. QED
        BY <3>1, <3>2 DEF Whole
    <2>2. QED
      BY <1>1, <1>4, <2>1 DEF Recoverable, Whole
  <1>6. \A m : (AcceptedThroughout(m) <=> AcceptedThroughout(m)') /\ (Clean(m) <=> Clean(m)')
    BY <1>1
       DEF AcceptedThroughout, Clean, AcceptedNowhere, Listed, NotInHand, IsProcessed, Complete,
           checkpoint, procVars, products, processor
  <1>7. StoreTypes' /\ ProcessorTypes'
    BY <1>1, <1>4
       DEF IInv, StoreTypes, ProcessorTypes, procVars, products, processor, checkpoint, repair,
           Copying, Phases
  <1>8. Sound' /\ UnknownIsClean' /\ Reported'
    BY <1>1, <1>5, <1>6
       DEF IInv, StoreTypes, Sound, UnknownIsClean, Reported, checkpoint, procVars, products
  <1>9. Reconciled' /\ Undisturbed'
    BY <1>1, <1>3
       DEF IInv, Reconciled, Undisturbed, NotInHand, IsProcessed, MismatchedIn, AcceptedIn, Rejected,
           procVars, products, processor, checkpoint, repair, Copying, Writing, Restoring
  <1>10. BackedUp'
    <2>1. \A d \in Directories : ~backup'[d].exists => backup'[d].norm = {}
      BY <1>1, <1>2, <1>4 DEF IInv, StoreTypes, Backups, BackedUp, Saved, Copying
    <2>2. /\ pc' \in Copying => Saved'.norm = {} /\ Saved'.exists
          /\ pc' \in {"copy_manifest", "copy_catalog", "copy_files", "removing"} =>
                Saved'.status = loaded
          /\ pc' \in {"copy_catalog", "copy_files", "removing"} =>
                Saved'.listed = AcceptedIn(loaded)
      BY <1>1, <1>2, <1>3, <1>4
         DEF IInv, StoreTypes, Backups, BackedUp, Saved, repair, Copying
    <2>3. pc' = "copy_files" => Saved'.rows = rows
      BY <1>1, <1>2, <1>4 DEF IInv, StoreTypes, Backups, Saved, repair
    <2>4. pc' = "removing" => pc = "copy_files" /\ Saved'.rows = Saved.rows
      BY <1>1, <1>2, <1>4 DEF IInv, StoreTypes, Backups, Saved, repair
    <2>5. /\ rows \in AllRows /\ \A m \in conflicts : rows[m] \in Done
          /\ \A m \in Foreign \ conflicts : Recoverable(m)' \/ rows[m] \notin Done
          /\ \A m \in Foreign : loaded[m] = "unknown" => rows[m] \notin Done
      <3>1. status # Absent
        BY <1>3, AbsentAssumption
      <3>2. \A m \in Foreign : Clean(m) => rows[m] \notin Done
        BY DEF Clean, AcceptedNowhere, Listed, IsProcessed, Done
      <3>3. \A m \in Foreign \ conflicts : ~AcceptedThroughout(m)
        BY <1>3, RepairAssumption DEF AcceptedThroughout, Listed, AcceptedIn
      <3>4. QED
        BY <1>3, <1>5, <3>1, <3>2, <3>3
           DEF IInv, StoreTypes, Sound, UnknownIsClean, IsProcessed, Done
    <2>6. ASSUME pc' = "removing"
          PROVE  Saved'.norm \cap cut' = {} /\ \A m \in conflicts : Recoverable(m)'
      <3>1. Saved'.norm = Files(conflicts) \ cut
        BY <1>1, <1>2, <1>4, <2>6 DEF IInv, StoreTypes, Backups, Saved, repair
      <3>2. /\ Saved'.status = loaded /\ Saved'.listed = AcceptedIn(loaded)
            /\ Saved'.rows \in AllRows /\ \A m \in conflicts : Saved'.rows[m] \in Done
        BY <2>2, <2>4, <2>6 DEF IInv, BackedUp
      <3>3. loaded # Absent /\ Saved'.rows # Absent /\ AcceptedIn(loaded) # Absent
        BY <1>3, <3>2, AbsentAssumption DEF AcceptedIn
      <3>4. ASSUME NEW m \in conflicts
            PROVE  Recoverable(m)'
        <4>1. CASE Files({m}) \cap cut = {}
          <5>1. Files({m}) \subseteq Saved'.norm
            BY <3>1, <4>1 DEF Files
          <5>2. Whole(Saved', m)
            BY <1>3, <3>2, <3>3, <5>1 DEF Whole, AcceptedIn, Done
          <5>3. QED
            BY <1>1, <5>2 DEF Recoverable, Saved, repair
        <4>2. CASE \E file \in cut : file[1] = m
          BY <1>5, <4>2 DEF IInv, Sound
        <4>3. QED
          BY <4>1, <4>2 DEF Files
      <3>5. QED
        BY <1>1, <3>1, <3>4 DEF procVars, products
    <2>7. QED
      BY <1>1, <1>5, <2>1, <2>2, <2>3, <2>4, <2>5, <2>6
         DEF IInv, BackedUp, AcceptedIn, repair, Copying, Writing, Restoring
  <1>11. QED
    BY <1>7, <1>8, <1>9, <1>10 DEF IInv

-----------------------------------------------------------------------------
\* The writes of a repair.
LEMMA Writes ==
    ASSUME IInv, RemoveFile \/ ReclassifyCatalog \/ WriteCheckpoint
    PROVE  IInv'
  <1>1. /\ pc \in Writing /\ pc' \in Writing
        /\ UNCHANGED <<listed, processor, processing, killed, active, holders, loaded, conflicts>>
        /\ UNCHANGED <<directory, backup, report, beside, runs>>
    BY DEF RemoveFile, ReclassifyCatalog, WriteCheckpoint, Writing, repair, procVars, checkpoint
  <1>2. /\ conflicts \subseteq Foreign /\ Foreign \subseteq Matches /\ loaded \in States
        /\ conflicts = AcceptedIn(loaded) \cap Foreign /\ listed = AcceptedIn(loaded)
        /\ conflicts # {} /\ Files(conflicts) \subseteq norm \cup removed
        /\ pc # "manifest" => status = loaded
        /\ \A m : NotInHand(m) <=> NotInHand(m)'
    BY <1>1, RepairAssumption
       DEF IInv, StoreTypes, Reconciled, Copying, Writing, NotInHand, processor
  <1>3. ProcessorTypes' /\ Reported'
    BY <1>1 DEF IInv, ProcessorTypes, processor, StoreTypes, Reported, Writing
  <1>4. cut' \subseteq cut /\ \A m : Recoverable(m) <=> Recoverable(m)'
    BY <1>1
       DEF Recoverable, Whole, RemoveFile, ReclassifyCatalog, WriteCheckpoint, procVars, products
  <1>5. BackedUp'
    BY <1>1, <1>4 DEF IInv, BackedUp, AcceptedIn, Saved, Copying, Writing, Restoring
  <1>6. CASE RemoveFile
    <2>1. PICK file \in Files(conflicts) \cap norm :
             /\ norm' = norm \ {file} /\ cut' = cut \ {file}
             /\ removed' = removed \cup {file}
      BY <1>6 DEF RemoveFile
    <2>2. /\ pc = "removing" /\ pc' = pc /\ rows' = rows /\ status' = status
      BY <1>6 DEF RemoveFile, checkpoint
    <2>3. StoreTypes'
      BY <1>1, <2>1, <2>2 DEF IInv, StoreTypes
    <2>4. Reconciled'
      BY <1>1, <1>2, <2>1, <2>2
         DEF IInv, Reconciled, AcceptedIn, Rejected, Copying, Writing, Restoring
    <2>5. Undisturbed'
      BY <1>1, <1>2, <2>1, <2>2 DEF IInv, Undisturbed, MismatchedIn, Copying, Writing
    <2>6. Sound' /\ UnknownIsClean'
      <3>1. \A m \in Foreign \ conflicts : Clean(m) => Clean(m)'
        BY <1>1, <1>2, <2>1, <2>2 DEF Clean, AcceptedNowhere, Listed, IsProcessed, Files
      <3>2. \A m \in conflicts : status'[m] # "unknown"
        BY <1>2, <2>2 DEF AcceptedIn
      <3>3. QED
        BY <1>1, <1>2, <2>1, <2>2, <3>1, <3>2, WritesAreSound
    <2>7. QED
      BY <1>3, <1>5, <2>3, <2>4, <2>5, <2>6 DEF IInv
  <1>7. CASE ReclassifyCatalog
    <2>1. /\ pc = "removing" /\ pc' = "checkpoint" /\ removed = Files(conflicts)
          /\ rows' = [m \in Matches |-> IF m \in conflicts THEN "platform_mismatch" ELSE rows[m]]
          /\ UNCHANGED <<norm, cut, status, removed>>
      BY <1>7 DEF ReclassifyCatalog, checkpoint, repair
    <2>2. StoreTypes'
      <3>1. rows' \in AllRows
        BY <2>1 DEF IInv, StoreTypes, AllRows, RowStatuses, Settled
      <3>2. QED
        BY <1>1, <2>1, <3>1 DEF IInv, StoreTypes, Phases
    <2>3. Reconciled'
      BY <1>1, <1>2, <2>1
         DEF IInv, Reconciled, AcceptedIn, Rejected, Copying, Writing, Restoring
    <2>4. Undisturbed'
      BY <1>1, <1>2, <2>1 DEF IInv, Undisturbed, MismatchedIn, Copying, Writing
    <2>5. Sound' /\ UnknownIsClean'
      <3>1. \A m \in Foreign \ conflicts : Clean(m) => Clean(m)'
        BY <1>1, <1>2, <2>1 DEF Clean, AcceptedNowhere, Listed, IsProcessed
      <3>2. \A m \in conflicts : status'[m] # "unknown"
        BY <1>2, <2>1 DEF AcceptedIn
      <3>3. QED
        BY <1>1, <1>2, <2>1, <3>1, <3>2, WritesAreSound
    <2>6. QED
      BY <1>3, <1>5, <2>2, <2>3, <2>4, <2>5 DEF IInv
  <1>8. CASE WriteCheckpoint
    <2>1. /\ pc = "checkpoint" /\ pc' = "manifest" /\ status' = Rejected
          /\ UNCHANGED <<rows, norm, cut, removed>>
      BY <1>8 DEF WriteCheckpoint, Rejected, repair, procVars, products
    <2>2. status' \in States
      BY <1>2, <2>1 DEF Rejected, States
    <2>3. StoreTypes'
      BY <1>1, <2>1, <2>2 DEF IInv, StoreTypes, Phases
    <2>4. Reconciled'
      BY <1>1, <1>2, <2>1
         DEF IInv, Reconciled, AcceptedIn, Rejected, Copying, Writing, Restoring
    <2>5. Undisturbed'
      BY <1>1, <1>2, <2>1 DEF IInv, Undisturbed, MismatchedIn, Copying, Writing
    <2>6. Sound' /\ UnknownIsClean'
      <3>1. \A m \in Foreign \ conflicts : status'[m] = status[m]
        BY <1>2, <2>1 DEF Rejected
      <3>2. \A m \in Foreign \ conflicts : Clean(m) => Clean(m)'
        BY <1>1, <1>2, <2>1, <3>1 DEF Clean, AcceptedNowhere, Listed, IsProcessed
      <3>3. \A m \in conflicts : status'[m] # "unknown"
        BY <1>2, <2>1 DEF Rejected
      <3>4. QED
        BY <1>1, <2>1, <2>2, <3>1, <3>2, <3>3, WritesAreSound
    <2>7. QED
      BY <1>3, <1>5, <2>3, <2>4, <2>5, <2>6 DEF IInv
  <1>9. QED
    BY <1>6, <1>7, <1>8

\* The last write of a repair ends it: no store knows what it has rejected.
LEMMA Reports ==
    ASSUME IInv, WriteManifest
    PROVE  IInv'
  <1>1. /\ pc = "manifest" /\ pc' = "idle" /\ holders' = {} /\ report' = "repaired"
        /\ loaded' = Absent /\ conflicts' = {} /\ removed' = {} /\ directory' = Absent
        /\ listed' = AcceptedIn(loaded) \ conflicts
        /\ UNCHANGED <<norm, cut, rows, processor, processing, killed, status, active, backup, runs>>
    BY DEF WriteManifest, End, Unlock, IInv, StoreTypes, products, checkpoint
  <1>2. beside' \in BOOLEAN /\ (beside => beside')
    BY Zenon DEF WriteManifest, End
  <1>3. /\ conflicts \subseteq Foreign /\ Foreign \subseteq Matches /\ loaded \in States
        /\ conflicts = AcceptedIn(loaded) \cap Foreign /\ listed = AcceptedIn(loaded)
        /\ status = Rejected
        /\ \A m : NotInHand(m) <=> NotInHand(m)'
    BY <1>1, RepairAssumption DEF IInv, StoreTypes, Reconciled, NotInHand, processor
  <1>4. status \in States /\ \A m \in Foreign \ conflicts : status[m] = loaded[m]
    BY <1>3 DEF Rejected, States
  <1>5. \A m \in Foreign : Clean(m) => Clean(m)'
    BY <1>1, <1>3 DEF Clean, AcceptedNowhere, Listed, IsProcessed
  <1>6. Sound' /\ UnknownIsClean'
    <2>1. \A m \in conflicts : status'[m] # "unknown"
      BY <1>1, <1>3 DEF Rejected
    <2>2. QED
      BY <1>1, <1>4, <1>5, <2>1, WritesAreSound DEF Writing
  <1>7. StoreTypes' /\ ProcessorTypes'
    BY <1>1, <1>2, <1>3
       DEF IInv, StoreTypes, ProcessorTypes, processor, Phases, AcceptedIn
  <1>8. Reconciled' /\ BackedUp' /\ Undisturbed'
    BY <1>1 DEF IInv, Reconciled, BackedUp, Undisturbed, Copying, Writing, Restoring
  <1>9. Reported'
    <2> SUFFICES ASSUME ~beside
                 PROVE  status' # Absent /\ \A m \in Foreign : Clean(m)'
      BY <1>1, <1>2 DEF Reported
    <2>1. ASSUME NEW m \in conflicts
          PROVE  Clean(m)'
      <3>1. rows[m] = "platform_mismatch" /\ Files({m}) \cap norm = {} /\ NotInHand(m)
        BY <1>1, <1>3 DEF IInv, Undisturbed, Files
      <3>2. QED
        BY <1>1, <1>3, <3>1 DEF Clean, AcceptedNowhere, Listed, IsProcessed, Rejected
    <2>2. ASSUME NEW m \in Foreign \ conflicts
          PROVE  Clean(m)'
      <3>1. CASE loaded[m] = "rejected_platform_mismatch"
        <4>1. m \in MismatchedIn(loaded)
          BY <1>3, <3>1 DEF MismatchedIn
        <4>2. rows[m] = "platform_mismatch" /\ Files({m}) \cap norm = {}
          BY <1>1, <4>1 DEF IInv, Undisturbed, Files, Writing
        <4>3. QED
          BY <1>1, <1>4, <1>5, <4>2, RestIsClean
      <3>2. CASE loaded[m] # "rejected_platform_mismatch"
        BY <1>1, <1>4, <1>5, <3>2, RestIsClean
      <3>3. QED
        BY <3>1, <3>2
    <2>3. QED
      BY <1>1, <1>4, <2>1, <2>2, AbsentAssumption
  <1>10. QED
    BY <1>6, <1>7, <1>8, <1>9 DEF IInv

\* A repair that fails puts back the checkpoint, the manifest and the catalog.
LEMMA Restores ==
    ASSUME IInv, Restore
    PROVE  IInv'
  <1>1. /\ pc \in Restoring \ {"restore_files"} /\ pc' \in Restoring \ {"restore_checkpoint"}
        /\ UNCHANGED <<norm, cut, processor, processing, killed, active, holders, loaded, conflicts>>
        /\ UNCHANGED <<removed, directory, backup, report, beside, runs>>
    BY DEF Restore, Restoring, repair, products
  <1>2. /\ conflicts \subseteq Foreign /\ Foreign \subseteq Matches /\ loaded \in States
        /\ conflicts = AcceptedIn(loaded) \cap Foreign /\ listed = AcceptedIn(loaded)
        /\ pc # "restore_checkpoint" => status = loaded
        /\ Saved.status = loaded /\ Saved.listed = AcceptedIn(loaded)
    BY <1>1, RepairAssumption
       DEF IInv, StoreTypes, Reconciled, BackedUp, Restoring
  <1>3. listed' = listed /\ status' = loaded
    BY <1>1, <1>2 DEF Restore
  <1>4. \/ rows' = rows /\ pc' # "restore_files"
        \/ rows' = Saved.rows /\ pc = "restore_catalog" /\ pc' = "restore_files"
    BY DEF Restore, products
  <1>5. /\ Saved.rows \in AllRows /\ \A m \in conflicts : Saved.rows[m] \in Done
        /\ \A m \in Foreign \ conflicts : Recoverable(m) \/ Saved.rows[m] \notin Done
        /\ \A m \in Foreign : loaded[m] = "unknown" => Saved.rows[m] \notin Done
    BY <1>1 DEF IInv, BackedUp
  <1>6. \A m \in Foreign \ conflicts : status[m] = loaded[m]
    BY <1>2 DEF IInv, Reconciled, Rejected, Restoring
  <1>7. \A m \in Foreign \ conflicts :
           Clean(m) => Clean(m)' \/ (status[m] # "unknown" /\ Recoverable(m))
    <2>1. \A m : NotInHand(m) <=> NotInHand(m)'
      BY <1>1 DEF NotInHand, processor
    <2>2. QED
      BY <1>1, <1>3, <1>4, <1>5, <1>6, <2>1
         DEF Clean, AcceptedNowhere, Listed, IsProcessed, Done
  <1>8. Sound' /\ UnknownIsClean' /\ \A m : Recoverable(m) <=> Recoverable(m)'
    <2>1. \A m \in conflicts : status'[m] # "unknown"
      BY <1>2, <1>3 DEF AcceptedIn
    <2>2. QED
      BY <1>1, <1>2, <1>3, <1>6, <1>7, <2>1, WritesAreSound
  <1>9. StoreTypes' /\ ProcessorTypes'
    BY <1>1, <1>2, <1>3, <1>4, <1>5
       DEF IInv, StoreTypes, ProcessorTypes, processor, Phases, Restoring
  <1>10. Reconciled'
    BY <1>1, <1>2, <1>3, <1>4, <1>5
       DEF IInv, Reconciled, AcceptedIn, IsProcessed, Done, Copying, Writing, Restoring
  <1>11. BackedUp' /\ Undisturbed' /\ Reported'
    <2>1. BackedUp'
      BY <1>1, <1>8 DEF IInv, BackedUp, AcceptedIn, Saved, Copying, Writing, Restoring
    <2>2. Undisturbed'
      <3>1. \A m : NotInHand(m) <=> NotInHand(m)'
        BY <1>1 DEF NotInHand, processor
      <3>2. QED
        BY <1>1, <3>1 DEF IInv, Undisturbed, Copying, Writing, Restoring
    <2>3. Reported'
      BY <1>1 DEF IInv, Reported, Restoring
    <2>4. QED
      BY <2>1, <2>2, <2>3
  <1>12. QED
    BY <1>8, <1>9, <1>10, <1>11 DEF IInv

\* A file comes back whole or as it was copied.
LEMMA RestoresFile ==
    ASSUME IInv, RestoreFile
    PROVE  IInv'
  <1>1. /\ pc = "restore_files"
        /\ UNCHANGED <<listed, rows, processor, processing, killed, checkpoint, holders, pc>>
        /\ UNCHANGED <<loaded, conflicts, directory, backup, report, beside, runs>>
    BY DEF RestoreFile
  <1>2. PICK file \in removed :
           /\ norm' = norm \cup {file} /\ removed' = removed \ {file}
           /\ cut' = IF file \in Saved.norm THEN cut \ {file} ELSE cut \cup {file}
    BY DEF RestoreFile
  <1>3. /\ conflicts \subseteq Foreign /\ Foreign \subseteq Matches /\ loaded \in States
        /\ conflicts = AcceptedIn(loaded) \cap Foreign /\ status = loaded
        /\ removed \subseteq Files(conflicts) /\ file[1] \in conflicts
        /\ \A m : NotInHand(m) <=> NotInHand(m)'
    BY <1>1, RepairAssumption
       DEF IInv, StoreTypes, Reconciled, NotInHand, processor, Files
  <1>4. StoreTypes' /\ ProcessorTypes'
    BY <1>1, <1>2, <1>3
       DEF IInv, StoreTypes, ProcessorTypes, processor, checkpoint, Files
  <1>5. /\ Sound' /\ UnknownIsClean'
        /\ \A m : Recoverable(m) <=> Recoverable(m)'
    <2>1. \A m \in Foreign \ conflicts : Clean(m) => Clean(m)'
      BY <1>1, <1>2, <1>3 DEF Clean, AcceptedNowhere, Listed, IsProcessed, Files, checkpoint
    <2>2. \A m \in conflicts : status'[m] # "unknown"
      BY <1>1, <1>3 DEF AcceptedIn, checkpoint
    <2>3. QED
      BY <1>1, <1>2, <1>3, <2>1, <2>2, WritesAreSound DEF Restoring, checkpoint
  <1>6. Reconciled'
    BY <1>1, <1>2
       DEF IInv, Reconciled, Rejected, AcceptedIn, IsProcessed, checkpoint, Copying, Writing, Restoring
  <1>7. BackedUp'
    BY <1>1, <1>2, <1>5 DEF IInv, BackedUp, AcceptedIn, Saved, Copying, Writing, Restoring
  <1>8. Undisturbed' /\ Reported'
    BY <1>1, <1>3 DEF IInv, Undisturbed, Reported, Copying, Writing
  <1>9. QED
    BY <1>4, <1>5, <1>6, <1>7, <1>8 DEF IInv

\* With the files back, a failed repair has changed nothing.
LEMMA Fails ==
    ASSUME IInv, FailRepair
    PROVE  /\ IInv'
           /\ status' = loaded /\ listed' = AcceptedIn(loaded)
           /\ \A m \in conflicts : rows'[m] \in Done
           /\ Files(conflicts) \subseteq norm'
           /\ Saved.norm \cap cut' = {}
  <1>1. /\ pc = "restore_files" /\ removed = {} /\ End("failed")
        /\ UNCHANGED <<procVars, checkpoint, backup, runs>>
    BY DEF FailRepair
  <1>2. IInv'
    BY <1>1, Endings DEF CutShort, procVars, products, checkpoint
  <1>3. /\ status = loaded /\ listed = AcceptedIn(loaded)
        /\ \A m \in conflicts : rows[m] \in Done
        /\ Files(conflicts) \subseteq norm /\ Saved.norm \cap cut = {}
    BY <1>1 DEF IInv, Reconciled, BackedUp, Restoring, IsProcessed, Done
  <1>4. QED
    BY <1>1, <1>2, <1>3 DEF procVars, products, checkpoint

\* Every step keeps the invariant.
LEMMA EveryStep ==
    ASSUME IInv, [Next]_vars
    PROVE  IInv'
  <1>1. CASE UNCHANGED vars
    <2>1. UNCHANGED <<procVars, checkpoint, holders, pc, repair, backup, report, beside, runs>>
      BY <1>1 DEF vars, repairVars
    <2>2. /\ ProcessorTypes' /\ Sound' /\ UnknownIsClean'
          /\ \A m : Clean(m) <=> Clean(m)'
          /\ \A m : Recoverable(m) <=> Recoverable(m)'
      BY <2>1, StoresKept DEF checkpoint
    <2>3. StoreTypes' /\ Reported'
      BY <2>1, <2>2
         DEF IInv, StoreTypes, Reported, procVars, products, checkpoint, repair
    <2>4. Reconciled'
      BY <2>1 DEF IInv, Reconciled, Rejected, AcceptedIn, IsProcessed, procVars, products, checkpoint,
                  repair
    <2>5. BackedUp'
      BY <2>1, <2>2 DEF IInv, BackedUp, Saved, AcceptedIn, repair, procVars, products
    <2>6. Undisturbed'
      BY <2>1 DEF IInv, Undisturbed, NotInHand, MismatchedIn, procVars, products, processor, repair
    <2>7. QED
      BY <2>2, <2>3, <2>4, <2>5, <2>6 DEF IInv
  <1>2. CASE ProcessorNext /\ BesideRepair
    BY <1>2, ProcessorSteps, ProcessorKeeps DEF IInv
  <1>3. CASE HolderNext
    BY <1>3, CollectorSteps, Starts, Checks, NothingToRepair, Quits, Copies, Writes, Reports,
       Restores, RestoresFile, Fails DEF HolderNext, Repair
  <1>4. QED
    BY <1>1, <1>2, <1>3 DEF Next

\* A backup directory that does not exist is well typed.
LEMMA NoBackupType == NoBackup \in Backups
  <1>1. {} \in SUBSET Files(Matches) /\ Absent \in States \cup {Absent}
        /\ Absent \in (SUBSET Matches) \cup {Absent} /\ Absent \in AllRows \cup {Absent}
    OBVIOUS
  <1>2. FALSE \in BOOLEAN
    OBVIOUS
  <1>3. QED
    BY <1>1, <1>2, Zenon DEF NoBackup, Backups

\* The invariant holds of every state of every behaviour.
THEOREM Inductive == Spec => []IInv
  <1>1. Init => IInv
    <2> SUFFICES ASSUME Init
                 PROVE  IInv
      OBVIOUS
    <2> USE RepairAssumption, ProcessingAssumption, AbsentAssumption
         DEF Init, InitProcessors, Accepted, AcceptedIn
    <2>1. status \in States /\ rows \in AllRows
      BY DEF States, AllRows, RowStatuses, Settled
    <2>2. StoreTypes
      <3>1. NoBackup \in Backups
        BY NoBackupType
      <3>2. backup \in [Directories -> Backups]
        BY <3>1
      <3>3. norm \subseteq Files(Matches)
        BY DEF Files
      <3>4. active \in BOOLEAN /\ beside \in BOOLEAN
        BY Zenon
      <3>5. /\ listed \subseteq Matches /\ conflicts \subseteq Foreign
            /\ removed \subseteq Files(conflicts)
            /\ pc \in Phases /\ holders \in {{}, {"collector"}, {"repair"}}
            /\ (pc = "idle" <=> holders # {"repair"}) /\ runs \in 0..MaxRuns
        BY DEF Phases
      <3>6. QED
        BY <2>1, <3>2, <3>3, <3>4, <3>5 DEF StoreTypes
    <2>3. ProcessorTypes
      BY DEF ProcessorTypes
    <2>4. \A m \in Foreign : AcceptedThroughout(m) \/ Clean(m)
      BY DEF AcceptedThroughout, Clean, AcceptedNowhere, Listed, NotInHand, IsProcessed, Complete, Files
    <2>5. Sound /\ UnknownIsClean
      <3>1. \A m \in Foreign : status[m] = "unknown" => ~AcceptedThroughout(m)
        BY DEF AcceptedThroughout
      <3>2. QED
        BY <2>1, <2>4, <3>1 DEF Sound, UnknownIsClean
    <2>6. Reconciled /\ BackedUp /\ Undisturbed /\ Reported
      BY DEF Reconciled, BackedUp, Undisturbed, Reported, Copying, Writing, Restoring, NoBackup
    <2>7. QED
      BY <2>2, <2>3, <2>5, <2>6 DEF IInv
  <1>2. IInv /\ [Next]_vars => IInv'
    BY EveryStep
  <1>3. QED
    BY <1>1, <1>2, PTL DEF Spec

-----------------------------------------------------------------------------
\* A set without two elements.
LEMMA AtMostOne ==
    ASSUME NEW S, \A m, n \in S : m = n
    PROVE  Cardinality(S) <= 1
  <1>1. CASE S = {}
    BY <1>1, FS_EmptySet
  <1>2. CASE S # {}
    <2>1. PICK x : S = {x}
      BY <1>2
    <2>2. QED
      BY <2>1, FS_Singleton
  <1>3. QED
    BY <1>1, <1>2

\* RepairTypeOK: the types of the stores, the processors and the repair.
THEOREM TypeSafe == Spec => []RepairTypeOK
  <1>1. IInv => RepairTypeOK
    <2> SUFFICES ASSUME IInv
                 PROVE  RepairTypeOK
      OBVIOUS
    <2>1. holders \subseteq {"collector", "repair"} /\ Cardinality(holders) <= 1
      BY AtMostOne DEF IInv, StoreTypes
    <2>2. (pc = "idle") = ("repair" \notin holders)
      BY DEF IInv, StoreTypes
    <2>3. \A p \in Processors : Cardinality(looked[p] \cup claimed[p]) <= 1
      BY AtMostOne DEF IInv, ProcessorTypes
    <2>4. \A d \in Directories : /\ backup[d].status \in States \cup {Absent}
                                 /\ backup[d].rows \in AllRows \cup {Absent}
      BY DEF IInv, StoreTypes, Backups
    <2>5. active \in BOOLEAN /\ beside \in BOOLEAN
      BY DEF IInv, StoreTypes
    <2>6. QED
      BY <2>1, <2>2, <2>3, <2>4, <2>5 DEF IInv, StoreTypes, ProcessorTypes, RepairTypeOK
  <1>2. QED
    BY <1>1, Inductive, PTL

\* TornIsRecoverable: wherever a repair dies, and whatever processors do, the stores
\* agree on a match or _make_backup has copied all of it.
THEOREM TornSafe == Spec => []TornIsRecoverable
  <1>1. IInv => TornIsRecoverable
    BY DEF IInv, Sound, TornIsRecoverable, Clean, Recoverable
  <1>2. QED
    BY <1>1, Inductive, PTL

\* ReportedRepairHolds: after a reported repair no store counts a match of another
\* platform, unless a processor has worked beside it.
THEOREM ReportSafe == Spec => []ReportedRepairHolds
  <1>1. IInv => ReportedRepairHolds
    BY DEF IInv, Reported, ReportedRepairHolds, Clean
  <1>2. QED
    BY <1>1, Inductive, PTL

\* FailedRepairRestores: _restore_backup leaves the stores as they were.
THEOREM RestoreSafe == Spec => FailedRepairRestores
  <1>1. ASSUME IInv, [Next]_vars
        PROVE  [(report' = "failed" /\ report # "failed") =>
                    /\ status' = loaded
                    /\ listed' = AcceptedIn(loaded)
                    /\ \A m \in conflicts : rows'[m] \in {"processed", "legacy"}
                    /\ Files(conflicts) \subseteq norm'
                    /\ Saved.norm \cap cut' = {}]_vars
    <2>1. CASE FailRepair
      BY <1>1, <2>1, Fails DEF Done
    <2>2. CASE ~FailRepair
      <3>1. report' = report \/ report' # "failed"
        BY <1>1, <2>2
           DEF Next, HolderNext, Repair, BesideRepair, BeginCollecting, Collect, EndCollecting,
               CollectorDies, StartRepair, CheckState, CheckCatalog, CheckFiles, FailCheck, Refuse, End,
               BackUp, BackUpFails, RemoveFile, ReclassifyCatalog, WriteCheckpoint, WriteManifest,
               Raise, Restore, RestoreFile, RepairDies, vars, repairVars
      <3>2. QED
        BY <3>1
    <2>3. QED
      BY <2>1, <2>2
  <1>2. QED
    BY <1>1, Inductive, PTL DEF Spec, FailedRepairRestores

\* OwnCreditKept: under the run lock, what a repair writes back is what it has found.
THEOREM CreditSafe == Spec => OwnCreditKept
  <1>1. ASSUME IInv, [Next]_vars
        PROVE  [(status # Absent /\ status' # Absent) =>
                    \A m \in Accepted \ Foreign : status'[m] = "accepted"]_vars
    <2> SUFFICES ASSUME status # Absent, status' # Absent,
                        NEW m \in Matches \ Foreign, status[m] = "accepted"
                 PROVE  status'[m] = "accepted"
      BY DEF Accepted, AcceptedIn
    <2>1. CASE status' = status
      BY <2>1
    <2>2. ASSUME NEW n \in Matches, Collect(n)
          PROVE  status'[m] = "accepted"
      BY <1>1, <2>2 DEF Collect, IInv, StoreTypes, States
    <2>3. CASE WriteCheckpoint
      <3>1. status = loaded /\ m \notin conflicts
        BY <1>1, <2>3 DEF WriteCheckpoint, IInv, Reconciled, StoreTypes
      <3>2. QED
        BY <2>3, <3>1 DEF WriteCheckpoint
    <2>4. CASE Restore
      <3>1. pc \in Restoring /\ (status' = status \/ status' = Saved.status)
        BY <2>4 DEF Restore, Restoring
      <3>2. Saved.status = loaded /\ m \notin conflicts /\ (status = loaded \/ status = Rejected)
        BY <1>1, <3>1 DEF IInv, BackedUp, Reconciled, StoreTypes, Restoring
      <3>3. QED
        BY <3>1, <3>2 DEF Rejected
    <2>5. CASE RepairDies
      BY <2>5 DEF RepairDies, CutShort
    <2>6. QED
      <3>1. \/ status' = status \/ WriteCheckpoint \/ Restore \/ RepairDies
            \/ \E n \in Matches : Collect(n)
        BY <1>1
           DEF Next, HolderNext, Repair, BesideRepair, BeginCollecting, EndCollecting, CollectorDies,
               StartRepair, CheckState, CheckCatalog, CheckFiles, FailCheck, Refuse, BackUp, BackUpFails,
               RemoveFile, ReclassifyCatalog, WriteManifest, Raise, RestoreFile, FailRepair, checkpoint, vars,
               repairVars
      <3>2. QED
        BY <2>1, <2>2, <2>3, <2>4, <2>5, <3>1
  <1>2. QED
    BY <1>1, Inductive, PTL DEF Spec, OwnCreditKept

\* ProcessedIsFinal: begin_processing and record_rejected leave processed rows alone.
THEOREM FinalSafe == Spec => ProcessedIsFinal
  <1>1. ASSUME IInv, [Next]_vars
        PROVE  [\A m \in Matches : IsProcessed(m) =>
                    \/ rows'[m] \in {"processed", "legacy"}
                    \/ "repair" \in holders /\ pc \in {"removing", "restore_catalog"}]_vars
    <2> SUFFICES ASSUME NEW m \in Matches, IsProcessed(m)
                 PROVE  \/ rows'[m] \in {"processed", "legacy"}
                        \/ "repair" \in holders /\ pc \in {"removing", "restore_catalog"}
      OBVIOUS
    <2>1. CASE rows' = rows
      BY <2>1 DEF IsProcessed
    <2>2. ASSUME NEW n \in Matches, Collect(n)
          PROVE  rows'[m] \in {"processed", "legacy"}
      BY <1>1, <2>2 DEF Collect, IInv, StoreTypes, AllRows, IsProcessed
    <2>3. CASE ReclassifyCatalog
      BY <2>3 DEF ReclassifyCatalog
    <2>4. CASE Restore
      BY <2>4 DEF Restore, products, IsProcessed
    <2>5. CASE ProcessorNext /\ BesideRepair
      BY <1>1, <2>5, ProcessorSteps DEF IInv, Harmless, Done
    <2>6. QED
      <3>1. \/ rows' = rows \/ ReclassifyCatalog \/ Restore \/ (ProcessorNext /\ BesideRepair)
            \/ \E n \in Matches : Collect(n)
        BY <1>1
           DEF Next, HolderNext, Repair, BeginCollecting, EndCollecting, CollectorDies,
               StartRepair, CheckState, CheckCatalog, CheckFiles, FailCheck, Refuse, BackUp, BackUpFails,
               RemoveFile, WriteCheckpoint, WriteManifest, Raise, RestoreFile, FailRepair, RepairDies,
               procVars, products, vars
      <3>2. QED
        BY <2>1, <2>2, <2>3, <2>4, <2>5, <3>1
  <1>2. QED
    BY <1>1, Inductive, PTL DEF Spec, ProcessedIsFinal

=============================================================================
