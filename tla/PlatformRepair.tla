--------------------------- MODULE PlatformRepair ---------------------------
(***************************************************************************)
(* platform_repair.repair_platform_isolation: matches of another platform  *)
(* that an earlier collector accepted are taken out of the checkpoint, the *)
(* manifest, the catalog and the normalized files, in that many writes,    *)
(* after a backup and under the run lock.  It runs beside the processors   *)
(* of SnapshotProcessing, which take no lock, and takes turns with the     *)
(* collector of the run, which does.                                       *)
(***************************************************************************)
EXTENDS SnapshotProcessing

CONSTANTS
    Foreign,         \* matches whose payload is of another platform
    Directories,     \* backup directories the operator may name
    MaxRuns          \* bound: repairs and collections together

ASSUME RepairAssumption ==
    /\ Foreign \subseteq Matches
    /\ Malformed \cap Foreign = {}
    /\ MaxRuns \in Nat

VARIABLES
    status,      \* the checkpoint: status of each match, or Absent when it is torn
    active,      \* its active_request_invocation marker
    holders,     \* who is inside the run lock
    pc,          \* where the repair is
    loaded,      \* the checkpoint as the repair has loaded it, or Absent
    conflicts,   \* accepted_conflicts
    removed,     \* normalized files the repair has removed
    directory,   \* its backup directory, Absent between repairs
    backup,      \* what each backup directory holds
    report,      \* success or failure that the last repair has reported, if any
    beside,      \* whether a processor has worked during that repair
    runs

checkpoint == <<status, active>>
repair == <<loaded, conflicts, removed, directory>>
repairVars == <<checkpoint, holders, pc, repair, backup, report, beside, runs>>
vars == <<procVars, repairVars>>

\* What a backup directory that does not exist yet, and one just made, hold.
NoBackup == [exists |-> FALSE, status |-> Absent, listed |-> Absent, rows |-> Absent,
             norm |-> {}]

AcceptedIn(state) == {m \in Matches : state[m] = "accepted"}
Accepted == AcceptedIn(status)
MismatchedIn(state) == {m \in Matches : state[m] = "rejected_platform_mismatch"}
Files(set) == set \X Parts

\* The stores after any number of finished collections of the collectors of the time.
\* The rows of matches of the platform may be older than the patch columns, or missing
\* from the catalog the operator names.
Init == /\ InitProcessors
        /\ status \in [Matches -> {"unknown", "accepted"}]
        /\ listed = Accepted
        /\ rows \in [Matches -> {"absent", "legacy", "processed"}]
        /\ \A m \in Matches : /\ m \notin Accepted => rows[m] = "absent"
                              /\ m \in Accepted \cap Foreign => rows[m] = "processed"
        /\ norm = Files({m \in Matches : IsProcessed(m)})
        /\ cut = {}
        /\ active = FALSE
        /\ holders = {}
        /\ pc = "idle"
        /\ loaded = Absent
        /\ conflicts = {}
        /\ removed = {}
        /\ directory = Absent
        /\ backup = [d \in Directories |-> NoBackup]
        /\ report = "none"
        /\ beside = FALSE
        /\ runs = 0

-----------------------------------------------------------------------------
(* The run lock: an SQLite exclusive transaction, which ends with the      *)
(* process that holds it.                                                  *)

\* Mutant of Lock: the lock is not taken.
LockNothing(who) == /\ who \notin holders
                    /\ holders' = holders \cup {who}

Lock(who) == /\ holders = {}
             /\ holders' = {who}

Unlock(who) == holders' = holders \ {who}

-----------------------------------------------------------------------------
(* The collector, reduced to what it leaves in the stores of the repair.   *)

BeginCollecting ==
    /\ runs < MaxRuns
    /\ Lock("collector")
    /\ status # Absent
    /\ active' = TRUE
    /\ runs' = runs + 1
    /\ UNCHANGED <<procVars, status, pc, repair, backup, report, beside>>

\* A payload of the run's platform is normalized, recorded and accepted; one of another
\* platform is recorded as rejected.
Collect(m) ==
    /\ "collector" \in holders
    /\ status # Absent
    /\ status[m] = "unknown"
    /\ m \notin Malformed
    /\ IF m \in Foreign
       THEN /\ status' = [status EXCEPT ![m] = "rejected_platform_mismatch"]
            /\ rows' = [rows EXCEPT ![m] = IF IsProcessed(m) THEN @ ELSE "platform_mismatch"]
            /\ UNCHANGED <<norm, cut>>
       ELSE /\ status' = [status EXCEPT ![m] = "accepted"]
            /\ rows' = [rows EXCEPT ![m] = "processed"]
            /\ norm' = norm \cup Files({m})
            /\ cut' = cut \ Files({m})
    /\ UNCHANGED <<listed, processor, processing, killed, active, holders, pc, repair, backup,
                   report, beside, runs>>

\* The manifest is written and the marker cleared.
EndCollecting ==
    /\ "collector" \in holders
    /\ status # Absent
    /\ listed' = Accepted
    /\ active' = FALSE
    /\ Unlock("collector")
    /\ UNCHANGED <<products, processor, processing, killed, status, pc, repair, backup, report,
                   beside, runs>>

-----------------------------------------------------------------------------
(* The repair: validation.                                                 *)

End(how) == /\ Unlock("repair")
            /\ pc' = "idle"
            /\ report' = how
            /\ loaded' = Absent
            /\ conflicts' = {}
            /\ removed' = {}
            /\ directory' = Absent
            /\ beside' = (beside /\ how = "repaired")

\* Any check that fails raises before anything is written.
Refuse == /\ "repair" \in holders
          /\ End("none")
          /\ UNCHANGED <<procVars, checkpoint, backup, runs>>

StartRepair ==
    /\ runs < MaxRuns
    /\ Lock("repair")
    /\ pc' = "loading"
    /\ runs' = runs + 1
    /\ directory' \in Directories
    /\ report' = "none"
    /\ beside' = (\E p \in Processors : ~Idle(p))
    /\ UNCHANGED <<procVars, checkpoint, loaded, conflicts, removed, backup>>

\* Mutant of StateReconciles: the manifest is not compared with the checkpoint.
StateReconcilesAlone == status # Absent /\ ~active

\* The checkpoint is readable and at rest, and the manifest lists what it accepts.
StateReconciles == status # Absent /\ ~active /\ listed = Accepted

CheckState ==
    /\ "repair" \in holders
    /\ pc = "loading"
    /\ StateReconciles
    /\ loaded' = status
    /\ conflicts' = Accepted \cap Foreign
    /\ pc' = "catalog"
    /\ UNCHANGED <<procVars, checkpoint, holders, removed, directory, backup, report, beside, runs>>

CatalogReconciles == /\ \A m \in conflicts : IsProcessed(m)
                     /\ \A m \in MismatchedIn(loaded) : rows[m] = "platform_mismatch"

CheckCatalog ==
    /\ "repair" \in holders
    /\ pc = "catalog"
    /\ CatalogReconciles
    /\ pc' = "files"
    /\ UNCHANGED <<procVars, checkpoint, holders, repair, backup, report, beside, runs>>

FilesReconcile == /\ Files(conflicts) \subseteq norm
                  /\ Files(MismatchedIn(loaded)) \cap norm = {}

\* With the normalized files checked, a repair that only validates or has nothing to
\* repair is done.
CheckFiles ==
    /\ "repair" \in holders
    /\ pc = "files"
    /\ FilesReconcile
    /\ \/ /\ End(IF conflicts = {} THEN "repaired" ELSE "none")
          /\ UNCHANGED <<procVars, checkpoint, backup, runs>>
       \/ /\ conflicts # {}
          /\ ~backup[directory].exists
          /\ pc' = "mkdir"
          /\ UNCHANGED <<procVars, checkpoint, holders, repair, backup, report, beside, runs>>

\* The mismatch count, the payloads, or one of the stores is not as expected, or the
\* backup directory exists.
FailCheck == /\ pc \in {"loading", "catalog", "files"}
             /\ Refuse

-----------------------------------------------------------------------------
(* The repair: backup, writes, and restore.                                *)

Store(field, value) == backup' = [backup EXCEPT ![directory][field] = value]

\* Mutant of BackUp: the files are removed without a copy.
BackUpButFiles ==
    /\ "repair" \in holders
    /\ \/ pc = "mkdir" /\ Store("exists", TRUE) /\ pc' = "copy_checkpoint"
       \/ pc = "copy_checkpoint" /\ Store("status", status) /\ pc' = "copy_manifest"
       \/ pc = "copy_manifest" /\ Store("listed", listed) /\ pc' = "copy_catalog"
       \/ pc = "copy_catalog" /\ Store("rows", rows) /\ pc' = "removing"
    /\ UNCHANGED <<procVars, checkpoint, holders, repair, report, beside, runs>>

BackUp ==
    /\ "repair" \in holders
    /\ \/ pc = "mkdir" /\ Store("exists", TRUE) /\ pc' = "copy_checkpoint"
       \/ pc = "copy_checkpoint" /\ Store("status", status) /\ pc' = "copy_manifest"
       \/ pc = "copy_manifest" /\ Store("listed", listed) /\ pc' = "copy_catalog"
       \/ pc = "copy_catalog" /\ Store("rows", rows) /\ pc' = "copy_files"
       \/ pc = "copy_files" /\ Store("norm", Files(conflicts) \ cut) /\ pc' = "removing"
    /\ UNCHANGED <<procVars, checkpoint, holders, repair, report, beside, runs>>

\* A backup that fails leaves its directory behind and the stores alone.
BackUpFails == /\ pc \in {"mkdir", "copy_checkpoint", "copy_manifest", "copy_catalog", "copy_files"}
               /\ Refuse

RemoveFile ==
    /\ "repair" \in holders
    /\ pc = "removing"
    /\ \E file \in Files(conflicts) \cap norm :
          /\ \A part \in 1..(file[2] - 1) : <<file[1], part>> \in removed
          /\ norm' = norm \ {file}
          /\ cut' = cut \ {file}
          /\ removed' = removed \cup {file}
    /\ UNCHANGED <<listed, rows, processor, processing, killed, checkpoint, holders, pc,
                   loaded, conflicts, directory, backup, report, beside, runs>>

\* One transaction, which is rolled back unless every row was processed.
ReclassifyCatalog ==
    /\ "repair" \in holders
    /\ pc = "removing"
    /\ removed = Files(conflicts)
    /\ \A m \in conflicts : IsProcessed(m)
    /\ rows' = [m \in Matches |-> IF m \in conflicts THEN "platform_mismatch" ELSE rows[m]]
    /\ pc' = "checkpoint"
    /\ UNCHANGED <<listed, norm, cut, processor, processing, killed, checkpoint, holders, repair,
                   backup, report, beside, runs>>

WriteCheckpoint ==
    /\ "repair" \in holders
    /\ pc = "checkpoint"
    /\ status' = [m \in Matches |-> IF m \in conflicts THEN "rejected_platform_mismatch"
                                                      ELSE loaded[m]]
    /\ pc' = "manifest"
    /\ UNCHANGED <<procVars, active, holders, repair, backup, report, beside, runs>>

WriteManifest ==
    /\ "repair" \in holders
    /\ pc = "manifest"
    /\ listed' = AcceptedIn(loaded) \ conflicts
    /\ End("repaired")
    /\ UNCHANGED <<products, processor, processing, killed, checkpoint, backup, runs>>

\* Any of the writes raises: everything is copied back.
Raise ==
    /\ "repair" \in holders
    /\ pc \in {"removing", "checkpoint", "manifest"}
    /\ pc' = "restore_checkpoint"
    /\ UNCHANGED <<procVars, checkpoint, holders, repair, backup, report, beside, runs>>

Saved == backup[directory]

\* Mutant of Restore: the catalog is left as it is.
RestoreButCatalog ==
    /\ "repair" \in holders
    /\ \/ pc = "restore_checkpoint" /\ status' = Saved.status /\ pc' = "restore_manifest"
          /\ UNCHANGED <<listed, products>>
       \/ pc = "restore_manifest" /\ listed' = Saved.listed /\ pc' = "restore_files"
          /\ UNCHANGED <<status, products>>
    /\ UNCHANGED <<processor, processing, killed, active, holders, repair, backup, report, beside, runs>>

\* The whole catalog comes back, with the rows that a processor has written since.
Restore ==
    /\ "repair" \in holders
    /\ \/ pc = "restore_checkpoint" /\ status' = Saved.status /\ pc' = "restore_manifest"
          /\ UNCHANGED <<listed, products>>
       \/ pc = "restore_manifest" /\ listed' = Saved.listed /\ pc' = "restore_catalog"
          /\ UNCHANGED <<status, products>>
       \/ pc = "restore_catalog" /\ rows' = Saved.rows /\ pc' = "restore_files"
          /\ UNCHANGED <<status, listed, norm, cut>>
    /\ UNCHANGED <<processor, processing, killed, active, holders, repair, backup, report, beside, runs>>

\* The removed file that is copied back next.
NextRemoved(file) == /\ file \in removed
                     /\ \A part \in 1..(file[2] - 1) : <<file[1], part>> \notin removed

\* A copy of a file that had been cut short is as short.
RestoreFile ==
    /\ "repair" \in holders
    /\ pc = "restore_files"
    /\ \E file \in removed :
          /\ NextRemoved(file)
          /\ norm' = norm \cup {file}
          /\ cut' = IF file \in Saved.norm THEN cut \ {file} ELSE cut \cup {file}
          /\ removed' = removed \ {file}
    /\ UNCHANGED <<listed, rows, processor, processing, killed, checkpoint, holders, pc,
                   loaded, conflicts, directory, backup, report, beside, runs>>

FailRepair ==
    /\ "repair" \in holders
    /\ pc = "restore_files"
    /\ removed = {}
    /\ End("failed")
    /\ UNCHANGED <<procVars, checkpoint, backup, runs>>

-----------------------------------------------------------------------------
\* A copy that a crash or an error cuts short leaves a torn file behind.
CutShort ==
    \/ UNCHANGED <<status, listed, norm, cut>>
    \/ pc = "restore_checkpoint" /\ status' = Absent /\ UNCHANGED <<listed, norm, cut>>
    \/ pc = "restore_manifest" /\ listed' = Absent /\ UNCHANGED <<status, norm, cut>>
    \/ /\ pc = "restore_files"
       /\ \E file \in removed : /\ NextRemoved(file)
                               /\ norm' = norm \cup {file}
                               /\ cut' = cut \cup {file}
       /\ UNCHANGED <<status, listed>>

\* The repair dies or its restore fails; the lock goes with it.
RepairDies ==
    /\ "repair" \in holders
    /\ CutShort
    /\ End("none")
    /\ UNCHANGED <<rows, processor, processing, killed, active, backup, runs>>

CollectorDies ==
    /\ "collector" \in holders
    /\ Unlock("collector")
    /\ UNCHANGED <<procVars, checkpoint, pc, repair, backup, report, beside, runs>>

Repair == \/ CheckState \/ CheckCatalog \/ CheckFiles \/ FailCheck
          \/ BackUp \/ BackUpFails
          \/ RemoveFile \/ ReclassifyCatalog \/ WriteCheckpoint \/ WriteManifest
          \/ Raise \/ Restore \/ RestoreFile \/ FailRepair

HolderNext == \/ BeginCollecting \/ (\E m \in Matches : Collect(m)) \/ EndCollecting
              \/ CollectorDies \/ StartRepair \/ Repair \/ RepairDies

BesideRepair == /\ beside' = (beside \/ "repair" \in holders)
                /\ UNCHANGED <<checkpoint, holders, pc, repair, backup, report, runs>>

Next == HolderNext \/ (ProcessorNext /\ BesideRepair)

\* A processor that has started goes on until it is done or killed.
Spec == /\ Init /\ [][Next]_vars
        /\ \A p \in Processors : WF_vars(Process(p) /\ BesideRepair)
-----------------------------------------------------------------------------
(* Properties.                                                             *)

Phases == {"idle", "loading", "catalog", "files", "mkdir", "copy_checkpoint", "copy_manifest",
           "copy_catalog", "copy_files", "removing", "checkpoint", "manifest",
           "restore_checkpoint", "restore_manifest", "restore_catalog", "restore_files"}
States == [Matches -> {"unknown", "accepted", "rejected_platform_mismatch"}]
AllRows == [Matches -> RowStatuses]

\* Absent is none of the values that a store can have.
ASSUME AbsentAssumption ==
    /\ Absent \notin States \cup AllRows
    /\ \A set \in SUBSET Matches : Absent # set

\* The type invariant of the stores, the processors and the repair.
RepairTypeOK ==
    /\ listed \in (SUBSET Matches) \cup {Absent} /\ rows \in AllRows
    /\ norm \subseteq Files(Matches) /\ cut \subseteq norm
    /\ todo \in [Processors -> SUBSET Matches]
    /\ \A p \in Processors : /\ looked[p] \subseteq Matches /\ claimed[p] \subseteq Matches
                             /\ Cardinality(looked[p] \cup claimed[p]) <= 1
                             /\ written[p] \subseteq Parts
    /\ killed \subseteq Processors /\ processing \in 0..MaxProcessing
    /\ status \in States \cup {Absent} /\ active \in BOOLEAN
    /\ holders \subseteq {"collector", "repair"} /\ Cardinality(holders) <= 1
    /\ pc \in Phases /\ (pc = "idle") = ("repair" \notin holders)
    /\ loaded \in States \cup {Absent}
    /\ conflicts \subseteq Foreign /\ removed \subseteq Files(conflicts)
    /\ directory \in Directories \cup {Absent}
    /\ \A d \in Directories : /\ backup[d].status \in States \cup {Absent}
                              /\ backup[d].rows \in AllRows \cup {Absent}
    /\ report \in {"none", "repaired", "failed"}
    /\ beside \in BOOLEAN /\ runs \in 0..MaxRuns

\* What the stores say of a match when it is accepted throughout, or not at all.
Listed(m) == listed # Absent /\ m \in listed
AcceptedThroughout(m) == status[m] = "accepted" /\ Listed(m) /\ IsProcessed(m) /\ Complete(m)
AcceptedNowhere(m) ==
    status[m] # "accepted" /\ ~Listed(m) /\ ~IsProcessed(m) /\ Files({m}) \cap norm = {}

Whole(saved, m) == /\ saved.status # Absent /\ saved.listed # Absent /\ saved.rows # Absent
                   /\ saved.status[m] = "accepted" /\ m \in saved.listed
                   /\ saved.rows[m] \in {"processed", "legacy"}
                   /\ Files({m}) \subseteq saved.norm

\* A repair that dies, fails to restore, or is undone by a processor may leave the stores
\* in disagreement about a match of another platform, or a file of it, the checkpoint or
\* the manifest cut short, and no code puts that right: the state before it is then whole
\* in a backup directory, from which the operator can (_make_backup before the first
\* unlink, lines 238-256), even when a later repair has backed up the file cut short.
TornIsRecoverable ==
    /\ Absent \in {status, listed} =>
          \E d \in Directories, m \in Foreign : Whole(backup[d], m)
    /\ status # Absent =>
          \A m \in Foreign : \/ AcceptedThroughout(m) \/ AcceptedNowhere(m)
                             \/ \E d \in Directories : Whole(backup[d], m)

\* stores_reconciled and already-repaired: when a repair has reported success, and no
\* processor has worked during it, no store counts a match of another platform, whatever
\* crashes and failed repairs came before it.
ReportedRepairHolds ==
    (report = "repaired" /\ ~beside) => \A m \in Foreign : AcceptedNowhere(m)

\* A repair that fails has put the four stores back as they were when it was started:
\* nothing of the half-made repair is left, no file is shorter than its copy, whatever
\* processors did meanwhile (_restore_backup, lines 254-262, 570-588).
FailedRepairRestores ==
    [][(report' = "failed" /\ report # "failed") =>
            /\ status' = loaded
            /\ listed' = AcceptedIn(loaded)
            /\ \A m \in conflicts : rows'[m] \in {"processed", "legacy"}
            /\ Files(conflicts) \subseteq norm'
            /\ Saved.norm \cap cut' = {}]_vars

\* A match of the run's own platform keeps its credit through every interleaving of
\* collections and repairs: a repair writes back the checkpoint it has loaded, or copied,
\* and would take away what a collector had accepted since, but for the run lock.
OwnCreditKept ==
    [][(status # Absent /\ status' # Absent) =>
            \A m \in Accepted \ Foreign : status'[m] = "accepted"]_vars

\* A processed row is final: whatever processors race on a match, and whichever of them
\* fails on it, only a repair takes the row back (begin_processing and record_rejected
\* leave processed rows alone, catalog.py lines 37-64, 117-171).
ProcessedIsFinal ==
    [][\A m \in Matches : IsProcessed(m) =>
            \/ rows'[m] \in {"processed", "legacy"}
            \/ "repair" \in holders /\ pc \in {"removing", "restore_catalog"}]_vars

\* An invocation of process_snapshots that is not killed settles every match it has read
\* from the manifest, a match that a killed invocation left in 'processing' included.
EveryMatchIsSettled ==
    \A p \in Processors, m \in Matches :
        (m \in todo[p]) ~> (rows[m] \in Settled \/ p \in killed)
=============================================================================
