------------------------- MODULE SnapshotProcessing -------------------------
(***************************************************************************)
(* The raw snapshot of one population run, the normalized files and the    *)
(* processing catalog (catalog.py, storage.py), and the processes of       *)
(* scripts/process_snapshots.py that turn the first into the others        *)
(* (processing.SnapshotProcessor).  They take no lock: several may run at  *)
(* once, beside a collector or a repair of the same run.                   *)
(***************************************************************************)
EXTENDS Naturals, FiniteSets

CONSTANTS
    Matches,         \* match IDs with a raw payload
    Malformed,       \* those whose payload fails validation or normalization
    NumParts,        \* how many normalized files one match has
    Processors,      \* processes of the command
    Absent,          \* "no value", and what is read of a file that is cut short
    MaxProcessing    \* bound: invocations of the command

ASSUME ProcessingAssumption ==
    /\ Malformed \subseteq Matches
    /\ IsFiniteSet(Matches)
    /\ NumParts \in Nat \ {0}
    /\ MaxProcessing \in Nat

VARIABLES
    listed,      \* match_files of the snapshot's manifest, or Absent when it is torn
    norm,        \* normalized files: pairs of a match and a part
    cut,         \* those of them that a copy has left incomplete
    rows,        \* processed_matches: status of each match
    todo,        \* matches a processor has still to look at
    looked,      \* the match it has found to need processing, as a set
    claimed,     \* the match it has claimed, as a set
    written,     \* the parts of it that are written
    processing,  \* invocations so far
    killed       \* processors whose last invocation died

products == <<norm, cut, rows>>
processor == <<todo, looked, claimed, written>>
procVars == <<listed, products, processor, processing, killed>>

\* "legacy" is a processed row without a resolved patch, "platform_mismatch" a row
\* rejected with that code.
Settled == {"processed", "legacy", "rejected", "platform_mismatch"}
RowStatuses == Settled \cup {"absent", "processing"}

Parts == 1..NumParts

Complete(m) == \A part \in Parts : <<m, part>> \in norm \ cut

\* is_processed.
IsProcessed(m) == rows[m] \in {"processed", "legacy"}

Idle(p) == todo[p] = {} /\ looked[p] = {} /\ claimed[p] = {}

InitProcessors == /\ todo = [p \in Processors |-> {}]
                  /\ looked = [p \in Processors |-> {}]
                  /\ claimed = [p \in Processors |-> {}]
                  /\ written = [p \in Processors |-> {}]
                  /\ processing = 0
                  /\ killed = {}

-----------------------------------------------------------------------------
\* An invocation reads the list of the manifest once, and ends when it cannot.
StartProcessing(p) ==
    /\ Idle(p)
    /\ processing < MaxProcessing
    /\ listed \notin {Absent, {}}
    /\ processing' = processing + 1
    /\ todo' = [todo EXCEPT ![p] = listed]
    /\ killed' = killed \ {p}
    /\ UNCHANGED <<listed, products, looked, claimed, written>>

AtLoopHead(p) == looked[p] = {} /\ claimed[p] = {}

\* A processed match is left alone, unless it is legacy and --migrate-stage1 is given.
SkipProcessed(p) ==
    /\ AtLoopHead(p)
    /\ \E m \in todo[p] : /\ IsProcessed(m)
                          /\ todo' = [todo EXCEPT ![p] = @ \ {m}]
    /\ UNCHANGED <<listed, products, looked, claimed, written, processing, killed>>

\* Mutant of NeedsProcessing: a match that somebody has claimed is left to them.
NeedsProcessingUnclaimed(m) == rows[m] \notin {"processed", "processing"}

\* Every match that is not processed, the ones another invocation has claimed included.
NeedsProcessing(m) == rows[m] # "processed"

Look(p) ==
    /\ AtLoopHead(p)
    /\ \E m \in todo[p] : /\ NeedsProcessing(m)
                          /\ looked' = [looked EXCEPT ![p] = {m}]
                          /\ todo' = [todo EXCEPT ![p] = @ \ {m}]
    /\ UNCHANGED <<listed, products, claimed, written, processing, killed>>

\* Mutant of ClaimRow: the claim takes a processed row as well.
ClaimAnyRow(m) == rows' = [rows EXCEPT ![m] = "processing"]

\* begin_processing leaves the status of a processed row.
ClaimRow(m) == rows' = [rows EXCEPT ![m] = IF IsProcessed(m) THEN @ ELSE "processing"]

\* begin_processing commits after is_processed was asked: another process may have
\* recorded the match in between.
Claim(p) ==
    /\ \E m \in looked[p] : ClaimRow(m)
    /\ claimed' = [claimed EXCEPT ![p] = looked[p]]
    /\ looked' = [looked EXCEPT ![p] = {}]
    /\ UNCHANGED <<listed, norm, cut, todo, written, processing, killed>>

\* write_normalized_batch replaces one file after the other.
WritePart(p) ==
    /\ \E m \in claimed[p] \ Malformed, part \in Parts :
          /\ part = Cardinality(written[p]) + 1
          /\ norm' = norm \cup {<<m, part>>}
          /\ cut' = cut \ {<<m, part>>}
          /\ written' = [written EXCEPT ![p] = @ \cup {part}]
    /\ UNCHANGED <<listed, rows, todo, looked, claimed, processing, killed>>

Release(p) == /\ claimed' = [claimed EXCEPT ![p] = {}]
              /\ written' = [written EXCEPT ![p] = {}]

RecordDone(p) ==
    /\ written[p] = Parts
    /\ \E m \in claimed[p] : rows' = [rows EXCEPT ![m] = "processed"]
    /\ Release(p)
    /\ UNCHANGED <<listed, norm, cut, todo, looked, processing, killed>>

\* Mutant of RejectRow: a rejection overwrites whatever the row says.
RejectAnyRow(m) == rows' = [rows EXCEPT ![m] = "rejected"]

\* record_rejected never touches a processed row.
RejectRow(m) == rows' = [rows EXCEPT ![m] = IF IsProcessed(m) THEN @ ELSE "rejected"]

\* A malformed payload, or an OSError while its files are written.
RejectMatch(p) ==
    /\ \E m \in claimed[p] : /\ m \in Malformed \/ written[p] # Parts
                             /\ RejectRow(m)
    /\ Release(p)
    /\ UNCHANGED <<listed, norm, cut, todo, looked, processing, killed>>

\* The process dies, or the catalog fails under it.
ProcessorDies(p) ==
    /\ ~Idle(p)
    /\ killed' = killed \cup {p}
    /\ todo' = [todo EXCEPT ![p] = {}]
    /\ looked' = [looked EXCEPT ![p] = {}]
    /\ Release(p)
    /\ UNCHANGED <<listed, products, processing>>

Process(p) == \/ SkipProcessed(p) \/ Look(p) \/ Claim(p) \/ WritePart(p)
              \/ RecordDone(p) \/ RejectMatch(p)

ProcessorNext == \E p \in Processors :
                    StartProcessing(p) \/ Process(p) \/ ProcessorDies(p)
=============================================================================
