--------------------------- MODULE StagePublication ---------------------------
(***************************************************************************)
(* How the offline stages read each other's directories and publish their  *)
(* own: every stage hashes its inputs, reads them, compares what it would  *)
(* record with what its directory records already, and moves a staged      *)
(* directory into place.  No lock is taken.  Invocations interleave at     *)
(* every access of the disk and may be killed between any two.             *)
(*                                                                         *)
(* A published directory is a record of the rows, which depend on the      *)
(* rows read, and of the inputs whose hashes its metadata names.  Hashes   *)
(* do not collide, so the hash of a directory is the directory.            *)
(***************************************************************************)
EXTENDS Sequences, Naturals

CONSTANTS
    Publishers,      \* processes that may run at the same time
    MaxVersion,      \* bound: versions of the approved population of one run
    MaxInvocations,  \* bound: invocations of stages
    MaxCrashes       \* bound: invocations that are killed

ASSUME PublicationAssumption ==
    MaxVersion \in Nat /\ MaxInvocations \in Nat /\ MaxCrashes \in Nat

VARIABLES
    population,   \* the version of the population the collector has approved
    target,       \* the published directories that are there
    previous,     \* the .previous directories that are there
    pc,           \* what each process does next
    stage,        \* the stage it runs
    load,         \* the inputs it has yet to load, the hashes and the rows it has
    invocations,  \* bound counter
    crashes,      \* bound counter
    beside,       \* history: pairs of stages that were at work at the same time
    torn          \* history: stages killed between their two replacements

disk == <<target, previous>>
bounds == <<invocations, crashes>>
vars == <<population, target, previous, pc, stage, load, invocations, crashes, beside, torn>>

\* The inputs of a stage in the order it loads them.
InputsOf ==
    [canonical |-> <<>>, features |-> <<"canonical">>, drafts |-> <<"canonical", "features">>,
     aggregates |-> <<"drafts">>, backtest |-> <<"drafts">>, topLane |-> <<"canonical">>]
Stages == DOMAIN InputsOf
Replaceable == {"canonical", "features", "drafts", "aggregates"}

Directory(rows, inputs) == [rows |-> rows, inputs |-> inputs]
Sealed == Directory(1, <<>>)    \* the canonical directory the 3.5A configuration pins

Put(f, d, content) == [x \in DOMAIN f \cup {d} |-> IF x = d THEN content ELSE f[x]]
Without(f, d) == [x \in DOMAIN f \ {d} |-> f[x]]

Busy(p) == pc[p] # "idle"

Init == /\ population = 1
        /\ target = <<>> /\ previous = <<>>
        /\ pc = [p \in Publishers |-> "idle"] /\ stage = [p \in Publishers |-> "none"]
        /\ load = [p \in Publishers |-> <<>>]
        /\ invocations = 0 /\ crashes = 0 /\ beside = {} /\ torn = {}

\* A step of an invocation, and its last one.
Goes(p, next) ==
    /\ pc' = [pc EXCEPT ![p] = next]
    /\ UNCHANGED <<population, stage, bounds, beside, torn>>
Ends(p) ==
    /\ pc' = [pc EXCEPT ![p] = "idle"] /\ stage' = [stage EXCEPT ![p] = "none"]
    /\ load' = [load EXCEPT ![p] = <<>>]
Leaves(p) == Ends(p) /\ UNCHANGED <<population, bounds, beside, torn>>

-----------------------------------------------------------------------------
\* The collector resumes the run with a larger target.
PopulationGrows ==
    /\ population < MaxVersion
    /\ population' = population + 1
    /\ UNCHANGED <<disk, pc, stage, load, bounds, beside, torn>>

\* Stage 3.1 builds its rows from the approved payloads; the others load their inputs.
Start(p, s) ==
    /\ ~Busy(p) /\ invocations < MaxInvocations
    /\ invocations' = invocations + 1
    /\ pc' = [pc EXCEPT ![p] = IF s = "canonical" THEN "compare" ELSE "hash"]
    /\ stage' = [stage EXCEPT ![p] = s]
    /\ load' = [load EXCEPT ![p] =
          [todo |-> InputsOf[s], hashed |-> <<>>,
           read |-> IF s = "canonical" THEN population ELSE <<>>]]
    /\ beside' = beside \cup UNION {{<<s, stage[q]>>, <<stage[q], s>>} :
                                       q \in {r \in Publishers \ {p} : Busy(r)}}
    /\ UNCHANGED <<population, disk, crashes, torn>>

\* load_stage3_1_input, load_stage3_2_input, load_stage3_3a_input: every file is hashed
\* first.  Stage 3.5A compares the hashes with the pinned ones.
Hashable(p, i) ==
    /\ i \in DOMAIN target
    /\ stage[p] = "topLane" => target[i] = Sealed
HashInput(p) ==
    LET i == Head(load[p].todo) IN
    /\ pc[p] = "hash" /\ Hashable(p, i)
    /\ load' = [load EXCEPT ![p].hashed = Put(@, i, target[i])]
    /\ Goes(p, IF i = "drafts" THEN "verify" ELSE "read") /\ UNCHANGED disk

\* The metadata of 3.3A is read after the hashes: its row files must have the hashes
\* it records, and so must the directories it was made from.
PriorsVerified(hashed) ==
    LET now == target["drafts"] IN
    /\ "drafts" \in DOMAIN target /\ now.rows = hashed.rows
    /\ \A i \in DOMAIN now.inputs : i \in DOMAIN target /\ target[i] = now.inputs[i]
VerifyPriors(p) ==
    /\ pc[p] = "verify" /\ PriorsVerified(load[p].hashed["drafts"])
    /\ Goes(p, "read") /\ UNCHANGED <<disk, load>>

\* The metadata and the rows are read again.  Stage 3.3A takes Stage 3.2 only with the
\* Stage 3.1 hashes it has just computed.
Readable(p, i) ==
    /\ i \in DOMAIN target
    /\ i = "features" => target[i].inputs["canonical"] = load[p].hashed["canonical"]
ReadInput(p) ==
    LET i == Head(load[p].todo)  rest == Tail(load[p].todo) IN
    /\ pc[p] = "read" /\ Readable(p, i)
    /\ load' = [load EXCEPT ![p].read = Put(@, i, target[i].rows), ![p].todo = rest]
    /\ Goes(p, IF rest = <<>> THEN "lineage" ELSE "hash") /\ UNCHANGED disk

\* A mistake that looks at the stage of the metadata and not at its hashes.
SameStage(p) == stage[p] \in DOMAIN target => stage[p] \in Stages

\* _validate_existing_output_lineage: a directory that is there records the same inputs.
SameLineage(p) ==
    stage[p] \in DOMAIN target /\ stage[p] # "topLane"
        => target[stage[p]].inputs = load[p].hashed
CheckLineage(p) ==
    /\ pc[p] = "lineage" /\ SameLineage(p)
    /\ Goes(p, IF stage[p] = "topLane" THEN "publishPrivate" ELSE "compare")
    /\ UNCHANGED <<disk, load>>

\* The same steps where a test fails: the stage ends with an error and changes nothing.
Refuse(p) ==
    /\ \/ pc[p] = "hash" /\ ~Hashable(p, Head(load[p].todo))
       \/ pc[p] = "verify" /\ ~PriorsVerified(load[p].hashed["drafts"])
       \/ pc[p] = "read" /\ ~Readable(p, Head(load[p].todo))
       \/ pc[p] = "lineage" /\ ~SameLineage(p)
    /\ Leaves(p) /\ UNCHANGED disk

-----------------------------------------------------------------------------
\* What the process has staged, in a directory of its own.
Staged(p) == Directory(load[p].read, load[p].hashed)

\* _directories_equal with the published directory: nothing to do.
Unchanged(p) ==
    /\ pc[p] = "compare" /\ stage[p] \in DOMAIN target /\ target[stage[p]] = Staged(p)
    /\ Leaves(p) /\ UNCHANGED disk

Differs(p) ==
    /\ pc[p] = "compare"
    /\ stage[p] \in DOMAIN target => target[stage[p]] # Staged(p)
    /\ UNCHANGED disk
    /\ \/ stage[p] \in Replaceable /\ Goes(p, "retire") /\ UNCHANGED load
       \/ stage[p] \notin Replaceable \cup DOMAIN target /\ Goes(p, "place") /\ UNCHANGED load
       \/ stage[p] \in DOMAIN target \ Replaceable /\ Leaves(p)    \* immutable

\* A mistake that removes the published directory to make room.
RetireForGood(p) ==
    /\ pc[p] = "retire" /\ UNCHANGED load /\ Goes(p, "place")
    /\ target' = Without(target, stage[p]) /\ UNCHANGED previous

\* An old .previous directory goes before the published one takes its name.
Retire(p) ==
    /\ pc[p] = "retire" /\ UNCHANGED <<target, load>>
    /\ \/ stage[p] \in DOMAIN target /\ Goes(p, "moveAside")
          /\ previous' = Without(previous, stage[p])
       \/ stage[p] \notin DOMAIN target /\ Goes(p, "place") /\ UNCHANGED previous

\* os.replace moves a directory only where none is, and fails when there is nothing
\* to move.
MoveAside(p) ==
    LET s == stage[p]  movable == s \in DOMAIN target \ DOMAIN previous IN
    /\ pc[p] = "moveAside"
    /\ \/ movable /\ Goes(p, "placeOver") /\ UNCHANGED load
          /\ previous' = Put(previous, s, target[s]) /\ target' = Without(target, s)
       \/ ~movable /\ Leaves(p) /\ UNCHANGED disk

PlaceOver(p) ==
    /\ pc[p] = "placeOver" /\ stage[p] \notin DOMAIN target
    /\ target' = Put(target, stage[p], Staged(p))
    /\ Goes(p, "discard") /\ UNCHANGED <<previous, load>>

\* The second replacement fails: the old directory is moved back, if its place is free.
PlaceFails(p) ==
    LET s == stage[p]  back == s \in DOMAIN previous \ DOMAIN target IN
    /\ pc[p] = "placeOver" /\ Leaves(p)
    /\ \/ back /\ target' = Put(target, s, previous[s]) /\ previous' = Without(previous, s)
       \/ ~back /\ UNCHANGED disk

Discard(p) ==
    /\ pc[p] = "discard" /\ Leaves(p)
    /\ previous' = Without(previous, stage[p]) /\ UNCHANGED target

\* The first publication, and every one of an immutable stage.
Place(p) ==
    /\ pc[p] = "place" /\ Leaves(p) /\ UNCHANGED previous
    /\ \/ stage[p] \notin DOMAIN target /\ target' = Put(target, stage[p], Staged(p))
       \/ stage[p] \in DOMAIN target /\ UNCHANGED target

\* Stage 3.5A publishes private rows and then aggregates, each only once.  When the
\* second fails the first is taken back.
PublishPrivate(p) ==
    /\ pc[p] = "publishPrivate" /\ UNCHANGED previous
    /\ \/ /\ "topLanePrivate" \notin DOMAIN target
          /\ target' = Put(target, "topLanePrivate", Staged(p))
          /\ Goes(p, "publishAggregate") /\ UNCHANGED load
       \/ "topLanePrivate" \in DOMAIN target /\ Leaves(p) /\ UNCHANGED target
PublishAggregate(p) ==
    /\ pc[p] = "publishAggregate" /\ Leaves(p) /\ UNCHANGED previous
    /\ \/ "topLane" \notin DOMAIN target /\ target' = Put(target, "topLane", Staged(p))
       \/ target' = Without(target, "topLanePrivate")    \* it exists, or the write fails

\* The process is killed.  Its staged directory is left behind and never looked at.
Dies(p) ==
    /\ Busy(p) /\ crashes < MaxCrashes /\ crashes' = crashes + 1
    /\ Ends(p)
    /\ torn' = torn \cup (IF pc[p] = "placeOver" THEN {stage[p]} ELSE {})
    /\ UNCHANGED <<population, disk, invocations, beside>>

Load(p) == HashInput(p) \/ VerifyPriors(p) \/ ReadInput(p) \/ CheckLineage(p) \/ Refuse(p)
Publish(p) ==
    \/ Unchanged(p) \/ Differs(p) \/ Retire(p) \/ MoveAside(p) \/ PlaceOver(p)
    \/ PlaceFails(p) \/ Discard(p) \/ Place(p) \/ PublishPrivate(p) \/ PublishAggregate(p)

Next == \/ PopulationGrows
        \/ \E p \in Publishers : \/ \E s \in Stages : Start(p, s)
                                 \/ Load(p) \/ Publish(p) \/ Dies(p)

Spec == Init /\ [][Next]_vars
-----------------------------------------------------------------------------
Alone(s) == <<s, s>> \notin beside
Kept(s) == s \in DOMAIN target \cup DOMAIN previous

\* A directory is only out of its place while its publisher is between the two
\* replacements, or after one has been killed there.
InPlace ==
    \A s \in Replaceable :
        Alone(s) /\ s \in DOMAIN previous \ (torn \cup DOMAIN target)
            => \E p \in Publishers : pc[p] = "placeOver" /\ stage[p] = s

\* A published dataset is never lost: whatever is killed, refused or published again,
\* it is in its directory or in the .previous one, unless two invocations of its stage
\* have run at the same time.
CopiesSurvive ==
    []InPlace /\ [][\A s \in Replaceable : Alone(s) /\ Kept(s) => Kept(s)']_vars

\* The stages whose directories the inputs of a stage come from.
Upstream ==
    [canonical |-> {}, features |-> {"canonical"}, drafts |-> {"canonical", "features"},
     aggregates |-> {"canonical", "features", "drafts"},
     backtest |-> {"canonical", "features", "drafts"}, topLane |-> {"canonical"}]

\* Nothing that s reads was published beside a run of s, nor was s itself.
Undisturbed(s) == \A t \in Upstream[s] \cup {s} : <<s, t>> \notin beside

\* What a directory records as its inputs is what its rows were made from, and a 3.3A
\* directory was made from the canonical rows that its features were made from.  What
\* 3.5A publishes comes from the sealed directory.
LineageIsTrue ==
    \A s \in DOMAIN target \cap Stages : Undisturbed(s) =>
        /\ \A i \in DOMAIN target[s].inputs : target[s].rows[i] = target[s].inputs[i].rows
        /\ s = "drafts" => target[s].inputs["features"].inputs["canonical"]
                               = target[s].inputs["canonical"]
        /\ s = "topLane" => target[s].rows["canonical"] = Sealed.rows

\* The directories a stage's inputs were made from when it publishes are the ones that
\* are published then.
Current(s) ==
    \A i \in DOMAIN target'[s].inputs :
        /\ i \in DOMAIN target /\ target[i] = target'[s].inputs[i]
        /\ \A j \in DOMAIN target[i].inputs :
              j \in DOMAIN target /\ target[j] = target[i].inputs[j]

\* Lineage can be relied on although no lock is taken and 3.1 may be published again
\* with other rows: recorded inputs are the true ones, a stage publishes only what was
\* made from what is published, and a published later stage never changes.  All this
\* for stages that did not run beside themselves or what they read; and the private
\* rows of 3.5A are always there with its aggregates.
LineageHolds ==
    /\ []LineageIsTrue
    /\ []("topLane" \in DOMAIN target =>
             /\ "topLanePrivate" \in DOMAIN target
             /\ target["topLanePrivate"] = target["topLane"])
    /\ [][\A s \in Stages \ {"canonical"} : Undisturbed(s) =>
             /\ s \in DOMAIN target => s \in DOMAIN target' /\ target'[s] = target[s]
             /\ s \in DOMAIN target' \ DOMAIN target => Current(s)]_vars
=============================================================================
