# TLA+ verification of nexus-lens

nexus-lens collects ranked League of Legends matches through the Riot API, stores
them in several local stores, and derives data sets, statistics and frozen
evaluations from them. This directory holds TLA+ models of the parts whose
correctness depends on interleavings, crashes, budgets and the order of writes, the
TLC configurations that check them, and TLAPS proofs of the properties that matter
most. `PROJECT.json` maps every definition to the source lines it models.

Paths below are relative to `src/nexus_lens/` unless they say otherwise.

## 1. Inventory

| Component | State | Operations | What is hard | What makes it correct |
|---|---|---|---|---|
| HTTP client (`riot_client.py`) | metrics, rate buckets, attempt budget | `get_*` -> `_get` | concurrent calls share one budget; retries, sleeps, cancellation | budget never exceeded, refusals justified, counters exact, every call ends |
| Population collector (`population.py`) | checkpoint payload in memory, stop reason | `collect`, `finalize_interrupted` | many awaits between saves, several stores, resume with another configuration | stores written in order, credit final and in the window, no double download, termination |
| Run checkpoint and lock (`population_state.py`) | checkpoint file, lock database | create, load, save, exclusive run | crash at any point, two processes | a save is all or nothing, one process per run |
| Request ledger (`scripts/collect_population.py`, metrics merge in `population.py`) | attempted requests, active-invocation marker | recover, grant, merge, finalise | attempts of a process that died | the cumulative ceiling holds over all invocations |
| Processing catalog and normalized files (`catalog.py`, `storage.py`) | SQLite rows, three files per match | claim, record processed/rejected, observe | writes between which a crash falls; rows of other runs | a processed row has its payload and files |
| Private de-duplication index (`private_dedup.py`) | SQLite index of match IDs | create, verify, load | index and catalog disagree | held matches are not downloaded |
| Timeline collection (`timeline_collection.py`) | timeline catalog, charged attempts, payload files | concurrent tasks, charge, record, read | cancellation after the first failure, file without row, ceiling over restarts | downloaded rows readable, terminal rows final, ceiling holds, a return is complete |
| Platform repair (`platform_repair.py`) | backup directory; catalog, checkpoint, manifest and files of a run | validate, back up, reclassify, restore | a crash between any two of four writes; processors that take no lock | what a repair reports is true; torn stores are recoverable; a failed repair leaves nothing behind |
| Snapshot processing (`processing.py`) | catalog rows, normalized files | claim, write, record, reject | several processes; rows left `processing`; look and claim are two transactions | every match settled, processed rows final |
| Canonical rows (Stage 3.1, `canonical.py`) | its published directory | transform, gate, publish | payloads that contradict themselves, rerun with a larger population | only rows that every store agrees on |
| Features (3.2, `analytics.py`, `formulas.py`) | its published directory | position policy, team sums, gate, publish | doubtful rows stay and are only marked | marks are right; what is reported, what closes the gate |
| Observations (3.3A, `draft_observations.py`) | its published directory | lane opponents, eligibility, gate, publish | opponents named from both sides, uneven teams, mirrored picks | reciprocal, unique opponents |
| Aggregates (3.3B, `draft_aggregation.py`) | its published directory | contributions, windows, baselines, gate, publish | two computations of one baseline, five windows | counts are the payloads'; leave-one-out is the rest |
| Backtest (3.3C, `backtesting.py`) | its published directory | folds, training counts, predictions | a fold cut at the wrong patch | no prediction depends on an outcome its fold holds out |
| Composition (3.4A and pooled, `composition_modeling.py`, `pooled_development.py`) | result directories | corpus, vocabulary, selection, fit, predict | configuration selected on what is predicted | as above; each draft held out once |
| Rolling evaluation (3.4B, 3.5B, `stage34b*.py`, `stage35b.py`) | result directories | chronological folds with inner selection | games of one instant, inner folds that reach into the outer one | as above |
| Top lane (3.5A, `stage35a.py`) | private rows, aggregates | eligibility, perspectives, history, publish twice | ties in time, the cut to the target, a crash between two directories | history strictly past; aggregates never without their rows |
| Publication of stages (`canonical.py`, `analytics.py`, `draft_*.py`, `backtesting.py`, `stage35a.py`) | published and `.previous` directories, recorded hashes | hash, read, compare, stage, replace | no lock, crash between two renames, inputs published again meanwhile | no published data lost; recorded lineage true |
| Evaluation freeze and diagnostics (`evaluation_freeze.py`, `pooled_diagnostics.py`, `stage35a_runes.py`) | one directory each | derive, verify, publish | as for the other stages | as for the other stages |
| Lineage (`lineage.py`), planning (`collection_planning.py`), seals, audits, reports (`data_seal.py`, `storage_audit.py`, `reporting.py`, `inspection.py`) | reports | read, hash, render | none concurrent | hashes agree |

### How the components interact

`collect_population` takes the run lock, loads or creates the checkpoint, charges an
invocation that died, and gives `RiotClient` what is left of `max_requests`.
`PopulationCollector` awaits the client's calls; between awaits it alone touches the
checkpoint in memory. It writes raw payloads, normalized files and catalog rows
directly and saves the checkpoint afterwards; every save first merges the client's
metrics into it. The catalog, the processed files and the raw snapshots outlive a
run and are shared with other runs, snapshot processing, repair and everything
downstream. Timeline collection and repair run on stores that the collector has left
quiescent; repair takes the run lock, snapshot processing takes none and may work beside
either. The offline stages follow each other: 3.1 reads what the checkpoint approved,
3.2 reads 3.1, 3.3A reads both, 3.3B, 3.3C and 3.4A read 3.3A, the pooled and rolling
studies read 3.3A and 3.1 of several runs, 3.5A reads 3.1 and timelines, 3.5B reads
3.5A. They share nothing but directories: each stage hashes its inputs, reads them,
records the hashes, and replaces its own directory. They take no lock.

## 2. Modules

| Module | Models |
|---|---|
| `RequestContract` | what a caller of the client may rely on (abstract specification) |
| `RiotClient` | `_get` under concurrency; implements `RequestContract` |
| `RiotClientProofs` | its theorems |
| `PopulationCollector` | one population run over several invocations |
| `MCPopulationCollector` | instances of it |
| `PopulationCollectorProofs` | its theorems on types, stores and credit |
| `PopulationDownloadsProofs` | its theorems on downloads: target, waste, seal |
| `RequestLedger` | the accounting of attempts over invocations |
| `RequestLedgerProofs` | its theorems |
| `TimelineCollection` | one platform's timeline collection over several invocations |
| `MCTimelineCollection` | an instance of it |
| `TimelineCollectionProofs` | its theorems |
| `SnapshotProcessing` | processors over one snapshot, catalog and normalized files |
| `PlatformRepair` | the repair, composed with processors and collections of the run |
| `MCPlatformRepair` | an instance of both |
| `PlatformRepairProofs` | its theorems |
| `CanonicalRows`, `AnalyticalFeatures`, `DraftObservations`, `DraftAggregation` | Stages 3.1 to 3.3B as operators on sets of rows, each extending the one before |
| `RollingBacktest` | Stage 3.3C |
| `CompositionModels`, `ChronologicalFolds` | Stage 3.4A and its pooled development; 3.4B and 3.5B |
| `TopLaneHistory` | Stage 3.5A |
| `DraftPipeline` | the state machine that runs these stages over a population |
| `MCDraftPipeline` | payloads and sealed sources for it |
| `StagePublication` | how stages read each other's directories and publish their own |
| `MCStagePublication` | an instance of it |
| `StagePublicationProofs` | its theorems |
| `DraftPipelineProofs` | the theorems on blind predictions, on counted aggregates, on leave-out baselines and on strictly past histories, about the offline stages |

### RiotClient

asyncio runs one call at a time between two awaits, so the unit of interleaving is
the code between two awaits. `pc[c]` is the await at which call `c` is suspended, or
how it ended. `Send` and `RefuseForBudget` are the head of the retry loop (budget
check, count, request: one turn). Each way a response can come back is an action.
`Cancel` may take a call at any await. `sent[c]` is the call's loop index plus one;
`metrics` are the shared counters.

The refinement mapping to `RequestContract` is `attempted <- metrics["attempted"]`,
`spent <- sent`, and the outcome is `pc[c]` once it has ended and "running" before.
`PopulationCollector` and `RequestLedger` use only this contract: a call spends
between one attempt and `AttemptsPerCall`, and "budget" means nothing was left.

### PopulationCollector

`mem` is `state.payload`, `ckpt` the checkpoint file, `raw`, `norm` and `catalog` the
stores. `Save` writes `ckpt`, `Keep` does not. `pc` is the place in the code: the
migration of records, the loop over pending matches, the resume of players, the
balanced sampling loop, one player's history, one page, one chunk (registration,
gathered downloads, results, patch relations), and the end. The handling of one
result is cut at each write that reaches a disk (`WriteRaw`, three times
`WriteNormalizedFile`, `RecordProcessed`, `RecordRejected`), because a crash may fall
between any two. `Crash` loses `mem`; `Interrupt` (a cancelled task) and `Abort` (an
exception) run `collect`'s `finally` block. `Start` is the next invocation; it may raise
the target and widen the patch window, as `validate_checkpoint_extension` permits.

Payloads are reduced to their kind (`Kinds`), the calls to their outcome and the
attempts they spent. "auth" stands for 401/403 and for any exception that the handlers
let through. The order of pending matches and of players is any order; the code has
the order of insertion.

Not in this module: the fast strategy, more than one league page per stratum,
provenance and lineage, summaries, manifests, efficiency metrics.

### RequestLedger

The collector is reduced to the points where it makes calls (`Calling`) and those
where it saves (`SaveAnd`) or goes on without a save (`Goto`); which way it goes is left
open, except that some histories need a player first (`progress`). `file` is what the
checkpoint says, `total` the attempts really made. `left` bounds what awaited calls may
still make, by the client's contract. It takes the default balanced strategy, and the
recovery branch for checkpoints that have a marker.

### TimelineCollection

`collect_platform_timelines` is one coroutine (`main`) and one task per missing match
(`task[m]`), which waits for the semaphore, charges an attempt, sends it, awaits the
response, and writes a payload file and then a row. `rows`, `charged` and `files` are the
SQLite catalog and the timeline directory, and survive; the rest is lost by `Gone`. The
payload's file is named after its digest, so the pair of a match and a version stands for
it, and an API that serves a match twice may serve two versions.

Two pairs of writes follow each other without an await: the charge and the request, the
file and the row. A crash may fall between them but no other task, which is what
`Undivided` says. `write_lock` is never held over an await and is therefore left out.
`NoticeFailure` is the handler that cancels the other tasks after the first failure, and
other tasks may have moved on since that failure. Ctrl-C cancels the coroutine with
`CancelledError`, which `except Exception` does not catch: after `Interrupt` the tasks live
on until `Leave`.

A later invocation may have another `maximum_requests` and sources that select more
matches, since neither is part of `_timeline_policy_sha256`. Left out: sources that drop
matches (the summary would count their rows), two processes on one catalog, the hashes of
the Stage 3.1 sources, the other figures of the summary.

### SnapshotProcessing and PlatformRepair

A processor (`SnapshotProcessor`) reads the manifest's list once and takes one match after
another: `Look` is `is_processed`, `Claim` is `begin_processing` in a transaction of its
own, `WritePart` one of the normalized files, `RecordDone` and `RejectMatch` the outcome.
`looked`, `claimed` and `written` are what it holds in memory; `ProcessorDies` loses them.

`repair_platform_isolation` runs beside them. `pc` is the next access of a store, in the
code's order: three checks, the backup (directory, checkpoint, manifest, catalog, files),
the removal of the files, the catalog transaction, checkpoint, manifest; on an error the
stores are put back one by one, the files in the order of their removal (`RestoreFile`). A
crash may fall between any two, also while restoring. Checkpoint, manifest, catalog and files
are the variables `status`, `listed`, `rows` and `norm`. The collector of the run is reduced to
what it leaves in these stores and holds the lock (`Lock`) while it works; the lock ends with
its holder. Restoring copies over the stores with `shutil.copy2`, which is not atomic
(`CutShort`): a checkpoint or a manifest that is cut short is `Absent`, a file cut short is
in `norm` and in `cut`, where no check of the code sees it, and a later backup copies it as it is.

### The offline stages

The modules from `CanonicalRows` to `ChronologicalFolds` are functions from rows to rows,
written as set comprehensions: a row is a record of the fields that later stages or a
property read, a table is a set of rows, a gate is a conjunction. Statistics are counts,
and a weight of 4/5 per patch is an integer (`Weight`). What floating-point code computes
is represented by what it is computed from: a fitted model is its variant, its
strength and its training rows, a selected strength is the evidence it was selected by, an
answer is the model with the features it knows. Two answers are then equal when the code
would have made them from the same data, which is what blindness is about.

`DraftPipeline` has one action per script. `Approve` builds a population out of
`Candidates`, sound payloads and payloads that break one rule each; every study may follow
in any order, and a stage that raises or whose gate is closed publishes nothing
(`Refused`). The pooled and the rolling studies read `Sealed` sources beside the population.
How a stage's files reach the disk is not in this module.

### StagePublication

The complement: what the stages compute is reduced to which version of the inputs their
rows come from, and every access of the disk is an action. `Directory(rows, inputs)` is a
published directory: the rows depend on the rows read (`load[p].read`), the metadata names
the directories hashed (`load[p].hashed`), and the two differ when somebody published in
between. `HashInput`, `VerifyPriors`, `ReadInput` and `CheckLineage` are the loading of an
input; `Unchanged` and `Differs` the comparison with what is there; `Retire`, `MoveAside`,
`PlaceOver`, `PlaceFails` and `Discard` the replacement through `.previous`; `Place`
the first publication, and the only one for the stages that refuse to replace; `PublishPrivate`
and `PublishAggregate` the two directories of 3.5A. `beside` and `torn` are histories: which
stages were at work at the same time, and which were killed between their two renames.
The four writers that replace are one set of actions because their code is the same. 3.4A
and the studies after it hash and refuse like `backtest` and are not separate stages here.

## 3. Runs

| Run | Instance | Shows |
|---|---|---|
| `riot_client` | 3 calls, 2 attempts each, budget 4 | 27,655 states. Budget, refusals, retries, counters, the contract, and that every call ends |
| `population` | 2 players, 4 matches, 2 strata, 5 worlds, budgets 1 and 6, 2 invocations | 673,825 states, about 75 s. Order of stores, final credit, window, downloads, seal, termination |
| `ledger` | 2 attempts per call, 2 pages, concurrency 2, ceilings 8 and 12, 3 invocations | 140,116 states. Bounded loss, bounded overrun, exact clean ends, monotone ledger |
| `timelines` | 3 matches, 2 tasks at a time, 2 versions, 2 attempts per call, ceilings 2 and 3, 2 invocations | 520,428 states, about 45 s. Readable downloads, charged requests, ceiling, complete returns, final rows, termination |
| `repair` | a match of another platform and one of the own, two files each, 2 processors, 2 repairs or collections, 2 processor invocations | 819,282 states, about 3.5 minutes. Torn stores recoverable, reports true, restores complete, credit kept, rows final, every match settled |
| `draft` | 2 positions, 17 candidate payloads, populations of up to 3, 2 studies each | 17,715 states, about 50 s. Aggregates, baselines, blindness, history |
| `publication` | 2 processes, 6 stages, 5 invocations, 2 versions, 1 kill | 1,598,107 states, about 45 s. Published data survives, lineage is true |
| `population_resume`, `population_target`, `population_platform`, `population_seal`, `ledger_charge` | as above, one world each | disagreements between code and documents, section 6 |

### Bounds and why they are enough

* Client: a budget of 4 under a demand of 6 attempts makes calls refuse each other at
  their first and at later attempts; three calls let two interleave inside the third.
* Collector: two players share match `m3`, so a match reaches a second player in every
  status; a page of two IDs with chunks of two and a history of three gives full pages,
  short pages and empty ones; `MaxMatchIds` 3 of 4 matches and `MaxHistory` 3 make those
  bounds bite; a budget of 1 stops an invocation at each call, 6 lets it go through.
  Two invocations are one crash and one resume with a changed configuration. Between
  them the worlds hold each kind of payload and each kind of catalog row, and a private
  duplicate. `AttemptsPerCall` is 1 here, since `Spends` only counts; the ledger
  module has calls of two attempts.
* `MaxPlayers` equals the number of players, so the refusal of a player beyond it in
  `PuuidKnown` is never taken: `ShouldStop` ends sampling before, in the code too.
* Ledger: three invocations are two recoveries, the fewest at which a base that is
  forgotten or a charge that is repeated shows. `PagesPerStratum` and `Concurrency` differ
  from each other only in the theorems.

* Timelines: three matches for two places in the semaphore make a task wait; the third is
  selected only by the second source, so that a catalog with terminal rows is extended.
  Ceilings of 2 and 3 are below the six attempts that three calls may make, so tasks refuse
  each other within an invocation and across two; the ceiling may rise or fall between them.

* Repair: one match of each sort is enough, because the repair treats matches of a sort
  alike and its stores are torn between stores, not between matches of one sort. Two runs are a
  repair and its rerun, a repair and a collection, or a second repair over the first one's
  debris; with one backup directory the rerun meets the one that exists. A second repair that
  copies a file cut short into a second directory is beyond the run's bounds; the proofs
  cover it.
* Drafts: teams of two with two positions keep everything that depends on team size
  (allies, lanes, full teams). A match each of two patches and a third one are what a window,
  a fold and a history need; two matches share a time; every rule and every doubt has a
  payload that breaks it, and a few payloads have two defects that hide each other. Ten
  sealed games fill every fold and inner fold of both platforms. With `TargetEligible` 12
  at most ten sealed games and three approved ones are one more than the target, so the
  cut bites. Two studies are the most that one property relates (3.5A and 3.5B).
* Publication: five invocations are the chain of canonical, features, drafts and one later
  stage, with one of them run again in between, or one stage run four times over. Two
  versions and one kill are the fewest with which anything can be lost or
  stale. Each hazard needs two processes.

Deadlock is not checked, because all these systems stop: a client whose calls have
ended, a run after its last invocation, a population whose studies are made.

### Fairness

* `RiotClient`: weak fairness of each call's own steps. httpx has a timeout of 20 s and
  every sleep is finite; a call that can go on is resumed by the event loop. None for
  `Cancel`.
* `PopulationCollector`: weak fairness of the running process (`Collect`), which follows
  from `EveryCallEnds`. Nobody is obliged to start, interrupt or crash it.
* `TimelineCollection`: weak fairness of the running process (`Run`), for the same reason.
* `PlatformRepair`: weak fairness of each processor's own steps (`Process`): it awaits nothing,
  and its file and catalog operations end or raise. None for the repair, which may die.
* `RequestLedger`, `DraftPipeline` and `StagePublication` have only safety properties and no
  fairness.

## 4. Proofs

`RiotClientProofs` proves, for any finite or infinite set of calls, any `MaxRetries` and any
`Budget` in Nat: type correctness, `BudgetNeverExceeded`, `RefusalMeansSpent`,
`RetriesBounded`, `MetricsAccountForAttempts`, and that the client refines `RequestContract`. The inductive invariant
adds `AttemptsFitPosition` to them: a suspended call has attempts left, an answered one
has made an attempt. Without it neither the bound on retries nor the contract's
justification of an outcome is inductive. The refinement shows each action to be a
contract step (`GotoOutcome` says how moving a call changes its mapped outcome). For the
counters, the attempts made are the pairs of a call and the number of one of its attempts,
so that a sum over the calls is the size of a set; `Accounts` counts every awaited call among
the responses to come, and every call in a back-off, whose next attempt is a retry that has been
counted already. Only finitely many calls can have started, so the set of calls may be infinite.

`RequestLedgerProofs` proves, for any ceilings, page count, concurrency and attempts per
call: type correctness, `UnsavedBounded`, `OverrunBounded`, `CleanEndsExact` and
`LedgerNeverDecreases`. The main result is

    total <= ceiling + AttemptsPerCall * crashes

The argument: at each control point the attempts since the last save are at most
`UnsavedCalls(pc)` calls' worth (`UnsavedBounded`), which exceeds what the recovery charges
by at most one call (`CrashLosesOneCall`); so each crash adds at most one call to what the
checkpoint does not know (`AccountedFor`), and a client that is granted the rest of the
ceiling cannot overrun it by more. `NothingAwaited`, `RecoveredUnmarked` and `ExactWithoutCrash`
close the induction. The products of two parameters are beyond the SMT solver, so
`TimesNat`, `TimesPlus` and `TimesMono` state what is needed of them.

`TimelineCollectionProofs` proves all of the module's safety properties, for any finite set of
matches and any versions, ceilings, concurrency and number of invocations: `TypeOK`,
`DownloadsReadable`, `SentIsCharged`, `CeilingHolds`, `ReturnIsComplete` and `TerminalIsFinal`. The
inductive invariant `IInv` says what the tasks in flight rely on: at most one task is between
two writes that belong together (`OneUndivided`), which makes the strict `sent < charged` of a task
about to send inductive (`ChargedAhead`); the unspent budget of the client fits below the
ceiling (`GrantFits`), from which the ceiling follows; a task about to record has its file
(`HeldIsWritten`); only matches without a terminal row have a live task (`LiveIsMissing`); and
a selected match without a task, or whose task is done, has a terminal row (`DoneIsTerminal`),
from which completeness on return follows. `OnlySelected` and `DisjointUnion` turn that into
the summary's count.

`StagePublicationProofs` proves `CopiesSurvive` for any set of processes and any bounds. That a
directory is only out of its place while its publisher is between two renames (`InPlace`)
is not inductive: it says nothing of what a process finds when it gets there. `Prepared` adds
what each invocation has made sure of before its next rename (before `moveAside` the target is
there and `.previous` is not, before `placeOver` the reverse, before `discard` the new target),
and `Exclusive` that a stage that never ran beside itself has one invocation at most, so that
nobody else moves these two directories. `Controlled` is what is needed of the types.
Each action then falls under one of two lemmas: it leaves the replaceable directories alone
(`Bystander`), or it changes those of its own stage only (`OwnDirectories`).

It proves `LineageHolds` too, from an invariant of its own, `LInv`. `Typed` says what a process
has loaded at each place of the code. `Faithfully` carries the argument: as long as an
undisturbed stage is at work, what it has hashed is still published (nobody whose directory it
reads is at work, which `BesideKnown` knows), what it has read are the rows of that, its inputs
agree with each other, and once it has compared its lineage a directory that is there has
the same inputs. `AllDerived` says that a directory's rows follow from its inputs; so a directory
with the same inputs is the same directory, an undisturbed stage finds nothing to replace, and
what it publishes first is current. A step of one process leaves what the others
have loaded true (`OthersStayFaithful`), and each action is a case of `OwnStep`. `OnePrivate` is
the same for the two directories of 3.5A, however many invocations of it run.

`PlatformRepairProofs` proves all safety properties of the `repair` run, for any finite set of
matches, any processors and backup directories, and any number of repairs, collections and
invocations. Its invariant follows the repair through its phases: `Reconciled` says what the
checks have established and the writes made of it, `BackedUp` what the backup directory holds
at each phase, and that whatever is rejected is whole in some directory before it is removed: in
this one, or in the earlier one that a file cut short since came from; `Undisturbed` what holds of
rows and files while no processor has worked beside the repair, from which a report of
success is true. `Sound` strengthens `TornIsRecoverable` by `NotInHand`: a match that no store accepts
is not in the hand of a processor that read an older manifest, or it would come
back. `UnknownIsClean` says the same of matches the collector has not seen yet. The steps of
processors are dealt with at once (`Harmless`): they take nothing back and touch nothing that
is neither listed nor in their hand. The lock enters through `StoreTypes`: it has one holder, so
the checkpoint a repair has loaded is the one it replaces.

`PopulationCollectorProofs` proves `TypeOK`, `StoresInOrder`, `CreditInWindow` and `CreditIsFinal`,
for any finite set of matches, any players, schedule, histories, payloads, initial stores,
bounds, targets and number of invocations. `TypeInv` adds to `TypeOK` that a running process
has a state in memory and that the control variables are typed where they are read. The
inductive invariant is `TypeInv /\ Credit`. `Stored` and `Earned` are what the runs check, said
of the memory as well as of the checkpoint; `Keeps` says that memory holds on to what the
checkpoint accepts, without which a save could take credit back. They are not inductive
while results are dealt with: `QueueDue` adds that no result in the queue is of a match
already accepted, `HeadWritten` that what `stage` counts has been written for the first of
them, so that the row which is recorded last finds its payload and files, and `Settled` that
nothing is half written elsewhere.

`PopulationDownloadsProofs` extends it with three invariants of its own.
`DownloadsStopAtTarget` follows from `Bounded`: while downloads are dealt with, no more results
are left than the target lacks. `NoWastedDownload` follows from `Frugal`: a downloaded match
has been dealt with, waits in the queue, or was dropped by an invocation that downloads no
more. That needs one thing the code takes from the API, that no history lists a match twice
(`DistinctHistory`, a hypothesis of `WasteSafe` which the runs' worlds meet).
`SealedRunMakesNoRequest` follows from `Sealing`: once a newer patch is seen, one of the conditions
that stop every loop holds from then on, whichever stop reason replaces the other.

`DraftPipelineProofs` proves `PredictionsAreBlind`, for any sealed sources, candidates, blocks, folds and
bounds. The invariant `SInv` says that each stage and each study is still the function of the
stages before it that it was computed with, because a population stops growing when Stage 3.1 runs
(`Ordered`, `StagesAre`, `StudiesAre`). What is left is about operators. Turning outcomes
round leaves a fit untouched when its split trains on earlier patches (`FlippedFit`, from
`TrainsBefore` and from each observation carrying the patch of its match, `Coherent`), and an
answer untouched because it reads everything but the outcome (`FlippedPrediction`, `AlikeDrafts`). A
composition is fitted on complete matches, and a match is complete whichever side won
(`FlippedComplete`: turned rows are still as many, as an outcome is a Boolean; in a complete team each
position is one member's, `OnePerPosition`). Of the pooled development less is true, and less is
said: its folds are dealt by the outcomes, so an answer does depend on its own outcome through
the plan. A plan once dealt, whatever a model that is asked of a fold has seen is training of
that fold: what it was fitted on, what its strength was scored on and what the scored
candidates were fitted on (`SeenInTraining`, `PooledIsHeldOut`). So with the plan held fixed
the fold's answers stay when its outcomes are turned round (`PooledIsBlind`). That each draft is
asked once needs one draft of a match, which the sources' disjoint scopes give (`PooledIsKeyed`).
Chronological folds end where the block starts (`RollingIsBlind`, `FocalIsBlind`).

From the same invariant it proves `AggregatesAreCounted`, going up from the payloads one stage at
a time. The rules of Stage 3.1 leave only payloads whose seats and teams are as many as their
numbers, with one winner and a duration (`RegularPayloads`, from `ImageSize`: as many numbers as
seats means no number twice); canonical rows, contexts, features and observations are then
one per seat and say what the seat says (`CanonicalIs`, `ContextsAre`, `FeatureSees`,
`ObservationsAre`, whose step on lanes is `LaneIs`: one opponent and one of the own team in a
position, in even teams, are the two seats a reader finds). A contribution is then one lane
contest or one pair of companions (`MatchupsAre`, `SynergiesAre`). That as many are won takes the
gates: 3.3A compares each composition's win with the team's row, so a seat that has won is in
the winning team (`WinnersWin`); 3.3B wants a contribution with the opposite outcome, so of two
opponents one has won (`ContestWon`), and refuses a team that counts twice for a synergy; a
member of the winning team that has not won is left to what 3.2 reports, which is
why the part on synergies has that hypothesis. Rows and games are then paired off
(`CountedContributions`, `PairedSize`).

And it proves `LeaveOutIsTheRest`. A sum over a finite set is a recursive function of its
subsets; of the subsets for which a claim about sums fails there would be one that holds no
other (`LeastSubset`, from the well-foundedness of strict inclusion), which is how it is
proved that any member can be taken out of a sum (`TotalOut`), that a part and the rest add up to
the whole (`TotalSplit`), and that sets whose members are paired off by weight have one sum
(`TotalPaired`). With the ages of the window's rows being numbers from 0 to the bound, that makes
the statistics of a part and of the rest those of the whole in every window (`BundlesSplit`). The
rows of a pick are then one per observation (`RolesOriginate`); the contributions of a pair
match those of them that name the other pick (`MatchupsMatch`: an eligible observation
has one lane opponent; `SynergiesMatch`: no team counts twice), and the baseline holds the others.

And it proves `HistoryIsStrictlyPast`. Picking by the number of members before puts a finite set in a
strict order into a sequence that holds each member once (`RankedLists`: ranks grow with the
order, so they are as many as the places), which gives the creation times, the rows of a
cohort and the eligible matches in order (`TimesInOrder`, `GroupsInOrder`). The fold of a cohort and
the chain of states are recursive functions, which exist up to every length and so for the
one in question (`PeelsExists`, `StatesExist`, from `LeastNatural`). Along both runs the invariant
`Remembers`: the history of each player counts the rows entered so far, its lists hold their
values as often as the rows do (`Tallies`, for every set of values, so that lengths, bags and
counts within some days all follow), and the last time of a champion is the latest. Each state
then holds the rows of the earlier cohorts and no other (`StatesRemember`). The cut keeps a
beginning of the order, so it takes nothing of what was created before a row it keeps
(`CutKeepsThePast`). That needs groups told apart by match and rows by team (`Separate`), which
follows from a match being in one source once (`SourcesNumbered`) and from the symmetry check;
`TInv` adds to `SInv` that the study is still the function of the canonical rows and the timelines
it was made as, although Stage 3.3A may run after it.

The assumptions are `ClientAssumption`, `CollectorAssumption`, `WorldsAssumption`, `LedgerAssumption`,
`TimelineAssumption`, `PublicationAssumption`, `ProcessingAssumption`, `RepairAssumption`,
`AbsentAssumption`, `CanonicalAssumption`, `PositionsAssumption`, `AggregationAssumption`,
`CompositionAssumption`, `TopLaneAssumption`, `CandidatesAssumption`, `SealedAssumption` and
`MembershipAssumption` (the constants are natural numbers, positive where the code requires it;
matches are finitely many; initial stores are those a finished run leaves; "no value" is
not a value, nor a position; there are as many positions as members of a team, and `validate_config` refuses a
training patch that is not before the evaluation patch; a payload has finitely many
teams, finitely many participants with a Boolean outcome, if any, and integers as its id, times and
teams; a sealed source has finitely many rows with the same, and its observations have the patch of
their match; no match is in two sources, an id standing for the platform and the name of a match, as
`load_source_top_matches` refuses a match that is loaded twice, nor twice in one), which TLC evaluates in the runs.

Model-checked only: liveness, which is out of the prover's reach, as is ENABLED. Every invariant and
every action property of the passing runs is proved.

## 5. Properties worth a note

* `StoresInOrder` has to hold while a crash can fall between any two of six writes, in
  a second invocation that finds a half-written match, and beside rows of other runs.
* `CreditIsFinal` compares every state with the next over crashes: a record that was
  credited is not withdrawn by a retry, a migration or a catalog rejection.
* `SealedRunMakesNoRequest` allows the chunk in which the newer payload was found to finish its
  gathered downloads (`pc = "register"`), as the code does.
* `CeilingHolds` is the documents' "the ceiling cannot reset on resume" (docs/stage3_5a.md): it
  compares the requests really sent, over all invocations, with the ceiling in force.
* `ReturnIsComplete` needs every failure to be raised, also one of a task that ended after the
  others, and relates the rows to the sources of this invocation.
* `TornIsRecoverable` lets a repair die anywhere, also while it restores, and asks for one
  whole backup in any directory; `ReportedRepairHolds` has the processors as its exception,
  because `stores_reconciled` is reported without a look at the stores.
* `OwnCreditKept` is what the run lock is for: a repair writes back the checkpoint it has
  loaded.
* `AggregatesAreCounted` compares Stage 3.3B with the payloads, four stages earlier, and was
  worth its exception: a participant whose win flag contradicts its team's passes 3.1, is
  reported by 3.2 without closing its gate, and, where the row is not eligible as a
  matchup, is counted among the synergies.
* `PredictionsAreBlind` runs the studies again on data whose outcomes are turned round, of the
  evaluation patch (3.3C, 3.4A) or from the start of a block on (3.4B, 3.5B): no answer may
  change, through counts, vocabularies, models or selected configurations. The pooled
  development deals its folds by platform and outcome, so there the plan is held fixed: the
  held-out fold's outcomes are turned round (`BlindFolds`), and nothing that is asked of the fold
  was fitted or scored on its drafts (`HeldOut`). A strength selected on the held-out fold
  breaks both.
* `CopiesSurvive` and `LineageHolds` name their exception, stages that ran beside themselves or
  beside their inputs. The run reaches it: two invocations of one stage and a kill can lose
  the last copy, and an input published between its hash and its reading is recorded
  under the wrong hash.
* `ExactTarget` fails and `DownloadsStopAtTarget` holds: the cut protects downloads only.

## 6. Where code and documents disagree

1. **A page abandoned in the middle counts as examined** (`population.py:702-715`). README.md:591
   promises exact resume; a run resumed with a larger target or budget never sees the
   rest of the page. Run `population_resume`.
2. **The target can be passed** (`population.py:756-761`, `812-826`), by matches credited from the
   catalog; README.md:603 says it stops at the exact target. Run `population_target`.
3. **Catalog rows are credited across platforms** (`population.py:812-826`); a payload of another
   platform is rejected, as `tests/test_population.py:354` expects. Run `population_platform`.
4. **A row sealed by an older run seals this one** (`population.py:836-840`) without comparing
   patches. Run `population_seal`.
5. **The recovery charge is not an upper bound** (`scripts/collect_population.py:421`).
   Run `ledger_charge` has the trace; the theorem `OverrunSafe` bounds the damage to one
   call's attempts per crash.

### Further behaviour to know of

* A kill between the two renames of a replacement leaves no target and a whole `.previous`. The
  next invocation takes that for a first publication and places its directory without comparing.
  The replacement after that deletes `.previous`.
* Stage 3.1 is replaced when its population has grown, though docs/architecture.md:128 calls its
  directory immutable. The later stages notice: each refuses to run over recorded inputs that are no
  longer there, until its own output is removed. 3.3C and 3.5A refuse any unequal output.
* 3.5A publishes its private directory and then the aggregates. A kill in between makes every
  later invocation refuse, because the private directory exists.
* 3.5A keeps the first matches by time. When the cut falls early it can leave 3.5B folds without
  matches of one platform, and 3.5B then raises.
* A pick mirrored on both teams closes the gate of 3.3A for the whole population, and a match
  without one outcome per team makes 3.4A raise whatever its patch.

## 7. Not modelled

* `lineage.py`, an audit of directories that older versions left; `evaluation_freeze.py`,
  `pooled_diagnostics.py` and `stage35a_runes.py`, which derive one table or one document
  from published results and publish it as the stages above do; `collection_planning.py`, a
  formula over expected rates; `data_seal.py`, `storage_audit.py`, `reporting.py`, `inspection.py`,
  which read finished runs and write text. None has state that another part changes.
* Optimizers, gradients, bootstrap, metrics and gates on metrics: floating-point arithmetic.
  Interval formulas, shrinkage and evidence tiers of 3.3B for the same reason.
* The JSON protocols of 3.4B and 3.5: they are constants here (`OuterBlocks`, `FinalCutoff`, ...).
* In `PopulationCollector`: the fast strategy, more than one league page per stratum,
  provenance, summaries, efficiency metrics. In `TimelineCollection`: two processes on one
  catalog, sources that drop matches, the hashes of the sources.
* Creation and verification of the private de-duplication index (`private_dedup.py`); the collector
  is modelled with the set it has loaded.
* Schema migration and statistics of the catalog; the retries of a replace that Windows
  refuses; text rendering, command-line parsing and the Riot API itself.

## 8. Possible extensions

The fast strategy of the collector.
