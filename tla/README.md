# Verification of open-cake-ir

TLA+ models of the parts of open-cake-ir that decide whether a recorded result
can be believed: the Evidence ledger that keeps a Run's history, the Run engine
that produces it, the independent replay that accepts or refuses it, the jobs that
measure its candidates and the leases they hold, the Study that allocates Runs, the
registry of incumbents that later Campaigns are measured against, the rules by
which the compiler admits a kernel whose programs run concurrently, and the warps of
the kernels its native CUDA backend emits. TLC
checks the models on small instances; TLAPS proves most of their safety properties,
and every refinement, for every value of the constants (section 6 says which).

Paths below are relative to `src/src/open_cake_ir/` unless they begin with `src/`.

- [1. The system](#1-the-system)
- [2. Plan](#2-plan)
- [3. Modules and their correspondence to the code](#3-modules-and-their-correspondence-to-the-code)
- [4. Model-checking runs](#4-model-checking-runs)
- [5. Fairness](#5-fairness)
- [6. Proofs](#6-proofs)
- [7. Where the code and its documentation disagree](#7-where-the-code-and-its-documentation-disagree)
- [8. What is not modelled](#8-what-is-not-modelled)

## 1. The system

open-cake-ir is a compiler for GPU kernels and a laboratory that lets language
models search for better ones. `src/docs/contexts/` divides it into four
contexts: the **Compiler** (an IR, its verifier and its backends), the
**Research Lab** (Runs, Studies, authoring models, budgets), **Evaluation**
(correctness and timing on devices) and **Evidence** (the retained, sealed
record). The Lab calls the Compiler and Evaluation; Evaluation's receipts and
the Lab's events go to Evidence; the Lab's analysis reads audited Evidence only.
The Compiler depends on none of the others.

```
  author model --> Lab: Run engine --build--> Compiler / toolchains
                       |  \--------evaluate--> Evaluation --lease--> device broker
                       v append / seal / put
                    Evidence store + external custody registry
                       ^ audit, replay
                    Lab: replay, reports, incumbents, Study analysis
```

### Components

| Component | State | Operations | Hard behaviours | What makes it correct |
|---|---|---|---|---|
| Evidence ledger (`evidence/store.py` `RunLedger`, `evidence/custody.py`) | a Run's `authority.json`, `events/`, `terminal.json`, `writer.lock`; the external `frontiers/` and `seal.json` | `start_run`, `append`, `seal`, `audit_run`, `replay_events` | threads on one flock, an auditor that takes none, errors and crashes between two file operations, a witness that is readable before its fsync, power loss | one unbroken witnessed chain; an acknowledged record is never lost; a sealed history never changes; an orphan is never adopted; a trusted audit saw the final history |
| Evidence objects (`evidence/store.py` `put`, `read_object`) | content-addressed files | create-only publication, verified read | processes that publish the same bytes at once, a crash inside publication | a returned object can be read and has its bytes |
| Run engine (`lab/execution.py`, `ralph.py`, `run_completion.py`, ...) | budgets, turn, observations, nominee, confirmation, the ledger | author, resolve, build, filter, search, profile, select, close, confirm, seal, fault | every call may raise; calls overshoot walls; decisions on raw and on rounded clocks; reservations made before a turn and spent in it | the Run ends, within its reservation; a success is in budget, confirmed once, and the one nominated; the ledger replays |
| Replay (`lab/replay/`, `lab/evaluation_lifecycle.py`) | none: a function of a ledger | `replay_run` and its parts | seventeen event kinds in several passes, partial last turns | accepts what the engine writes, but for three named faults; refuses what it could not have |
| Task incumbents (`lab/incumbents.py`, `src/tools/launch_task.py`) | per comparison cell a chain of promotions, each a sealed Run of one store; a flock beside the store | select a baseline, materialise, admit, promote | death between start and seal of a promotion or inside `put`, readers without the lock, a baseline that went stale, two writers that create the store | one linear chain per cell, each generation measured against its predecessor; no Campaign runs against an older incumbent than it could see; no promotion repairs another |
| Device leases (`evaluation/local_broker.py`, `metal_device_process.py`) | one user lock and one lock per device, held by open descriptors | admit, observe, exec, start a helper, exit | two lock scopes, non-blocking rounds, a worker killed beside its helper | no two conflicting jobs are on a device; a waiting job keeps nobody out; everyone ends admitted or refused |
| GPU transport (`lab/gpu_infra.py`, `lab/runtime.py`, `lab/process.py`) | a staged run and its id, the client's files | submit, identify, observe, cancel, collect, supervise | lost answers, signals, a node that never answers, results of runs that were cancelled | submitted once; a receipt is the own run's; the Run is always told something |
| Study execution (`lab/study_execution.py`, `study_plan.py`, `study_analysis.py`) | allocations with a failure record or an evidence root | prepare, execute, audit, summarise | death in the middle of a Study, executors beside each other, an audit meanwhile | an attempted allocation is never replaced; an estimand is of one execution; bounds contain every completion |
| Run admission (`lab/admission.py`, `bindings.py`, `contracts.py`, ...) | none after validation | validate a frozen specification | many fields | only admitted documents execute |
| Authoring providers (`lab/providers.py`, `claude.py`, ...) | a child process and its home | one turn | timeouts, partial output, isolation | a turn is one outcome with its usage |
| Candidate builds (`lab/build.py`, `executor.py`, `*_build.py`) | a work directory | build | native compilers, permits | one build is sealed, rejected or a fault |
| Reports, routing, knowledge (`lab/reporting.py`, ...) | none | project audited Runs | - | projections of audited facts only |
| Evaluation attempts (`evaluation/core.py`, `attempts.py`, `paired.py`, ...) | attempts of one evaluation | preflight, correctness, timing, retry | which attempt may be repeated, statistics | at most one attempt works on a device for an answer |
| Device drivers, profilers (`evaluation/*_driver.py`, `profiler.py`, ...) | foreign handles | load, launch, time | foreign functions | resources released |
| Compiler: IR, frontend, schema | a typed document | parse | - | total validation |
| Compiler: passes and verifier | none | rewrite, verify | programs of a launch run unordered, so ownership must be decided statically; loops are placed by their first operation | meaning preserved, unsafe programs refused |
| Compiler: Triton backend and others, toolchains | text, native compilers | lower, compile | tails, valid prefixes, persistent walks | the text does what the verified Schedule says, inside its buffers |
| Compiler: native CUDA backend (`compiler/backends/native_cuda.py`) | the emitted kernel's: barriers, stages in shared memory, accumulators in tensor memory | fill a stage, issue, commit, drain, read out, next tile | warps of different roles, two asynchronous engines, one-bit phases, barriers invalidated and reused | nothing is overwritten in use, no barrier dies under a user, the kernel ends with the product of every tile |
| Compiler: corpus, revision identity | read-only files | digest | - | identity is of the bytes |
| Tasks (`tasks/`) | none | workloads, oracles, launch | numerics | the oracle is the reference |
| Command line, serialisation | none | parse, canonical JSON | - | one byte form per document |
| Tools, examples, experiments (`src/tools`, ...) | - | scripts | - | - |

### Hard behaviours, in short

1. **Two durable stores, no transaction.** An event is a file in the Run's
   directory and a witness in an external registry. Every instant between the
   two can be the last one (error, kill, power loss), and none may let a
   history be shortened, forked or continued wrongly.
2. **Reservations made early and spent late.** `RalphController.stop_reason`
   decides once whether a whole turn may begin; what the turn then costs depends
   on what the author submits and on what survives each step.
3. **The same decision made three times.** The loop decides on the raw clock and
   its own turn number, the close on rounded times and the number of
   observations, the replay on what the ledger retained.
4. **A registry of unfinished things.** A promotion is put, started, appended and
   sealed under a lock readers do not take. What a dead one leaves must refuse,
   never be taken for an incumbent and never be completed by another.
5. **One device, many claimants.** Jobs of two scopes meet on one host by flock
   alone, and a lease is a descriptor that `exec` and helpers inherit; a job on a node
   goes on when its client is lost, and its answer may be.
6. **Unordered programs.** Nothing orders the programs of a launch. That no two of
   them write one element is decided once, from AccessMaps, for every extent.
7. **Warps that meet at one bit.** Copy and MMA warp follow each other round a ring of
   stages by the parity of a phase; readout warps follow the MMAs by another; all of
   it is torn down and set up again for every output tile.
8. **Failures anywhere.** One `except` clause must turn an error of any call into
   a ledger whose fault, turn, tokens and unfinished Evaluation replay.

`PROJECT.json` lists each hazard at its line with the property that watches it.

## 2. Plan

| Order | Module(s) | Composes | Abstract specification | Status |
|---|---|---|---|---|
| 1 | `EvidenceLog`, `EvidenceWriter` | ledger, registry, auditor | `EvidenceLog` | done, proved |
| 2 | `RunDecisions`, `RunReplay`, `RunEngine`, `RunProtocol` | engine, budgets, replay | `RunProtocol` | done, proved |
| 3 | `IncumbentChain`, `IncumbentRegistry` | promotions over the ledger's promises and the object store's `put` | `IncumbentChain` | done, proved |
| 4 | `DeviceLeases`, `LocalBroker` | user and device scope, workers and helpers | `DeviceLeases` | done, proved |
| 5 | `EvaluationCall`, `EvaluationJob` | supervisor, client, node, stage | `EvaluationCall` | done, proved |
| 6 | `StudyExecution` | executors and auditor | - | done, proved |
| 7 | `KernelSchedule`, `KernelLaunch` | admission of a Schedule and a launch of its kernel | - | done, proved |
| 8 | `Mbarrier`, `Contraction`, `NativePipeline` | the warp roles of a native kernel, the copy and the tensor engine | `Contraction` | done, proved |
| 9 | `RunEngine` with failing appends | engine on the ledger's failures | `RunProtocol` | open |
| 10 | `ObjectStore` | `put` and `read_object` under power loss | a set of published contents | open |
| 11 | the warp roles of the CuTe-DSL backend | `Mbarrier` | `Contraction` | open |
| 12 | indirect and reservation stores, nests deeper than two, other backends | `KernelSchedule` | - | open |

## 3. Modules and their correspondence to the code

### EvidenceLog, EvidenceWriter

`EvidenceLog` is the promise: a sequence that grows one payload at a time, takes
at most one terminal payload, and may then be sealed once. A prefix of it, and then the
seal, become durable (`kept`, `sealKept`); one loss of power may take what is not, and
ends the ledger.

`EvidenceWriter` is the protocol, one action per file operation.

| Model | Code |
|---|---|
| `stage`, `StartStep` | `EvidenceStore.start_run` up to `WriterCustody.register_run` |
| `events`, `eventTmp` | `events/NNNN.json` and its `.tmp-` files |
| `terminal`, `runTmp` | `terminal.json` and its `.tmp-` file |
| `witness`, `seal` | the registry's `frontiers/` and `seal.json`; `whole` is FALSE between creation and the end of the write |
| `lock`, `Lock` | the flock of `writer.lock` |
| `Refuse` | the refusals of `append`, `seal` and `_append_locked`: partial publication, sealed, terminal already last, an unwitnessed last event |
| `WriteEvent` ... `UnlinkEvent` | `_publish_new_at`: temporary, `link`, `fsync` of the directory, `unlink` |
| `WitnessEvent`, `FinishWitness`, `SyncWitness` | `EvidenceCustody._publish` for a frontier: create, write, the two fsyncs |
| `syncedWitnesses`, `syncedSeal` | which witnesses, and whether the seal, those fsyncs have made durable |
| `Recover` | `seal` finding its own terminal event already witnessed |
| `WriteTerminal` ... `UnlinkTerminal`, `WitnessSeal`, `FinishSeal`, `SyncSeal` | the rest of `seal`, and `_publish` for `seal.json` |
| `Fault` | an operating-system error at any of these; the `finally` clauses unlink and unlock |
| `Crash`, `PowerLoss` | the process dies; the machine dies, and entries and contents no `fsync` covered may be gone or torn (`TearWitnesses`, `TearSeal`) |
| `AuditOpen`, `AuditEvents`, `AuditTerminal`, `AuditCustody` | the four readings of `audit_run`, with no lock |

Abstractions. A record hash is the sequence of payloads it commits to, which is
what a collision-free hash identifies. `custody.py:91-94` syncs a witness's file and then
its directory: the two are one step, `SyncWitness` or `SyncSeal`, since nobody observes the
point between them and a power loss there leaves what one before the first may leave. An
error raised by either leaves the witness whole and not durable. The `RunLedger` object
lives only in the process that started the Run, as in the code, so a crash ends
the writing of that Run. Payloads stand for events by what the protocol asks of
them: is it the terminal one, and is it the same one.

### RunDecisions, RunReplay, RunEngine, RunProtocol

`RunDecisions` holds the pure decisions that the controller and the replay share:
the stop rule and its reservation, the exceeded budgets, the search plan over
equal programs, the nominee, the token checkpoints, the endpoint.
`RunReplay` is the replay as one predicate, `Replays(ledger)`, with one operator
per pass. `RunEngine` is `_execute_run`. `RunProtocol` is what a reader of the
outcome is promised.

| Model | Code |
|---|---|
| `elapsed`, `authoring`, `counts`, `compilations`, `closedAt` | `RalphController`: clock, `_active_authoring`, `_counts`, `_compilations`, `_search_closed_at` |
| `turn`, `stage`, `tokens` | `turn_number`, `live_stage`, `cumulative_tokens` |
| `resolved`, `built`, `plan`, `searched`, `active` | the turn's locals: candidates, builds, searches to do and done, the Evaluation in flight |
| `observations`, `source`, `confirmation` | what turns selected, `confirmation_source_turn`, the `FinalConfirmation` |
| `adherence`, `reason`, `ledger` | protocol adherence, stop reason, the events appended |
| `StopSearch`, `AuthorTurn`, `AuthorFault` | the loop's head and the provider's turn |
| `ResolveActions`, `ResolveFault`, `BuildCandidate`, `BuildFault` | action resolution, builds with `CompilationRecorder` permits |
| `FilterEmpty`, `FilterAllRejected`, `FilterSurvivors` | the candidate filter and its three outcomes |
| `StartSearch`, `SealFault`, `StartAttribution`, `StartConfirmation`, `Answer...`, `EvaluationFault` | `EvaluationWriter`: start, receipt, failure; the failure after attempts without a receipt, or with one that is refused after they were recorded (`CompletedEvent`) |
| `SelectCandidate`, `CloseSearch`, `SealRun` | selection, `complete_search` with nomination, `run_completion` |

Time is a natural number of ticks; `Grid` ticks make one unit of the rounding in
records, so a clock the engine compares raw and the replay compares rounded can
differ. `Grid` is odd: no time lies half-way between two units (`round` on such
ties is a matter of binary fractions, never of the protocol). Limits are any positive
number of ticks: `run_controls.py` and `ralph.py:40-49` admit every positive finite float,
so a limit may lie between two records.

A ledger event is a record with its kind and the fields some decision reads.
Retained objects are what their digests say. What an author submits, a toolchain
accepts, a device measures, how long each takes and whether it raises are chosen.

Left out of `RunEngine`: a failing ledger append (`EvidenceWriter` has what it
leaves behind), the empirical order of search with its cost diagnosis, the
feedback and optimisation-history projections (and so an exception while the
next turn's state card is composed), the reading back of artifacts. A kill in the
middle of a Run leaves it unsealed, which no reader accepts, and needs no action.
Where `_seal_run` refuses, the Run stays unsealed.

### IncumbentChain, IncumbentRegistry

`IncumbentChain` is the promise of ADR 0064: per cell a sequence that grows by one
candidate at a time, each measured against the one it replaces.
`IncumbentRegistry` is the registry with the Campaigns around it. A process
selects its baseline, is admitted, runs, promotes, and may begin another Campaign.

| Model | Code |
|---|---|
| `root`, `OpenStore`, `CreateStore` | `EvidenceStore.writer` of a root that exists, or `create`: directory (`bare`), subdirectories (`unmarked`), marker and custody origin (`ready`) |
| `objects`, `Put`, `Unlink` | `put`: `absent`, `linked` beside its temporary, `whole`; an object that exists is read back |
| `runs` | per cell, one promotion Run per generation with the stage it reached: `started`, `appended`, `sealed` |
| `lock`, `Lock`, `End` | `_writer_lock`: its flock and its `finally` |
| `LaunchExplicit`, `LaunchWithRegistry`, `Materialize` | the baseline selection of `launch_task.py`: an explicit bundle, or `materialize` and the fallback to the starter |
| `listing`, `Unclean`, `ChainHolds` | `_all`: the names of `runs/`, then the audit of every one; `current`: the cell's own chain |
| `BeginAdmission`, `Admit` | `admit_baseline_selection`, at launch and once more at each later admission of the frozen Campaign |
| `Confirm` | the Campaign's end and the source checks of `_publish_incumbent` before the lock |
| `ReadCurrent`, `StartPromotion`, `AppendPromotion`, `SealPromotion`, `Reread` | the rest of `_publish_incumbent` |
| `Fail`, `Kill` | a call that raises, a process that dies, between any two operations |

Abstractions. A promotion's Run is audited clean exactly from its seal on, which is
what `SealedRunAuditsClean` shows of the ledger in `EvidenceWriter`, so its three stages
are what readers can tell apart. A Run that is clean stays clean; a replay of
several Runs therefore accepts or refuses as if it looked at all of them at one
instant after the listing. Candidates are sealed contents; their artifacts and
receipt are a set of object contents, which two candidates may share. Generations
count from 1 in the model, from 0 in the code. Power loss is left out.

### DeviceLeases, LocalBroker

`DeviceLeases` is the promise: a job is granted the device only while no conflicting
job has it. `LocalBroker` is one host with one kind of device.

| Model | Code |
|---|---|
| `barrier`, `lease`, `keep` | the open descriptors: the shared one of the user lock, who has the exclusive one open (of the user lock or of the device's), and which of them `exec` keeps |
| `ShareUserLock`, `LockDevice`, `ReleaseBarrier`, `LockUser` | one non-blocking round of a device-scope and of a user-scope job |
| `Sleep`, `Refuse` | the pause between rounds and the end of the queue time |
| `Publish`, `Become`, `BeginWork` | the admission in the environment, `exec` of the worker, its own check of the admission (`Admissible`) before it works |
| `StartHelper`, `EndHelper` | the native helper that inherits the lease (`metal_device_process.py`) |
| `Finish`, `CloseBarrier`, `CloseLease`, `Die` | the ways out; the kernel drops a lock with its last descriptor |

`Patience` bounds how often a job sleeps; the code bounds it by time. Every worker may
die between any two steps, and a helper may outlive its worker.

### EvaluationCall, EvaluationJob

`EvaluationCall` is the promise to the Run: at most one job works for an evaluation,
and an answer other than a fault ends the matter. `EvaluationJob` has its four parties.

| Model | Code |
|---|---|
| `answer`, `attempt`, `Supervise` (`Answer`, `Resubmit`, `Fault`, `Expire`, `Abandon`) | `BoundedBrokerEvaluator`, `run_supervised`, `attempts.py` |
| `client`, `mine`, `seen`, `output`, `Client` (`Submit` ... `Return`, `Cancel`, `Fail`) | `gpu_infra.submit` |
| `stage`, `result`, `used`, `Stage` | `gpu_infra.stage` and the worker, `tasks/evaluate.py` `main` |
| `owner`, `state`, `cancel`, `Node` | the node: a service outside the repository, modelled as the client uses it and marked external |

A submission is a message: the node may take it after its sender gave up. Any party may
stop at any step. What a receipt says is left out; a torn result file is `NoJob`.

### StudyExecution

Executors go through the allocations in order; an auditor reads while they work.

| Model | Code |
|---|---|
| `prepared`, `Prepare` | `prepare_study`: a root that exists is never prepared again |
| `Start`, `Check` | `execute_study` up to the end of the loop that looks for attempts (one step: what it found untouched last was untouched at its start) |
| `Admit`, `Seal`, `ReturnRun`, `Raise`, `OpenRecord`, `WriteRecord` | one allocation: its evidence root, its terminal file (with or without a whole seal), and either the return or an exception, which `seal` may raise after both, and then `failure.json` (created, then written) |
| `Die` | the executor dies between any two of these |
| `BeginAudit`, `ReadFailure`, `ReadEvidence`, `Report` | `study_analysis`: rows, then the estimand with its missingness bounds |

`Effect`, `Lower` and `Upper` are exact rationals (doubled coefficients); a Run's inner
ledger is its result, which the Run engine's model explains. Of a Run that has ended the
result says what an audit makes of it: verified with its outcome, `unverified` (custody or
replay not confirmed), or `refused` (the audit or the replay raises, and the row keeps what
the failure record made of it: `RefusedRow`).

### KernelSchedule, KernelLaunch

`KernelSchedule` translates what decides which program touches which element of global
memory: the rules of the Verifier and the Triton preflight that admit a Schedule
(`Admitted` and its conjuncts), and the kernel that the emitter writes for it, as the
sequence of instances each program executes (`ProgramText`), their coordinates and
masks. `KernelLaunch` authors one Schedule of a given set, judges it, and launches its
programs concurrently.

| Model | Code |
|---|---|
| `ProgramMapSound`, `LoopNestSound`, `AccessSound` | resolution and shape of program axes, loops and AccessMaps |
| `OutputStoreOwned`, `StateStoreOwned`, `LoopStoreOwned` | the ownership rules of `verifier/program_safety.py` |
| `DataFlowSound`, `DependenciesInOrder` | declaration order, `depends_on`, and their order in emitted scopes |
| `Lowerable` | the Triton preflight |
| `WellFormed` | the fields as the parser types them, names and dimensions resolved; the Schedules of the run satisfy it (`ScheduleAssumption`) |
| `Order`, `BodyOfKernel`, `LoopText`, `CTAs`, `Remainder`, `Decompose`, `Work` | the emitter's placement of loops and its direct or persistent grid |
| `Coordinates`, `FirstNaming`, `Bound`, `Masked`, `Touched`, `Skips` | address, mask and the skipped body of a valid prefix |

A coordinate that an AccessMap names at two positions is one vector on one axis of the
tile (`_dimension_vector`, `_broadcast`): its lanes run along the diagonal, and `_bound`
masks them at both positions by the extent of the first. `MaskSuffices` says of an access that
no such extent is larger than the one it indexes.

Left out: values, registers, dtypes, layouts, every operation that touches no global
memory, indirect and reservation stores, a loop's early stop, nests deeper than two.

### Mbarrier, Contraction, NativePipeline

`NativePipeline` is one CTA of a kernel that `_Emitter` writes for a Schedule with
tensor-core contractions. Its text is a list of segments at kernel scope, and a warp
enters those its role condition admits; the model's `pc` names the segment a warp is in.
`Contraction` is the promise: tile by tile, an accumulator is published once, every
readout warp takes the complete product of that tile, and only then the next begins.
`Mbarrier` has the barrier object as the wrappers drive it.

| Model | Code |
|---|---|
| `Schedules`, `Admitted` | what `preflight` and the Verifier leave open: stages, steps, tiles, MMAs per stage, how each operand is moved, which warp has thread 0, which role allocates, whether the readout is declared first |
| `ready`, `free`, `done` | the declared barrier of the pipeline, its `free` counterpart, the completion barrier of each MMA |
| `smem`, `acc` | the operand tiles of a stage, the contributions of an accumulator, each tagged with the tile and step it belongs to |
| `Setup`, `InvalidateRing`, `InvalidateCompletions` | `pipeline`'s and `invalidate_completions`' blocks of thread 0 |
| `AwaitFree`, `LoadTma`, `LoadGlobal` | the producer loop of `pipeline` |
| `IssueStep`, `Drain` | its consumer loop: MMAs, commit of the stage, publication, drain |
| `AwaitDone`, `ReadTmem` | `operation` for a load out of tensor memory |
| `Alloc`, `Dealloc` | the first and last blocks of `emit` |
| `ToTile` ... `ToEnd`, `Beyond`, `Syncthreads` | the order in which `emit`, `sequence`, `loop` and `pipeline` place segments and `__syncthreads` |
| `Deliver`, `Execute` | the copy engine (any order) and the tensor engine (issue order); external |

A wait on memory that holds no barrier may return. Left out: more than one pipeline per
tile, registers and their arithmetic, addresses, descriptors, stores, the host.

## 4. Model-checking runs

| Run | Instance | Shows |
|---|---|---|
| `evidence_writer` | two threads, two calls each, one observation, two outcomes, one fault, crash and power loss in each window, fairness (533,246 states) | `WitnessedChain`, `AcknowledgedKept`, `TrustedAuditIsFinal`, `SealedRunAuditsClean`, `SealedRunIsImmutable`, `CallsEnd`, `PendingSealRecovers`, refinement of `EvidenceLog` |
| `run_engine` | two turns of up to two candidates, two of which spell one program, one native compilation permit, every survivor profiled, two latencies, tokens past two checkpoints | `TurnReservation`, `SealedRunReplays`, `OmissionIsRefused` (no event of an adhered ledger can be left out), `NoBackfill`, refinement of `RunProtocol` |
| `run_clock` | calls of 0, 2 or 4 ticks on a grid of 3; a search wall of 10 and an authoring limit of 4, both between two records, that they reach and overshoot; legacy profile, fairness | `SearchStopIsDeclared`, `QualifiedWithinBudget`, `RunEnds` |
| `incumbents` | two processes, two cells, three Campaigns, two candidates that share a content, one kill or error, fairness | `SealedIsReadable`, `AdmittedAgainstCurrent`, `PromoterMeetsNoHalfPromotion`, `AbandonedIsNeverRepaired`, refinement of `IncumbentChain`, `PromotionsEnd` |
| `incumbents_cells` | two Campaigns | a counterexample, section 7 |
| `local_leases` | one user-scope job with a helper, two device-scope jobs of one card and one of another, one sleep each, fairness | `LeasesExclude`, `SleepersRefuseNobody`, refinement of `DeviceLeases`, `JobsEnd` |
| `job_transport` | two evaluations, two runs of the node, fairness of the supervisors | `ReceiptIsOwn`, refinement of `EvaluationCall`, `EvaluationEnds` |
| `study` | two allocations of two conditions, two executors that may both die, a seal that raises before or after it is whole, archives the audit refuses, one audit | `NoReplacement`, `EstimandIsOfOneExecutor` |
| `kernel_launch` | 2832 Schedules over 3 x 2 elements: state updates, outputs with tails and valid prefixes, loop nests, direct and persistent grids, tiles named twice; 418 are admitted and launched | `RegionsAreOwned`, `WrittenWhole`, `InBounds`, `DependenciesMet` |
| `kernel_state_read` | the same Schedules | a counterexample, section 7 |
| `native_pipeline` | two readout warps, seven shapes of one to three stages, one to five steps, one or two tiles and MMAs, bulk and staged copies, thread 0 and the allocating role in three places each, fairness | `BarriersOutliveTheirUsers`, `StageHeldUntilExecuted`, `AccumulatorHeldWhileRead`, `KernelEnds`, refinement of `Contraction` |
| `native_readout_first` | two stages, steps and tiles, the readout declared first | a counterexample, section 7 |

Why the bounds are enough. In the ledger two threads give every interleaving of
two holders of the lock, two calls each give an append followed by a seal and a
seal followed by its retry, and one fault suffices to leave each kind of debris,
since debris makes all later calls refuse. In the engine two turns are what it
takes for the nominee to be of an earlier turn, for a turn to be cut short after a
complete one, and for a checkpoint to be crossed before a better candidate comes;
two candidates of a turn, which may be two spellings of one program, are what it
takes for a plan to shrink and for a later candidate to meet the stage an earlier
one left. `SearchLimit` 3 with two searches a turn makes the second turn's
reservation fail. In the registry two processes give a holder of the lock and a
reader or a waiter; three Campaigns give a promotion, a second generation of the
same cell and one more of another cell or with a stale baseline; one interruption
leaves each kind of debris, since debris refuses all that follows. Among the leases
one user-scope and two device-scope jobs of a card are the smallest set in which both
kinds of conflict, a shared barrier and a job of another card that must not be hindered
occur at once; one sleep is a failed round followed by another. On the node two runs are
what a resubmission, or a run of another evaluation to be mistaken for the own, needs.
In the Study two conditions give a contrast, and two executors one after a dead one or
two that overlap. Extents of 3 with tiles of 2 have a tail, two slots for three tiles make a
persistent program iterate, and most authored Schedules break one rule each, so a rule
dropped from the Verifier admits something wrong. In the native kernel three laps of one
and of two stages are what one bit can confuse, fewer steps than stages leave a stage
unused, steps that do not divide leave the laps uneven, two tiles reuse every barrier, and
two readout warps (of four in the code) can be apart from each other. Every bound is a named constant of a `.cfg`.

`study` uses the symmetry of executors, which no property tells apart; no run with a
liveness property uses symmetry. Deadlock is not checked because a sealed Run, a process
that has made its calls or died, answered evaluations, finished kernels and Campaigns at
their bound really stop; a Run stuck before its end would violate `RunEnds`, a stuck call
`CallsEnd`, a stuck promotion `PromotionsEnd`, a stuck job `JobsEnd` or
`EvaluationEnds`, a stuck kernel `KernelEnds`.
Where one run has several questions at once they share the instance on which each can fail.

Some properties name the cases in which the code does not keep them.

- `RegionsAreOwned` is about the stores that some rule judges. A persistent grid whose
  output store omits an axis is judged by none: `verifier/program_safety.py:61` refers it to
  "existing analyses" that do not exist for it. It is a hazard no property covers.
- `InBounds`, and `RegionsAreOwned` for outputs, are about accesses whose mask suffices.
  `src[4, 2]` indexed by `(m, m)`, one tile axis at both positions, is masked by `m < 4` twice and
  reads address 9 of 8; of an output `dst[M, 6, 2]` indexed by `(m, n, n)` two programs write
  address 24. The Verifier (`verifier/data_consistency.py:1704-1838`) admits both, and the
  preflight (`backends/triton.py:437-448`) refuses a repeated tile only in buffer-indexed
  loads. Such kernels are among those of the run; without the condition TLC refutes
  `InBounds`.
- `SealedRunReplays` excludes three faults after which a Run is sealed that its replay refuses.
  Under the legacy policy `correctness_then_profile` the confirmed nominee is
  profiled last (`lab/execution.py:573`); when that Evaluation raises,
  `lab/replay/selection.py:353` asks for the missing profile (`ProfileFault`). An
  Evaluation's attempts are recorded with their receipt before its authority is compared
  and its objects are archived (`lab/evaluation_writer.py:78-96`); when either raises, the
  receipt stands without its `candidate_evaluated`, which `lab/replay/candidates.py:270-279`
  and `attempts.py:83-88` refuse (`ReceiptStranded`). And when `complete_search` finds no reason, its
  fault names a turn nobody began (`StopUndeclared`).
- `SearchStopIsDeclared` excludes a clock that has reached its limit and rounds to less
  (`RoundedShort`): the loop stops on the raw clock, and `complete_search`
  (`lab/ralph.py:196-201`) finds no reason on the rounded one and raises. Only a limit between
  two records allows it; `GridStops` proves that limits on the records' grid do not.
- `AcknowledgedKept` excludes one witness, and only from a power loss: that of a terminal
  event whose first `seal` raised in the witness's fsync. The `seal` that recovers finds the
  witness readable and does not sync it again (`evidence/store.py:963-987`). `TrustedAuditIsFinal` and
  `SealedRunIsImmutable` keep events and terminal file through everything; witnesses
  and seal may be lost with power until their fsyncs have ended (`Durable`), also when an
  auditor, which takes no lock, has already trusted them.
- `NoReplacement` counts an allocation as ended also when its Run ended beside a failure record,
  because `seal` raised after `seal.json` was whole, or when the audit refuses its archive
  (`Contradicted`). `lab/study_analysis.py:132-133` raises on the first: such a Study cannot be
  audited to an estimand.

`TrustedAuditIsFinal` asks for both flags of an audit, as the
consumers that make claims do: an audit that stops before it has compared the registry
(`evidence/store.py:662`) returns the custody flag of the file modes alone, beside an
`archive_integrity` of FALSE. `SealedRunAuditsClean`
excludes power loss: the removal of the temporary of `terminal.json` is not
synced, so it may come back and an honest audit then reports it.

Each property of a passing run has a mutant in `PROJECT.json`: a plausible slip in the code that
makes TLC find the property violated under the same configuration.

## 5. Fairness

- `EvidenceWriter`: weak fairness of each thread's next file operation. The
  kernel keeps scheduling a live thread and `flock` wakes a waiter. No fairness
  is assumed of new calls, faults, crashes or the auditor. With it `CallsEnd`
  says that no path leaves the lock held.
- `RunEngine`: weak fairness of the next step. The process runs on, and every
  provider, compiler and device call is bounded by a timeout in its adapter, so
  it returns or raises. Which, and with what, is not assumed.
- `IncumbentRegistry`: weak fairness of each process's next step of a promotion.
  The kernel schedules a live process and gives a flock that is free for good to
  one that waits. Nothing is assumed of launches, admissions, kills or errors.

- `LocalBroker`: weak fairness of each job's next step of a round, of its work and of
  the closing of what it held: a live worker runs and the kernel closes what a dead
  one had open. A helper ends while its worker lives, by itself or at the worker's
  timeout; nothing bounds a helper whose worker died. Nothing is assumed of deaths, nor
  of a lock being free when it is tried.
- `EvaluationJob`: weak fairness of each request's supervisor alone. Its wait has a
  limit, after which it kills the process group. Client, node and stage may all stop
  for good, and `EvaluationEnds` holds.
- `NativePipeline`: weak fairness of each warp's next step, of the rendezvous and of the
  two engines: the warps of a resident CTA are scheduled and started copies and MMAs
  complete. Nothing is assumed of a wait whose phase never ends.
- `StudyExecution` and `KernelLaunch` state none: nothing restarts an executor, and a
  launch has no promise of progress beyond the device's.

## 6. Proofs

### Evidence ledger (`EvidenceWriterProofs`)

Assumptions: `NoWriter` is no thread; observations and terminals are disjoint and
there is a terminal; the bounds are naturals. Threads, payloads and bounds are
otherwise arbitrary.

The invariants of the runs are not inductive. What is missing is where each
thread is inside its publication relative to the files, and what of that outlives a power
loss. `IInv` is the conjunction of `TypeOK`, `Exclusion` (only the holder of the lock is
inside), `Stopped` (nothing but audits runs after a power loss); until power is lost,
`LogInv` (`Dormant`: nothing exists before `start_run` has returned; `Chained`: the log;
`Frontier`: how far the witnesses lag; `Synced`: only finished witnesses are durable;
`Archive`: terminal file and seal against the log; `Acknowledged`) and `Progress`
(what each label implies about its files and their fsyncs); at every time `Lasting` (what
of this a power loss cannot take) and `Verdict` (what the audit in progress has read is
the final history, and its witnesses last once they are durable). `SealedRunAuditsClean` needs more, which `Clean` adds:
which temporary files there can be at each label of the thread inside the lock
(`TemporariesOf`: its own, or none, since a call refuses or removes what others left),
that none outlives the seal without a power loss, and that an audit begun after the seal
has met the sealed log only. From these:

| Theorem | States |
|---|---|
| `Typing` | `TypeOK` |
| `WitnessesFollowEvents` | `WitnessedChain` |
| `Durability` | `AcknowledgedKept` |
| `OwnRecord` | `ReturnsOwnRecord` |
| `TerminalIsWhole` | `TerminalNamesTheLog` |
| `NamesAreFree` | `PublicationNameIsFree` |
| `TrustedAudit` | `TrustedAuditIsFinal` |
| `Immutability` | `SealedRunIsImmutable` |
| `Orphans` | `OrphanIsNeverAdopted` |
| `CleanAudits` | `SealedRunAuditsClean` |
| `Refinement` | `ImplementsLog` |

### Run engine (`RunEngineProofs`)

Assumptions: `NoCandidate` is no candidate and the programs are defined
(`CandidateAssumption`); limits are naturals (`BudgetAssumption`,
`TokenAssumption`); the grid is odd and limits are positive (`GridAssumption`);
durations and submissions are well typed, and a submission names a candidate
once (`InputAssumption`).

`TurnReservation` says that an Evaluation about to start is affordable. It is not
inductive: the stop rule looked at the counters turns of phase ago. `IInv` carries its
reservation along: `TurnReserved` (what the turn may still search and profile
fits), `ConfirmationReserved` (nothing was charged to the nominee's purposes before
nomination), `InPhase` (which plan and Evaluation belong to which phase) and
`WithinLimits`, with `TypeOK`. Building on `StopRuleReserves` (a stop rule that
answers none leaves room for `SearchesPerTurn` searches and profiles) and
`SearchPlanFits` (a plan is no longer than that):

| Theorem | States |
|---|---|
| `RunTyped` | `TypeOK` |
| `RunReserves` | `TurnReservation` |
| `RunWithinLimits` | no purpose is charged beyond its limit |
| `SearchPlanFits`, `SearchPlanMeasuresPrograms`, `StopRuleReserves` | facts about the decisions |

What the Run promises about its outcome relates the stop, the nominee and the record of
both, over the whole Run. A second inductive invariant `JInv`, on top of `IInv`, says it:
`Turned` (the observations are the completed turns, in order, each with more tokens), `Declared` (a
loop that has left search left it for a reason that the decision on rounded clocks
finds as well, unless a clock rounds short of its limit), `Nominated` (the source is the nominee of the observations, and any
confirmation is of it and the only one) and `Recorded` (the ledger holds the one
completion of search at the time `closedAt` says, the one confirmation, and the
endpoint of what was sealed). Where the two clocks agree it is arithmetic: rounding is monotone, and
a limit on the grid is reached by the rounded clock when the raw one has reached it.

| Theorem | States |
|---|---|
| `SearchStops` | `SearchStopIsDeclared`, for any limits |
| `GridStops` | with limits on the records' grid a close always finds its reason |
| `CurveIsSettled` | `NoBackfill` |
| `SuccessIsWithinBudget` | `QualifiedWithinBudget` |
| `RunImplementsProtocol` | `ImplementsProtocol` |

### The independent replay (`RunEngineProofs`, `RunReplayProofs`)

`SealedRunReplays` compares two programs that share little: a controller that holds
counters, a plan and observations, and a replay that has only the ledger and re-derives
all of it in a dozen passes. At the seal it is too late to ask; the relation has to be
kept at every step. `KInv` is that relation, on top of `IInv` and `JInv`, for a Run not
yet sealed. It was evaluated by TLC on the instances of `run_engine` and `run_clock`
before it was proved. Its parts:

- `InOrder` is about the ledger alone, given the controller's turn, clock, tokens and
  counters: it is `Formed` (one start, nothing that seals), `Ordered` and `Dated` (turns and
  times never go back or past the present one), `Numbered` and `Preceded` (each settled
  turn has its four events once and in their order, the next at most once),
  `Paid` (tokens), `Permits` (each compilation started under the next number and completed
  at once), `Chained` and `Tallied` (each Evaluation placed where its purpose may stand,
  followed by its own answer, and as many as were charged), `Sifted` and `Sealed`
  (filters, rejections, seals), `Done` (each settled turn's selection, observation, profiles
  and diagnosis are what its receipts give).
- `Standing`, `Submitting`, `Measured` and `Launched` say how the turn in progress
  continues it: which of its events stand, that the rows of the filter are the builds so far,
  that the searches done and the plan left make up the plan a replay computes, and
  which Evaluation is in flight.
- `Faulted` and `Unturned` say where a fault may stand: last, with the stage, turn and
  tokens of the controller, also when no turn was completed.
- `Closed` and `Confirmed` are about what follows search: the recorded close against the
  counters and clocks, the nomination next to it, the confirmation and profile of that
  nominee.

`RunEngineProofs` has the lemmas about a ledger that grows (`Grown`, `Adds`, `Stays`: an event
of a kind a pass does not own leaves the pass standing) and the steps that raise;
`RunReplayProofs` has the others, the theorem `RunStands` and, with `ObservationsRebuilt` (an observation is all its turn, tokens,
candidate and latency say), one lemma per pass for the sealed ledger. A close that finds no
reason leaves a ledger `KInv` does not describe: `RunStands` has `KInv` or `Undeclared`, with
`Staged` (which stage such a fault is blamed on) to show that the Run is then sealed and is
the case `SealedRunReplays` excludes.

That nothing can be left out is then a fact about ledgers, not about steps. `Unbroken(log)`
collects what a sealed, adhered ledger has. For a ledger `short` with one event
missing (`Omits`), eight lemmas, by the kind of that event, find the pass that refuses it: the
frame (`FrameOmitted`), the turn's numbering, which every pass counts (`TurnOmitted`), a permit or
an Evaluation's step that loses its neighbour (`PairOmitted`), the close, the
filter, a rejection, a seal, a diagnosis. Positions behind the gap move by one (`Place`), which
is why sets of positions are related by bijections and not by equality.

| Theorem | States |
|---|---|
| `RunStands` | `IInv`, `JInv`, and `KInv` unless the search ended undeclared |
| `RunReplays` | `SealedRunReplays` |
| `RunOmitsNothing` | `OmissionIsRefused` |

### Task incumbents (`IncumbentRegistryProofs`)

Assumptions: `Nobody` is no process, there is a cell, the starter is a candidate and
artifacts are sets of objects, the bounds are naturals. The properties say what a
registry shows to readers without a lock and after deaths; the invariant has to say
who may be in the middle of what. `Locked`: the flock is held by the one process that
promotes. `Chained`: in each cell only the last Run may be unsealed, and each is measured
against its predecessor. `Promotes`: what each label of the promoter implies about objects
and Runs, in particular that the listing it began with is still the registry. `Launches`:
a Campaign's baseline stands on a sealed generation and no listing is ahead of the disk.
`Uninterrupted`: while nothing died, whatever is half done has a process that does it.

| Theorem | States |
|---|---|
| `Typing` | `TypeOK` |
| `SealedReadable` | `SealedIsReadable` |
| `Admission` | `AdmittedAgainstCurrent` |
| `NoHalfPromotion` | `PromoterMeetsNoHalfPromotion` |
| `NeverRepaired` | `AbandonedIsNeverRepaired` |
| `Refinement` | `ImplementsChain` |

### Device leases (`DeviceAccessProofs`)

The module holds the proofs of both ways to a device, here and in the next section; the
two share no state, and `LocalBroker` names its specification `BrokerSpec`.

Assumption: user and device jobs are disjoint, executing and observing jobs are jobs,
helpers belong to user jobs, patience is a natural. The inductive invariant adds to
`BrokerTypeOK` what each label implies about the descriptors, and that conflicting descriptors
never coexist: that is what flock gives, and what `exec` and an inherited lease must not break.

| Theorem | States |
|---|---|
| `BrokerTyping` | `BrokerTypeOK` |
| `Exclusive` | `LeasesExclude` |
| `SleepersHoldNothing` | `SleepersRefuseNobody` |
| `BrokerRefinement` | `ImplementsLeases` |

### GPU transport (`DeviceAccessProofs`)

Assumption: `NoJob` is neither job nor request. The invariant ties the client's place
and its run to the node's account, a result file to the work of its stage, and the
attempt to what earlier runs did: a second attempt begins only after a run that
refused the device, and whatever else was submitted is settled or unused.

| Theorem | States |
|---|---|
| `Typing` | `TypeOK` |
| `OwnReceipts` | `ReceiptIsOwn` |
| `Refinement` | `ImplementsCall` |

### Study execution (`StudyExecutionProofs`)

Assumptions: a plan has an allocation, an effect gives finitely many conditions a
coefficient, a whole number when doubled (`StudyAssumption`). The invariant adds to `TypeOK`
that both artifacts of an allocation have one creator and are written by it alone
(`Exclusive`, which also knows the whole terminal file of an executor that has not returned), that an executor finishes allocations in order (`InOrder`), that until two
have worked at once the one at work found everything ahead of it untouched (`Alone`), and that an
auditor's row names only who is on the disk, and is the disk's outcome while nobody works
(`RowsAreRead`).

| Theorem | States |
|---|---|
| `StudyTyped` | `TypeOK` |
| `AttemptedOnce` | `NoReplacement` |
| `OneExecutorsEstimand` | `EstimandIsOfOneExecutor` |
| `BoundsCover` | `MissingnessBoundsCover` (by proof alone: no run lists it) |

The bounds are sums over the conditions of an effect of counts over the rows of a report,
both folds. `SubsetInduction` and `UpwardInduction` give the induction over data that
they need without an operator as parameter, from the well-foundedness of the strict
order of the subsets of a finite set: a counterexample would have a minimal one. With it, an
effect is monotone in its counts, in the direction of each coefficient's sign.

### Native kernels (`NativePipelineProofs`)

Assumptions: copy and issue warp differ and are no readers, there is a reader, every
Schedule is `Admitted`, which gives positive sizes (`ConstantsAssumption`). The theorems
are for `ReadoutBehind`: no Schedule declares the readout before the contraction. It is a
hypothesis of each theorem, not an assumption of the model, because the preflight does
not check it; section 7 shows what happens without it.

The properties look at one barrier, stage or accumulator at a time. That they hold
depends on how far the warps and the engines are apart, which no variable records. The
invariant recovers it: in the ring and while reading there are numbers `f`, the steps whose
commands the tensor core has executed in full, and `o`, how many it has executed of what
follows (the commands of the next step, or after the last step the accumulators' notices),
such that `FlowAt(f, o)`. Its parts: `Ordered(f)` (the copy warp is at most a ring
ahead of `f`, the issue warp between the two), `Queued(f, o)` (the queue is the commands
from there to the issue warp's place, in order), `Held(f)` (which operand each stage has,
or which copies to it are in flight), `Ring(f)` (each barrier's phase and pending count are those of its
uses so far, so that one bit of parity names one lap), `Accumulators(f, o)` and
`Readouts(o)`. Around it `Lockstep` and `Roles` say that warps are between the same two rendezvous
and which of them may be in which segment; `Allocated`, `Idle` and `Opened` what is so
where no ring runs; `Outputs` that a reader has taken exactly the accumulators before its own
place in the tile. Each action keeps the numbers or moves one of them by one.

| Theorem | States |
|---|---|
| `KernelTyped` | `TypeOK` |
| `BarriersOutlive` | `BarriersOutliveTheirUsers` |
| `StageHeld` | `StageHeldUntilExecuted` |
| `AccumulatorHeld` | `AccumulatorHeldWhileRead` |
| `KernelImplementsContraction` | `ImplementsContraction` |

For the refinement an executed notice is the abstract publication, a read the abstract
take, the invalidation of the completion barriers the step to the next tile; every
rendezvous and every other step is a stutter.

### The launch of a kernel (`KernelScheduleProofs`)

Assumption: `ScheduleAssumption`, that each authored Schedule is `WellFormed`. It says what
the parser accepts (extents, tiles and components are positive or natural) and what the
Verifier's name and range checks leave (names and dimensions resolve), and it bounds
the loops by two, the one bound that is the model's. Extents, tiles, ranks, axes,
walks, bodies, AccessMaps, dependencies, resident CTAs and valid lengths are otherwise
arbitrary.

| Theorem | States |
|---|---|
| `RegionsOwned` | `RegionsAreOwned` |
| `AccessesInBounds` | `InBounds` |
| `DependenciesRespected` | `DependenciesMet` |
| `StoresWhole` | `WrittenWhole` |

The run executes a program text that is flattened from loops and work items by folds. The
proof first says what that text is, without executing it:

1. *Flattening.* `FlattenSeq` puts its sequences side by side (`Flattening`), and a
   concatenation of rows that list disjoint sets, none depending on a later one, lists their
   union (`FlattenLists`). `Lists(R, S, B)` says that `R` has the elements of `S`, each
   once, and each after those that the relation `B` puts before it.
2. *Loops.* The preflight's `Contiguous` makes the operations of a loop an interval
   (`EntryOrder`, `LoopInterval`), so a loop emitted at its first operation moves past
   nothing (`PlacesApart`), and the emitted body lists every instance after all
   earlier operations that agree with it on the loops they share (`KernelListed`).
   `DependenciesMet` is a consequence.
3. *Work items.* The walk of a persistent grid is a mixed-radix numbering: distinct items
   have distinct axis values and every point of the grid has an item
   (`DecomposeInjective`, `DecomposeReaches`), and the programs share the items out
   without overlap or loss (`WorkIsDisjoint`, `WorkCovers`).
4. *Regions.* Two executions of a judged store differ in an axis or in a loop that the
   ownership rule makes the AccessMap use, and tiles of one axis are disjoint (`StoresApart`).
   Conversely, `StoresWhole` divides the coordinates of an element by the tiles to find its
   one execution, and shows that its program is not skipped and has run.
   `TouchedInBounds` needs no invariant: sufficing masks and `ComponentSound` are enough.

The invariants of the run are not inductive: that a store finds its region unwritten
depends on which stores have run. `IInv` adds, for a launched Schedule, that it was admitted and
passed lengths in range, that each program has executed a prefix of its text, and that an
element is written exactly if a store that touches it has been executed. Then the next store
cannot meet a written element: the execution that wrote it is another one, of the same
store, and those touch nothing in common. A load of the state with the update's AccessMap
meets nothing updated: at another point of the grid the regions differ, and at its own the
store comes later in the same program's text.

`RegionsAreDisjoint` and `RegionsCoverState` state the same of the rule of ADR 0069 alone,
with weaker hypotheses than `WellFormed`.

Steps 1 and 3 are inductions over data. The library's induction theorems cannot be used
here, so `Upward` derives induction along an interval from the well-foundedness of the
subset order on a finite set, and `Recursion` the existence of iterates.

### Only model-checked

`ReturnsOwnRecord`, `TerminalNamesTheLog`, `OrphanIsNeverAdopted` and `PublicationNameIsFree`
are proved and need no run of their own. Every invariant and action property of a passing
run, and every refinement, is proved. Without a proof are:

- `CallsEnd`, `PendingSealRecovers`, `RunEnds`, `PromotionsEnd`, `JobsEnd`, `EvaluationEnds`,
  `KernelEnds`: liveness under fairness.

The prover handles neither liveness nor `ENABLED`, nor `RECURSIVE` operators (no module
declares one), nor the library's induction theorems, whose parameter is an operator;
`KernelScheduleProofs` shows how far induction goes without them.

## 7. Where the code and its documentation disagree

**Cells that do not advance independently** (`incumbents_cells`). The docstring of
`TaskIncumbentKey` (`lab/incumbents.py:47`) calls it "One exact comparison cell whose
winner may advance independently", and ADR 0064 lets one registry root serve a
matrix of tasks, each resolving its own key. `current` audits every Run of every
cell (`_all`, `lab/incumbents.py:397-415`) before it takes the key's own. While a
promotion of one cell is between `start_run` and the end of its seal, and for good
once it was interrupted there, selection, admission and promotion are refused in
all cells. That an incomplete promotion refuses is the ADR's decision; that it does
so beyond its cell is not what the docstring says. Nothing wrong is admitted or
promoted.

**A state load that reads more than its program owns** (`kernel_state_read`). The
comment at `compiler/verifier/program_safety.py:390` justifies loads of a state with
"State exists before the Schedule. A same-role load may read that initial value before
the one admitted ordinary update." The exception is granted by declaration order, which
is order within one program. The stores of the programs partition the state; the load's
AccessMap is not restricted. One that addresses all rows, or another program's, passes the
Verifier and the preflight, and may meet rows that other programs of the launch have
updated. A load with the store's own AccessMap does read the initial value, which
`RegionsAreOwned` includes.

**A readout declared before its contraction** (`native_readout_first`).
`src/docs/NATIVE_CUDA_DESIGN.md:110` describes the life of an accumulator's barrier:
"initialize count one, issue all K iterations, commit once from the MMA issuing thread,
wait successfully on phase zero before TMEM readout, then invalidate after all readouts."
`verifier/program_safety.py:397` takes a barrier that both operations use for an order,
whichever is declared first, and the preflight (`native_cuda.py:322-329`, `348-358`) asks
for the barrier and the scope of a readout, not for its place. The emitter keeps the
declaration order. A Schedule with the readout in front of the contraction loop is
admitted; its readout warps wait on an mbarrier that was not initialised yet (in the next
tile: that was invalidated) and read an accumulator nothing was computed into. With the
readout behind the contraction every property of the model holds.

## 8. What is not modelled

The mapped code is the part of the repository whose state changes in steps, or whose
decisions are finite and protect such steps. Most of the rest, by lines, is out of a
model's reach or has nothing for one to say: numeric kernels and oracles (`tasks/`,
`experiments/`), the emitters' text, validation of frozen documents field by field,
reports, and scripts. What a model of those would state is what the code states.

- Run admission, providers, builds, reports, drivers: sequential validation,
  adapters of foreign programs and projections. The Run engine sees each as a call
  with its possible outcomes.
- The object store beyond `put` as promotions use it.
- Timing statistics: floating-point arithmetic.
- In the ledger: `EvidenceStore.create` and `store_verified` (the origin of the
  whole store) are taken as passed; secret detection, sizes and file modes are
  properties of data the protocol does not change.
- In the Run engine: appends that fail; an exception while the next state card is
  composed. Both are listed as hazards.
- In the registry: power loss, the source Campaign's own replay before the lock, and
  which candidate is a material win (arithmetic on the receipt). A prepared baseline
  (`--prepared-baseline`) is a `Materialize` whose admission comes later.
- In the replay: the bytes of retained objects, feedback and history.
- In the leases: the environment's text and the kinds of device beyond one at a time.
- In the transport: the contents of the staged directory and of the receipt.
- In the Study: how the plan orders its allocations, and the statistics beyond contrasts
  and their bounds.
- In the Compiler: passes, dtypes, layouts, data consistency of values, cost models,
  the backends other than Triton and native CUDA, and what section 3 lists under
  `KernelSchedule` and `NativePipeline`. The CuTe-DSL backend has warp roles of its own;
  its emitter places some operations by role rather than by declaration order, which
  asks for a model of its own.
