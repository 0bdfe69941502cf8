# The VPUX compiler and its runtime: a TLA+ development

The VPUX plugin turns a network into a function of *tasks* (DMAs, DPU and
SHAVE workloads) for the executors of an NPU and runs it there. Three parts of
it decide whether the result is right for reasons that a test on one network
says little about, and these are modelled:

- *barriers*: executors run independently, and the only thing that orders tasks
  of different executors is barriers. The function is compiled with any number
  of *virtual* barriers, the device has a few *physical* ones, each with a few
  slots. A mistake is a network that hangs or computes with data that is not
  there yet;
- *memory*: every buffer gets a place in a small scratchpad (CMX) for the time
  that it is needed, and is spilled to DDR and brought back when there is not
  enough. A mistake is two buffers at one address at one time;
- *inference requests*: several requests share one graph, its queues and two
  executors of the plugin. A mistake is an output of another request or of
  another inference.

Paths below are relative to the repository. `VPURT/`, `VPUIP/` and
`VPUMI37XX/` stand for the directories of these dialects under
`src/vpux_compiler/src/dialect/`, `core/` and `utils/` for those under
`src/vpux_compiler/src/`.

## The system and its parts

| part | state | operations | interacts with |
|---|---|---|---|
| BarrierInfo (`core/barrier_info.cpp`) | wait and update barriers per task, producers and consumers per barrier, the task control map | add, link, unlink, reset, set, `optimizeBarriers`, `buildTaskControllMap`, `orderBarriers`, `updateIR` | the analysis through which every barrier pass edits the IR |
| SplitExceedingVariantCountBarriers, SatisfyOneWaitBarrierPerTask, ReduceExceedingActiveCountBarriers (`VPURT/passes`) | the IR, a BarrierInfo, the batches to legalize | one walk each; the last one a loop of simulation and linearization | run in this order (`VPURT/pipelines.cpp`); the last one calls the simulator |
| BarrierSimulator (`VPURT/barrier_simulator.cpp`) | task FIFOs, counters of the virtual barriers, the physical ids with a ring of the free ones, batches of exceeding barriers | `simulateBarriers` in two modes, `linkNextIds`, `checkProducerCount`, `getBarrierBatchesToLegalize` | called by the reduction and by both passes below |
| AssignPhysicalBarriers, BarrierSimulation (`VPURT/passes`) | the IR | rewrite virtual barriers into configured ones; validate | both run the simulator |
| BarrierComputation (`VPUMI37XX/passes`) | next_same_id, start_after, clean_after | a simulation of its own | fields read by the device |
| DMABarrierOptimization (`VPUIP/passes`) | BarrierInfo with FIFO dependencies | removes barriers between DMAs of one FIFO | BarrierInfo |
| RingBuffer (`src/vpux_utils`) | a circular array | push, pop, clear, reset | the simulator |
| Partitioner (`utils/partitioner.cpp`) | the gaps of an address space | alloc, allocFixed, free | LinearScan |
| LinearScan (`utils/linear_scan.hpp`, `core/linear_scan_handler.cpp`) | live ranges and their addresses | alloc with spills and rollback, canAlloc, freeNonAlive | static allocation, the memory scheduler |
| AsyncDepsInfo, MemLiveRangeInfo (`core/`) | dependencies between async regions; users of buffers | add, optimize; query, erase | scheduling and allocation |
| FeasibleMemoryScheduler (`core/feasible_memory_scheduler*.cpp`, `core/overlap_DPU_and_DMA.cpp`) | heaps by cycle, ready operations, evicted buffers, the schedule | schedule, spill, read back, prefetch; optimize spills; control edges | LinearScan, AsyncDepsInfo |
| Zero backend (`src/zero_backend`) | a graph and its arguments, command queues, per request a pipeline with lists, fences, an event | create, push, pull, GetResult | the driver and the device |
| Plugin (`src/vpux_plugin`) | two executors per network | CreateInferRequest, the stages of AsyncInferRequest | application threads, the backend |
| IMD and emulator backends, driver compiler, ELF loader, nGraph passes, the other dialects, tools | - | - | - |

`PROJECT.json` lists these with their status, and under `hazards` every place
of the modelled and the planned parts where the code could go wrong in a way
that tests hardly reach, with the properties that watch it.

What is hard in this code:

- *interleaving*: FIFOs are drained round-robin by the simulator and in any
  order by the device, and what is computed on one schedule has to hold on all;
  requests of an application meet in queues that they share;
- *stale state*: physical ids are handed on, renumbered and kept in several
  places; the control map is read while the maps change; the address of a
  buffer is known to the partitioner, the handler and the schedule, which
  forget it at different times;
- *protocol*: three simulations, three passes and a device have to agree, each
  with a notion of its own of a blocked task; spills are optimized after the
  addresses have been handed out on the assumption that they happen;
- *partial failure*: an allocation that fails half way, an exception between
  two stages of an inference;
- *bounds*: pools that grow and shrink, slots, counters, gaps that are filled to
  the last unit, a loop whose bound moves.

## The modules

| module | what it is | made of |
|---|---|---|
| `TaskExecution` | what barriers promise, without barriers: FIFO order, and waiting tasks after their producers | - |
| `BarrierSimulator` | `vpux::VPURT::BarrierSimulator`, every step of `simulateBarriers` | refines `TaskExecution` |
| `BarrierSimulatorProofs` | its theorems: types, ids and batches; what it executes; when it gets stuck | `BarrierSimulator`, `BarrierMapsProofs` |
| `PhysicalBarriers` | assignment, validation, BarrierComputation and the device | `BarrierSimulator` |
| `PhysicalBarriersProofs` | its theorems | `PhysicalBarriers`, `BarrierSimulatorProofs` |
| `Listing` | a finite set as a sequence, in the order of a sort | - |
| `BarrierMaps` | the data of `vpux::BarrierInfo` and its operations as functions | `Listing` |
| `BarrierMapsProofs` | lemmas: minimal elements, listings, sums and folds, functions defined along an acyclic graph; what each operation does to maps of any size | `BarrierMaps` |
| `BarrierInfo` | the class as a state machine: any operations in any order | `BarrierMaps` |
| `BarrierInfoProofs` | its theorems | `BarrierInfo`, `BarrierMapsProofs` |
| `BarrierLegalization` | the split and the one-wait pass | `BarrierMaps` |
| `BarrierLegalizationProofs` | its theorems | `BarrierLegalization`, `BarrierMapsProofs` |
| `ReduceBarriers` | the reduction of active barriers, then the assignment that judges it | `BarrierMaps`, `BarrierSimulator` |
| `ReduceBarriersProofs` | its theorem | `ReduceBarriers`, `BarrierMapsProofs` |
| `MemoryMap` | what an allocator promises: blocks apart from each other | - |
| `Partitioner` | the methods of `vpux::Partitioner` as functions on a vector of gaps | - |
| `LinearScan` | `vpux::LinearScan`, one step per iteration of its loops | `Partitioner`; refines `MemoryMap` |
| `LinearScanProofs` | what the partitioner does to the addresses that gaps cover; the theorems of both | `LinearScan` |
| `AsyncProgram` | a function as the scheduler sees it: operations, operands, buffers | - |
| `ScheduleSpilling` | the optimizations of a schedule's spills; what it means that a schedule can be executed | `AsyncProgram`, `Partitioner` |
| `ControlEdges` | spill copies and control edges as dependencies, and their reduction | `ScheduleSpilling` |
| `FeasibleScheduler` | the pass FeasibleAllocation, from the first ready operation to the dependencies | `ControlEdges` |
| `InferenceService` | what requests promise to an application | - |
| `InferRequests` | requests, pipelines, executors and device of one network | refines `InferenceService` |
| `InferRequestsProofs` | its theorems | `InferRequests` |
| `MC...` | small instances for TLC | one each of the above |

Names follow the source. `Mutant...` operators, each before the definition it
stands in for, are that definition with a plausible mistake; every property is
known to fail with one of them (`mutants` in `PROJECT.json`).

### BarrierSimulator

A behaviour is one call of `simulateBarriers` on one function.

| code | model |
|---|---|
| `parseBarriers`, `parseTasks`, the constructor | `Parse`: FIFOs per executor, DMA port and channel, keys of multi-queue DMAs, slots |
| `_barriers[v].realId`, `.producerCount`, `.consumerCount` | `realId`, `producerCount`, `consumerCount` |
| `toVirtual`, the ring `nextReal` | `toVirtual` with `numReal` elements, the sequence `nextReal` |
| `dma[e]`, `dpu`, `act`, `upa`, `bar`, `progressed` | `head`, `bar`, `progressed` |
| the loop condition, "Map new barriers", batches | `StartRound`, `Finish`, `MapBarrier`, `EndMapping` |
| the loops over the FIFOs and `processSim` | `RunTask`, `PassOverProcessedDma`, `RunFails`, `LeaveQueue`; `Blocked`, `CountsSuffice`, `Execute` |
| the adjustments of legalization | `Grow`, `Shrink`, `ThrowNotProgressed` |
| "Barrier simulation blocked" | `SimulationBlocked` |

The loop is cut where another FIFO takes its turn; each action is one
iteration, with everything that it changes. Left open is the order in which a
task releases several barriers (the order of its operands). The circular array
of the ring is a sequence. Logging and cycle costs are left out.

`PhysicalIdsConsistent` says that the bookkeeping of ids holds; `TypeOK`,
`CountsNeverUnderflow` and `BarrierKeptUntilConsumed` are proved.
`NeededBarrierKeepsId` and `CountsMatchPendingTasks` relate it to the tasks
that are still to run. `ExecutionRefined` is the purpose of it all: the
simulation implements `TaskExecution`, with the set of passed tasks as the
refinement mapping. `EnoughBarriersSuffice`, `LegalizationNeverThrows`,
`BatchesDisjoint` and `Termination` are what callers rely on, and
`SkippedDmaWasProcessed` is about DMAs in several FIFOs.

### PhysicalBarriers

AssignPhysicalBarriers runs the simulator with dynamic barriers and writes the
ids into the IR; BarrierSimulation runs it again with static ones;
BarrierComputation derives `next_same_id` and `start_after` with a simulation
of its own (`ComputeBlocked` is its `processSim`). The device then runs. It is
not in the repository: it is modelled from the fields the compiler computes
for it, and its two actions are marked external. Physical barriers are
reprogrammed along `next_same_id`, and tasks start when `start_after` barriers
are configured, in any interleaving. The
properties are that no later pass rejects what an earlier one accepted, that
the fields are what they should be, and that every inference completes.

### BarrierMaps and BarrierInfo

The class holds each of its two relations twice, by task and by barrier. The
four maps and the number of barriers are one record, and every method is a
function from record to record. `BuiltMaps` are the maps as `buildBarrierMaps`
leaves them. The passes add barriers together with their tasks, for which
`AddLinkedBarriers` stands. The loops of `optimizeBarriers` over all tasks
are recursive functions over task numbers in the direction of the loop,
including what happens when a child precedes its parent. `orderBarriers` lists
the barriers by `StandsBefore`; `Renumber` is what the next reader of the IR sees.

`BarrierInfo` applies the operations in any order, from the empty function:
all ways that the passes could use the class, and more. Its guards keep
producers in front of consumers, which the passes do (and which
`legalization_first` shows that one does not always do).

### BarrierLegalization

`Verify`, `SplitBarrierProducers` and `SplitBarrierConsumers` are the first
pass, `SatisfyOneWaitBarrier` the second, one step per barrier or task of the
walk. Between them `StartOneWait` rebuilds BarrierInfo from the IR. The sets of
the code iterate in the order of insertion; the model takes any order
(`Orders`; the permutations of module `TLC` are met there with the surjections of
`Functions`, which are the same functions, because the prover does not see into
module `TLC`). `FirstTaskAlone` is a condition on a function, no part of the
passes: that createProducerBatches, which excepts task 0 from its check, meets
that task only where the exception does no harm.

### ReduceBarriers

The pass simulates the function (`CheckPasses`, `CheckFails`). If that fails
it optimizes, orders and simulates in legalization mode (`UpdateAnalysis`,
`LegalizationEnds`) and links the tasks of the batches one after the other
(`Reduce`) until nothing is left. The simulation is that of
`BarrierSimulator`, step by step, on what the IR holds at that point. The
barriers are known by two numbers, their index in BarrierInfo and their place
in the IR; `order` translates.
After the pass the simulation of AssignPhysicalBarriers runs on the result.

### Partitioner and LinearScan

The state of the partitioner is its vector of gaps; `useGap`, `free`,
`getAddrFromGap` and `chooseMinimalGap` are the functions of the code, with its
alignment from above and its special treatment of the last gap. `LinearScan`
adds the handler: what is alive and where it is. `alloc` finds a place for one
range per step (`FindPlace`), or takes spill candidates out of the live ranges
until there is one (`getSpillCandidate`, `NoPlace`, `GiveUp`), and then spills
those in the way and puts the others back (`SpillCandidate`, `KeepCandidate`);
a failed call gives back what it has placed (`Release`). `canAlloc` does so
after a success (`TryRange`), and `freeNonAlive` frees range by range. So the
properties hold in the middle of a call too. A handler that refuses to spill
makes the code lose the memory of the range, and the model too (`RefuseSpill`,
`lost`).

`MemoryAccounted` says that gaps and blocks in use are exact complements,
`SearchComplete` that a search fails only if nothing fits, `TrialLeavesNoTrace`
and `AssertionsHold` that the checks the code makes (some of them only with
assertions) never fire, and `AllocatesOneMemory` that all of it implements
`MemoryMap`.

### FeasibleScheduler

| code | model |
|---|---|
| `init`, the two calls in FeasibleAllocation | `FSInit`, `SecondPass` |
| the cycle heaps, `unscheduleAllCompletingOps` | `begin`, `ended`; `PopFromCycleBeginHeap`, `UnscheduleAllCompletingOps` |
| the ready lists | `todo`; `Postpone`, `ScheduleComputeOp`, `EndRound` |
| `scheduleInputOpForComputeOp`, `scheduleSpilledOpBuffer` | `ScheduleInputOp`, `ReadSpilledBuffer` |
| `prefetchOps` | `BeginPrefetch`, `PrefetchOne` |
| `allocateBuffersAndInsertSpill`, `scheduleComputeOp` | `FinishComputeOp` |
| `forceScheduleActiveOpEviction`, `evictActiveOp` | `ForceScheduleActiveOpEviction`, `CanEvict` |
| `generateSchedule`, the sort | `GenerateSchedule` |
| `FeasibleMemorySchedulerSpilling` | `Optimize`, the operators of `ScheduleSpilling` |
| `insertSpillCopyOps`, `FeasibleMemorySchedulerControlEdges` | `InsertDependencies`, `ControlEdges` |
| `AsyncDepsInfo::optimizeDepsMap` | `OptimizeAsyncDeps` |

`Delivers` is the property behind the two checks of schedules: executed by its
cycles, every operation runs once and after those whose results it uses, an
executor does one thing at a time, what is read back was saved, and buffers
that are needed at the same time are apart. `SharedMemoryOrdered` repeats the
question for the run time, which knows dependencies and no cycles.

The cycles by which OverlapDMAandDPU chooses what is prefetched where are left
open: any subset of the links that its conditions allow (`Link`).

### InferRequests

A request goes through the steps of `AsyncInferRequest`: `push` in the request
executor (`CopyInputs`, `DispatchUpload`, `DispatchExecute`), `pull` and
`GetResult` in the result executor (`SyncExecute`, `DispatchReadback`,
`SyncReadback`, `CopyOutputs`, `ResetFences`), or all in the thread of the
application (`Infer`). On a discrete device a pipeline has three lists in three
queues: an event orders execution after upload, and the readback is submitted
when the execution is done. On an integrated one there is the execution alone.
The device works off each queue in order. `Throw` ends an inference at a step
with an exception. Requests may be destroyed at rest. A buffer holds whose input
it is, of which inference, and how many inferences have worked on its state.

They are created one after the other, in one thread, while others run, as in
`tests/functional/behavior/infer_request_run.hpp`: the constructor of a
pipeline sets the arguments of the shared graph and then records them, without
a lock, and nothing in the repository says that two threads may do so at once.

## The runs

| run | bounds | what it shows |
|---|---|---|
| `sim` | six families of functions (`MCBarrierSimulator`): 4 tasks on DMA and NCE with 2 barriers; 4 tasks with 4 barriers of one producer; 3 tasks with any producers and consumers of one or two barriers, cycles included; 3 DMA and SHAVE tasks, DMAs on one or both ports; 3 tasks on the NCE and on two channels of one DMA port, with 2 barriers; one function in which a DMA on both ports is met twice and a task in front of it waits for it, so that the simulation fails. 1 or 2 physical barriers, both modes | ids and counters agree with the tasks that are left, pools that grow and shrink, enough barriers suffice, no throw, refinement of `TaskExecution`, multi-queue DMAs run once, termination |
| `physical` | 5 tasks on two DMA FIFOs and the DPU, 3 barriers on 2 physical ones | all passes and all interleavings of the device |
| `barrier_info` | 3 tasks, up to 3 barriers, every sequence of operations | maps agree, `optimizeBarriers` is exact and leaves nothing, control map complete |
| `legalization` | 4 tasks with 1 or 2 slots and 3 barriers; 5 tasks and 2 barriers, where the first task may have barriers as `FirstTaskAlone` allows; 2 or 4 slots per barrier | order and slots kept, no task waits for a later one |
| `legalization_first` | 4 tasks, 2 barriers, the first task a producer of both | violation, see findings |
| `reduce` | 6 tasks on a DMA FIFO and the DPU, each waiting for up to 2 others, 2 physical barriers; and the eleven functions of `tests/lit/VPUX/dialect/VPUIP/passes/reduce_exceeding_active_count_barriers.mlir` | order kept, nothing left to legalize, the assignment succeeds; on the lit functions exactly the barriers that the CHECK lines name |
| `reduce_throws` | 5 tasks | violation, see findings |
| `linear_scan` | 8 units, the first reserved; 4 ranges of 1 to 3 units, alignments 1, 2 and 4, one at a fixed address; lists of 1 or 2 ranges; both directions, with and without spills; one refused spill | the memory is accounted for at every step, searches are complete, failed calls and trials leave no trace, refinement of `MemoryMap` |
| `infer_requests` | 2 requests with 3 inferences each, 2 exceptions before anything is submitted, both kinds of device | refinement of `InferenceService`, outputs ready when pulled, nothing left in a queue, every inference ends |
| `infer_requests_throws` | 2 inferences, 1 exception while outputs are copied | violation, see findings |
| `feasible` | 2816 programs of 6 or 7 operations in six families (`MCFeasibleScheduler`), 5 units of memory, sizes 1 and 2, 1 or 2 DMA ports, every choice of links; limit of prefetching as for 4 barriers | schedules can be executed before and after the optimizations, dependencies order what shares memory and are reduced exactly, no exception, the loop ends |
| `feasible_in_place` | one family with an operation that updates its operand, 6 units | violation, see findings |

Why the bounds are enough. Interference in the simulator needs a barrier that
is released, another one that takes its id, and a task that still uses either:
three barriers on two ids, or two on one; the runs have both. A third barrier
per relation lets `optimizeBarriers` remove, merge and keep at the same time,
and three tasks form every pattern of a link that another path makes
superfluous. Four tasks and three barriers are the least with which a batch
fills up, a second one starts and a third barrier shares a producer with each.
Six tasks on two executors are the least for which the reduction goes into a
second iteration. Two or four slots make every branch of the slot checks
happen. Functions are enumerated, not sampled. `reduce` leaves out functions
with more than two tasks that wait for nothing and with shared wait barriers,
for time; the lit functions have both. `physical` assigns to all of the
device's barriers, as the pipeline does; the option that assigns to fewer of
them is not covered.

In `linear_scan` every case of `free` (no neighbour, either, both) and of the
search (a gap too short only because of the alignment, from either side) occurs,
and spills that free the wrong place; three live ranges and one to be placed
are the least for two candidates and a rollback. In `feasible` the families
follow the lit tests of the pass, and the sizes go through all values of 1 and
2 units against 5, so that a program needs anything from no spill to several of
the same buffer; mutants of the model show that reading back, relocation, double
saving, two results of which one is evicted, and prefetching up to the limit
occur. Two requests are the least that can meet in a queue, and three
inferences the least for a stale fence of one to be taken for another.

`MaxBarriers` in `BarrierInfo`, `MaxLost` in `LinearScan`, and `MaxInferences`
and `MaxFaults` in `InferRequests` are the only counters that are capped in a
guard. All else is finite by itself. Deadlock is checked except in the runs of
`InferRequests`, where the application may stop; elsewhere a machine that has
returned or thrown stutters in an explicit last action (`Returned`, `AtRest`,
`PassesEnded`, `Stopped`, `Ended`). The type invariants `IRTypeOK` and
`FSTypeOK` document the variables of their modules and may be added to the
configurations; `TypeOK`, `LSTypeOK` and `IRTypeOK` are proved.

### Fairness

`simulateBarriers` is a loop of one thread: `WF_vars(Next)`. The passes and
the device in `PhysicalBarriers` have `WF_allVars(PNext)`: compilation goes
on, and the device does not rest while some executor can take a task or some
barrier can be reprogrammed. As every device step happens at most once, this
is the same as fairness of each executor. The pass of `FeasibleScheduler` runs
until it returns or throws: `KeepsRunning` says so directly, and means the same
as `WF_vars(FSNext)`, as a step that changes the state is enabled until then.
In `InferRequests` a thread of an executor that has work keeps running it
(`WF_vars(Run(r))`), and the device works off each queue (`Upload`, `Execute`,
`Readback`); nothing makes the application start or destroy anything, and
nothing makes a call throw. The other machines state no liveness. That the loop
of the reduction ends follows from the finite state space, and
`AssignmentSucceeds` says that it never ends by its bound on the iterations.

## What is proved

For every number of tasks, barriers, DMA FIFOs, physical ids, requests and
inferences, every size of the memory and every set of live ranges. The
assumptions that a module names (`ASSUME`) hold throughout; hypotheses of a
single theorem are stated in it and listed here.

| module | theorems | hypotheses |
|---|---|---|
| `BarrierSimulatorProofs` | `TypeCorrect`, `NoUnderflow`, `IdsConsistent`, `KeptUntilConsumed`, `BatchesStayDisjoint` | none; functions need not be ordered |
| | `CountsMatch`, `NeededKeepsId`, `SkippedWasProcessed`, `ExecutionIsCorrect` (refines `TaskExecution`), `LegalizationSucceeds`, `EnoughBarriers` | `NumberedByPort` |
| `PhysicalBarriersProofs` | `NextSameIdIsNext`, `StartAfterIsEnough` | `WholePool`; the second one `EveryTaskQueued` |
| `BarrierInfoProofs` | `MapsAlwaysConsistent`, `OptimizationKeepsOrder`, `OptimizationIsThorough`, `ControlMapKnowsOrder` | none; any sequence of operations |
| `BarrierLegalizationProofs` | `SlotsAreRespected` | none |
| | `OrderIsKept`, `ConsumersStayBehind` | `FirstTaskAlone` |
| `ReduceBarriersProofs` | `OrderStaysKept` | none |
| `LinearScanProofs` | `TypesCorrect`, `GapsStaySeparated`, `EveryAddressAccounted`, `RangesStayApart`, `ImplementsMemoryMap` (refines `MemoryMap`), `SearchIsComplete`, `TrialsLeaveNoTrace`, `FixedPlacesAreFree` | none |
| `InferRequestsProofs` | `PulledOutputsReady`, `NothingLeftInQueues`, `RequestsServe` (refines `InferenceService`) | `ThrowsEarly` |

The assumptions of the modules are what callers guarantee. Limits are positive
and functions are well-formed (`WellFormed`: what the constructor of the
simulator produces); the maps that a pass finds are those that `buildBarrierMaps`
builds, the producers of a barrier come before its consumers, and a barrier
that tasks wait for has producers (`FunctionsAssumption` of either pass); sizes and alignments are positive, fixed ranges of one
call are apart, inside the memory and outside the reserved part, and no list
names a range twice. The hypotheses are:

- `NumberedByPort`: a DMA on several ports sits in the FIFOs that are numbered
  like its ports, and the counts of a barrier are the sums of the slots of its
  tasks. The second part is what `parseBarriers` and `parseTasks` compute. The
  first one is needed because of what is observed below about functions whose
  first DMA is not on port 0; it asks nothing of a DMA on one port, whatever its
  channel. TLC evaluates both for the functions of the runs
  (`NumberedAssumption`).
- `WholePool`: the assignment may use all barriers of the platform, as in the
  pipelines. The pass has an option for fewer, with which `MAX_PID` of
  BarrierComputation is not the size of the pool.
- `EveryTaskQueued`: no task is left out of the FIFOs. Both are evaluated by TLC
  in `MCPhysicalBarriers`.
- `FirstTaskAlone`: a barrier with task 0 among its producers has producers that
  fit, and the tasks that wait for it wait for no barrier with other producers.
  Without it both properties are false, which is finding 1. It says
  nothing of functions whose first task has no update barrier. The functions of
  `legalization` meet it, those of `legalization_first` do not.
- `ThrowsEarly`: exceptions occur before a command list has been submitted. Later
  ones falsify `ReadyWhenPulled`, which is finding 3.

The bounds `MaxBarriers`, `MaxLost`, `MaxInferences` and `MaxFaults` play no role.

*The ids of the simulator.* The invariants need each other. A task releases the
ids of the barriers that it exhausts, and the ring stays free of doubles only if
each of these still holds the id that it names; that is
`BarrierKeptUntilConsumed`, which in turn needs that ids and barriers name each
other, which is `PhysicalIdsConsistent`, whose indices are valid by `TypeOK`.
`IndInv` is the conjunction, with the facts about the input that no action
changes. `NextIndInv` has one lemma per action that touches ids; the others
leave them alone (`QuietStep`). The difficult step is `Shrink`: the code
renumbers in one loop and erases in another one, and `NewIdIsPosition` shows
that both agree (a kept id moves down by the number of removed ids below it, and
that is its place in the shorter vector). `AscendingRank` and
`AscendingBijection` are the facts about ordered lists that it and the refilled
ring rest on. Batches stay disjoint because a barrier of an earlier batch, one
that the next batch does not touch, has lost its id for good.

*What the simulator executes.* `ExecInv` ties the counters to `Done`, the tasks
that some FIFO has passed: a counter is the sum of the slots of the tasks that are
still to come (`CountsMatchPendingTasks`). Removing a task from both sides is
`SlotsWithout`, from the lemmas on sums in `BarrierMapsProofs`; that it is removed
once only, although a DMA may sit in several FIFOs, is that `multiDone` and
`Done` agree. The rest follows: no counter that is needed is zero, so a barrier
that some task needs has its id (`NeededBarrierHeld`), and a task that runs has
all its producers in `Done`, which is the step of `TaskExecution`.
For progress, `RoundInv` says what a round without progress has seen: nothing
to map, and every FIFO blocked at its head. In an ordered function the first
task that is left over then waits for a barrier that is not mapped
(`StalledForBarriers`), as otherwise it would wait for an earlier one.
So a stalled round has used up all ids, and with as many ids as barriers there
is none (`EnoughBarriers`). `PoolInv` adds that a pool beyond the limit has no id to spare when
barriers are mapped, through `Grow` and `Shrink`: the two throws
of legalization are unreachable (`LegalizationSucceeds`).

*From assignment to device.* `PhysInv` follows the function through the stages.
While the first `Available` barriers are mapped, the ring has not come round
and hands out ids in order (`Assigning`); the id of a barrier then changes no
more (`MappingKeepsId`, `Assigned`). `setNextSameID` gives the barriers from
`MAX_PID` on to earlier ones by counting, and `HandedIsNext` shows that this
is the next barrier with the same id, because the first one of each id, and no other, is
below `MAX_PID`. During the computation every FIFO has got its `start_after`
as far as it has been simulated (`Computing`). For the device, a
configured barrier is still programmed or all that waits for it has run
(`Running`). Once its `start_after` barriers are configured, all barriers of a
task are (`StartAfterCovers`), and as long as the task has not run, nothing that
waits for what it updates has run either; so none of its barriers is used up,
and all are still programmed. That the device follows any of the simulations is
not needed.

*BarrierInfo.* `Agreeing` is `Mirror` for each relation: the two maps are
functions with the right domains and are each other's inverse. There is one
lemma per kind of edit (`JoinMirrors`, `ResetMirrors`, `SetMirrors`); the
loops of `optimizeBarriers` build one map from the other
(`ComputedMirrors`, `SparedMirrors`). `Forward` says that producers precede
consumers, which the guards of the operations keep. With it, barriers form an
acyclic graph on the tasks, and the recursive functions of the model (the two
closures of `optimizeBarriers`, the control map, the order itself) are
solutions of equations along it: `BarrierMapsProofs` shows that these exist
(`SolutionExists`), grow along the order (`CollectedGrows`) and collect exactly
what was somewhere behind a node (`CollectedOrigin`). This is induction on the
rank of a node, stated with sets instead of operators. That the stages keep the
order is `SameOrder`: the graph after a stage follows the order of the graph
before, and a removed edge has something between its ends. For the irredundancy
of the result, `ProducersReduced` and `ConsumersReduced` say what a stage
removes, and the merge at the end undoes neither.

*Splitting and one wait barrier.* `LegalInv` says what is left to do: while the
producers are split, every barrier has producers that fit or is still to be
visited; then the same of the consumers; afterwards all fit. That no barrier is
missed needs that the list of barriers, into which new ones are put in front of
the one that is visited, goes on listing them all (`ListsAll`, `InsertLists`), and
that rebuilding the IR drops only barriers without use (`RebuiltKeeps`). The
batches are folds; `FoldPrefixes` turns a fold of the library over a sequence
into the chain of its partial results, so that what `createLegalVariantBatches`
and `createProducerBatches` return is an induction over their loops
(`LegalBatches`, `ProducersBatched`): all tasks are in the batches, every batch
fits, and, if no barrier has task 0 among its producers, each batch comes before
the next one in the program (`ProducersInLine`). In the second pass the new
barriers are between batches that fit, and the old ones lose tasks
(`DrivenFits`), so `SlotsAreRespected` needs no hypothesis: also the wrong chain
of finding 1 fits.
`KeptInv` adds the order. While barriers are split, the tasks have exactly the
edges of the function (`SplitEdges`). Afterwards each old edge has a path:
a task that is driven by one barrier is reached from all its former producers
along the chain (`ChainReaches`), and `OrderGrows` does the rest. The chain
leads forward because the batches follow each other and the task follows them
all. To that end `Alone` carries `FirstTaskAlone` through the walk: chains add
barriers only to tasks that have been passed, as the walk is in program order
(`Rising`), so the barriers of the tasks to come are still those of the split.

*The reduction.* The simulator of the pass works on a function that changes
between its runs, so nothing about its ids is needed, only `SimInv`: active
barriers, and with them the batches, are barriers of the function. A batch that
is linearized adds barriers from each section of tasks to the next one, which
starts behind the end of the section before (`SectionsInLine`), so new barriers lead forward and nothing is taken away
(`Extends`, `LinearizedExtends`). Optimizing then keeps the order exactly, by the
lemma that also gives `OptimizationKeepsOrder`, and `OrderInv` puts it together,
with the fact that the order of the barriers lists them all, from
`BarrierOrderLists`, so that the ids of the simulator mean barriers that exist
and the IR loses none in use.

*The linear scan.* Its first part has one lemma per method of the partitioner: which addresses
the gaps cover afterwards, and that gaps stay in order and apart. Its core are
`RemoveGap`, `ReplaceGap` and `InsertGap`, one per way in which a vector of gaps
is edited; `free` is then a distinction of its five cases. That a gap of
minimal size exists is the well-ordering of the numbers, by well-founded
induction on sizes; `MinimalGapExists` and `AddrFromGapComplete` (the first
aligned address from below, the last one from above) make the search complete.
`LSInv` adds to the types one statement about memory (`Consistent`: gaps and
blocks are complements, blocks are apart and inside) and two about the running
call: `CallInOrder` (a range is in at most one of the live ranges, the placed
ones, those to come and the candidates, and each stage finds what it needs),
and `CandidatesFree` (the memory of a candidate that waits to be spilled or put
back is free, except for what the new range has taken of it). Without the last one, putting a candidate back where
it was could not be shown to be safe. Steps that neither take nor give memory
are one lemma, `QuietSteps`; the others follow from the lemma of the method they
call, which also gives the step of `MemoryMap`. A trial leaves no trace because
a vector of gaps is determined by the addresses that it covers (`SameGaps`),
and these are the complement of blocks that are the same again.

*Inference requests.* `IInv` says for each request, step by step, which queues
hold a list of it (`ListsOf`), what fences and event say about that
(`SignalsOf`), and in which buffer its input or its answer is (`DataOf`,
`StateOf`); between requests, only that at most one is being created, so that
the arguments of the shared graph are its own when they are recorded
(`OwnArguments`). A queue holds a list of a request once (`Twiceless`), so
working it off removes it. Each action moves one request, and `StepOfOne` leaves
one lemma per action, about that request. `Submit`, `Deliver` and `Refuse` of `InferenceService`
are a start, the copying of outputs, and an exception.

*Model-checked only.* All liveness (`Termination`, `InferenceCompletes`,
`RequestsFinish`, and that the passes end), which the prover cannot state under
fairness, and `AssignmentAccepted`, which compares the ends of three simulations.
`AssignmentSucceeds`
asks the loop of the reduction to have come to its end, which is a matter of how
many batches its rounds leave, not of one step: no invariant of the maps
says it. `FeasibleScheduler`
and `ScheduleSpilling` use recursive operators, which the prover does not
accept; `MCReduceBarriersTests` is about eleven given functions. The types of
`IRTypeOK` are part of `IInv`; those of `FSTypeOK` are not proved.

## Findings

Disagreements between the code and what its comments, descriptions and
assertions say, each shown by a run; details and quotes in `PROJECT.json`.

1. *First task* (`satisfy_one_wait_barrier_per_task.cpp:105`): the check of the
   order of batches is skipped for barriers that task 0 updates; the task may
   end up waiting for itself.
2. *Reduction gives up* (`reduce_exceeding_active_count_barriers.cpp:192`):
   when a simulation passes, the pass checks the batches of the simulation
   before, which inside the loop are never empty, and throws. It gets through
   only when the linearization has left more unused barriers behind than there
   are physical ones: then the simulation does not pass, and its batches turn
   out to be empty of barriers with a use. All functions of the lit test are
   of this kind, as `TestsPass` of the run `reduce` shows.
3. *A result that throws* (`zero_infer_request.cpp:264`): `GetResult` resets the
   fences as its last statement. When copying an output throws, they stay
   signalled, and the pull of the next inference returns before the device is
   done. The trace is on the integrated device, whose `pull` waits for its fence
   like that of the discrete one, to which the quoted comment belongs.
4. *Relocated results* (`feasible_memory_scheduler_spilling.cpp:221`): whether an
   operation is the only one to write a buffer is judged by the size of its
   result. An operation that updates a buffer in place writes all of it, so the
   check lets it pass, and the buffer is moved to where the schedule has put
   something else.

Further observations, made with these models outside the listed runs:

- Multi-queue DMAs are registered by port number and looked up by FIFO index
  (`barrier_simulator.cpp:221`). `sim` has functions whose FIFOs are numbered
  like the ports. When the first DMA of a function does not use port 0
  (`Patterns = {"port1"}`), a FIFO may skip a DMA that nobody has processed, and
  `SkippedDmaWasProcessed` fails. A FIFO is identified by port and channel
  (`barrier_simulator.cpp:208`), the record by the port alone, so a DMA on
  another channel can make the numberings differ as well; no pass of the
  repository sets a channel, but the IR may carry one.
- `linearizeLegalParallelProducers` (`satisfy_one_wait_barrier_per_task.cpp:166`)
  makes the tasks of a batch wait for a new barrier, and the walk has passed these
  tasks. The description of the pass (`passes.td:66`) promises "single barrier
  drives each task"; `SingleWaitBarrier` of `BarrierLegalization` fails with 4
  tasks and `MaxVariantCounts = {2}`, when 2 and 3 wait for a barrier of 1, and 3
  for one of 2: task 3 is driven by a chain from 1 to 2 to 3, and 2 then waits for
  two barriers of 1. No theorem here assumes one wait barrier per task.
- `optimizeBarriers` (`barrier_info.cpp:568`) merges barriers with the same
  producers without a look at the slots, and so undoes what
  SplitExceedingVariantCountBarriers did: `SlotsRespected` of `ReduceBarriers`
  does not hold for a small `MaxVariantCount`.
- `removeComputeOpRelocationSpills` looks for users of the new place only from
  a point in the middle of the schedule on (`prevTimeFirstOpIndex`, lines 134 and
  187). With the family `StillRunning` of `MCFeasibleScheduler` as `Programs`,
  where an operation from before that point still runs, `OptimizedScheduleDelivers`
  fails: an operation that is still running loses its operand. As
  `updateControlEdgesInDepsInfo` drops edges between operations whose cycles
  overlap (`feasible_memory_scheduler_control_edges.cpp:261`), nothing orders
  the two afterwards either.
- Without the exceptions of finding 3 every inference ends; with them
  `RequestsFinish` fails too, as a stale fence lets a request be submitted again
  while its lists are in a queue.

## Not modelled

- BarrierInfo's FIFO dependencies and canBarriersBeMerged, with
  DMABarrierOptimization on top; `clean_after` of BarrierComputation (same code
  as `start_after`); the conversion that stores the counts of a barrier in eight
  bits (`convert_VPUIP_to_VPUMI37XX.cpp:636`); the circular array of RingBuffer.
- In the memory scheduler: profiling and other operations outside the compute
  chain, operations whose needs alone exceed CMX, buffers in segments over
  several clusters and ports, alignment and reserved memory (`LinearScan` has
  both), and the costs by which OverlapDMAandDPU chooses. Static allocation and
  its handler use LinearScan as it is.
- In the backend: discovery of devices, blobs and their layouts, profiling,
  metrics and configuration; concurrent creation of requests.
- InferenceExecutionSimulator estimates cycles and decides nothing.
- The IR passes of the other dialects, frontend, nGraph passes, serialization:
  sequential rewrites whose state is the IR, and most of the repository's
  lines. The IMD and emulator backends run external processes. The ELF loader
  is a submodule that is not present.

## Plan

What would come next, in this order:

1. `BarrierInfo`: FIFO dependencies in the control map, `canBarriersBeMerged`;
   `DmaBarrierOptimization` on top, with order of execution (barriers and
   FIFOs) kept as its property.
2. Proofs: `AssignmentAccepted`, from the fact that the static simulation can
   always follow the dynamic one; that the simulator on a function of the
   reduction (`Parsed`) is the one of `BarrierSimulatorProofs`, which would give
   `LegalizationNeverThrows` there too.
3. The scheduler without recursive operators, with `LiveMemoryAccounted` as an
   invariant that is proved.
4. The cycles of OverlapDMAandDPU, and multi-cluster buffers.
