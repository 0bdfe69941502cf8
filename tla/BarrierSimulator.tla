-------------------------- MODULE BarrierSimulator --------------------------
(***************************************************************************)
(* VPURT::BarrierSimulator: the compiler's model of how the executors of   *)
(* the NPU drain their task FIFOs while a small pool of physical barriers  *)
(* is handed out to the virtual barriers of the schedule.                  *)
(*                                                                         *)
(* One behaviour is one call of simulateBarriers() on one parsed function. *)
(* A function is a record (see Parse below); a run either assigns physical *)
(* barriers (dynamic barriers), validates an assignment (static barriers), *)
(* or collects the batches of barriers that exceed the pool                *)
(* (legalization).  Task indices, virtual ids and physical ids count from  *)
(* zero as in the code.                                                    *)
(***************************************************************************)
EXTENDS Listing, Integers, Sequences, FiniteSets, SequencesExt

CONSTANTS
    NumDma,     \* getNumberOfIndependentDmaQueues: DMA FIFOs of the platform
    Programs,   \* the parsed functions a run may be given
    Limits,     \* values of numBarriers a caller passes
    Modes       \* subset of {"simulate", "legalize"}

ASSUME NumDmaAssumption == NumDma \in Nat
ASSUME LimitsAssumption == Limits \subseteq Nat \ {0}
ASSUME ModesAssumption == Modes \subseteq {"simulate", "legalize"}

(* The DMA FIFOs come first, then NCE, SHAVE_ACT and SHAVE_UPA: the order  *)
(* in which one round of the simulation visits them.                       *)
NCE == NumDma
ACT == NumDma + 1
UPA == NumDma + 2
Queue == 0..UPA

VARIABLES
    fn,             \* the parsed function (_dmaTasks.._upaTasks, _vdt)
    limit,          \* activeBarrierLimit
    legalize,       \* barrierLegalizationSim
    numReal,        \* toVirtual.size()
    toVirtual,      \* physical id -> the virtual id it holds, or -1
    nextReal,       \* the ring of free physical ids, oldest first
    realId,         \* _barriers[v].realId
    producerCount,  \* _barriers[v].producerCount
    consumerCount,  \* _barriers[v].consumerCount
    bar,            \* next virtual barrier to map
    head,           \* dma[e], dpu, act, upa: next task of each FIFO
    multiDone,      \* _multiQueueDmaTaskStatus: DMAs marked as processed
    progressed,     \* did this round map a barrier or run a task
    batches,        \* _barrierBatchesToLegalize
    queue,          \* the FIFO being visited
    phase           \* where simulateBarriers() is

physVars == <<numReal, toVirtual, nextReal, realId>>
countVars == <<producerCount, consumerCount>>
inputVars == <<fn, limit, legalize>>
vars == <<inputVars, physVars, countVars, bar, head, multiDone, progressed, batches, queue, phase>>

Free == -1

(* What the constructor of the simulator hands to simulateBarriers(): every *)
(* task takes at least one slot of its barriers, and the ids of static      *)
(* barriers lie within the pool they are validated against.                 *)
WellFormed(f) ==
    LET tasks == 0..(f.numTasks - 1)
        barriers == 0..(f.numBarriers - 1)
    IN  /\ f.numTasks \in Nat
        /\ f.numBarriers \in Nat
        /\ f.dynamic \in BOOLEAN
        /\ f.fifo \in [Queue -> Seq(tasks)]
        /\ f.wait \in [tasks -> SUBSET barriers]
        /\ f.update \in [tasks -> SUBSET barriers]
        /\ f.count \in [tasks -> Nat \ {0}]
        /\ f.producers \in [barriers -> Nat]
        /\ f.consumers \in [barriers -> Nat]
        /\ f.realId \in [barriers -> Int]
        /\ \A v \in barriers :
                IF f.dynamic THEN f.realId[v] = Free
                             ELSE \A n \in Limits : f.realId[v] \in 0..(n - 1)

ASSUME ProgramsAssumption == \A f \in Programs : WellFormed(f)

(* What parseTasks makes of a function whose DMA FIFOs are numbered like   *)
(* the ports: each task is queued, in program order, in one FIFO or, with  *)
(* a key that names its places, in several DMA FIFOs.                      *)
QueuedByPort(f) ==
    /\ \A q \in Queue : \A i, j \in DOMAIN f.fifo[q] :
            i < j => f.fifo[q][i] < f.fifo[q][j]
    /\ \A t \in 0..(f.numTasks - 1) : \E q \in Queue : \E i \in DOMAIN f.fifo[q] : f.fifo[q][i] = t
    /\ \A p, q \in Queue : \A i \in DOMAIN f.fifo[p] : \A j \in DOMAIN f.fifo[q] :
            p # q /\ f.fifo[p][i] = f.fifo[q][j] => f.fifo[q][j] \in DOMAIN f.multi
    /\ \A t \in DOMAIN f.multi, q \in Queue : \A i \in DOMAIN f.fifo[q] :
            f.fifo[q][i] = t <=> q < NumDma /\ <<q, i - 1>> \in f.multi[t]

Task == 0..(fn.numTasks - 1)
Barrier == 0..(fn.numBarriers - 1)

-----------------------------------------------------------------------------
(* parseBarriers, parseTasks: what the constructor extracts from the IR.   *)

(* A DMA task names its ports and its channel; a port and a channel make a *)
(* queue of the hardware (getDMAQueueIdEncoding).  The FIFO that tracks a  *)
(* queue is numbered in the order in which the queues are first met        *)
(* (dmaQueueIdToIndexMap).                                                 *)
DmaQueueId(f, t, port) == <<port, f.channel[t]>>
DmaQueueIds(f, t) == f.ports[t] \X {f.channel[t]}

FirstUser(f, id) ==
    CHOOSE t \in 0..(f.numTasks - 1) :
        /\ id \in DmaQueueIds(f, t)
        /\ \A u \in 0..(t - 1) : id \notin DmaQueueIds(f, u)

UsedQueueIds(f) == UNION {DmaQueueIds(f, t) : t \in 0..(f.numTasks - 1)}

DmaQueueIndex(f, id) ==
    Cardinality({other \in UsedQueueIds(f) :
        \/ FirstUser(f, other) < FirstUser(f, id)
        \/ FirstUser(f, other) = FirstUser(f, id) /\ other[1] < id[1]})

QueuesOf(f, t) ==
    IF f.executor[t] = "DMA_NN" THEN {DmaQueueIndex(f, id) : id \in DmaQueueIds(f, t)}
    ELSE {CASE f.executor[t] = "NCE" -> NCE
            [] f.executor[t] = "SHAVE_ACT" -> ACT
            [] f.executor[t] = "SHAVE_UPA" -> UPA}

Fifo(f, q) == Ascending({t \in 0..(f.numTasks - 1) : q \in QueuesOf(f, t)})

PositionIn(s, t) == (CHOOSE i \in DOMAIN s : s[i] = t) - 1

(* The key of a DMA that occupies several FIFOs: its port numbers, each    *)
(* with its position in the FIFO that tracks the port and the channel.     *)
MultiQueueKey(f, t) ==
    {<<p, PositionIn(Fifo(f, DmaQueueIndex(f, DmaQueueId(f, t, p))), t)>> : p \in f.ports[t]}

MultiQueueTasks(f) ==
    {t \in 0..(f.numTasks - 1) : Cardinality(f.ports[t]) > 1}

Producers(f, v) == {t \in 0..(f.numTasks - 1) : v \in f.update[t]}
Consumers(f, v) == {t \in 0..(f.numTasks - 1) : v \in f.wait[t]}

(* updateBarrierConfigs: an NCE task counts once per variant.              *)
SlotSum(f, S) == FoldFunctionOnSet(+, 0, f.count, S)

CountsAddUp(f) ==
    \A v \in 0..(f.numBarriers - 1) :
        /\ f.producers[v] = SlotSum(f, Producers(f, v))
        /\ f.consumers[v] = SlotSum(f, Consumers(f, v))

Parse(f) ==
    [ numTasks    |-> f.numTasks,
      numBarriers |-> f.numBarriers,
      dynamic     |-> f.dynamic,
      realId      |-> f.realId,
      wait        |-> f.wait,
      update      |-> f.update,
      count       |-> f.count,
      fifo        |-> [q \in Queue |-> Fifo(f, q)],
      multi       |-> [t \in MultiQueueTasks(f) |-> MultiQueueKey(f, t)],
      producers   |-> [v \in 0..(f.numBarriers - 1) |-> SlotSum(f, Producers(f, v))],
      consumers   |-> [v \in 0..(f.numBarriers - 1) |-> SlotSum(f, Consumers(f, v))] ]

-----------------------------------------------------------------------------
InitialRing(n) == [i \in 1..n |-> i - 1]

(* What simulateBarriers() sets up before its loop: every physical barrier *)
(* free and, for dynamic barriers, the ring filled in order.               *)
Start(f, n, mode) ==
    /\ fn = f
    /\ limit = n
    /\ legalize = (mode = "legalize")
    /\ numReal = n
    /\ toVirtual = [r \in 0..(n - 1) |-> Free]
    /\ nextReal = IF f.dynamic THEN InitialRing(n) ELSE <<>>
    /\ realId = f.realId
    /\ producerCount = f.producers
    /\ consumerCount = f.consumers
    /\ bar = 0
    /\ head = [q \in Queue |-> 0]
    /\ multiDone = {}
    /\ progressed = FALSE
    /\ batches = <<>>
    /\ queue = 0
    /\ phase = "round"

Init == \E f \in Programs, n \in Limits, mode \in Modes :
            /\ mode = "legalize" => f.dynamic
            /\ Start(f, n, mode)

FifosDrained == \A q \in Queue : head[q] = Len(fn.fifo[q])

MutantStartRound ==
    /\ phase = "round"
    /\ bar < fn.numBarriers \/ ~FifosDrained
    /\ phase' = "map"
    /\ UNCHANGED <<inputVars, physVars, countVars, bar, head, multiDone, progressed, batches, queue>>

(* The loop condition: a new round starts, or the simulation is over.      *)
StartRound ==
    /\ phase = "round"
    /\ bar < fn.numBarriers \/ ~FifosDrained
    /\ progressed' = FALSE
    /\ phase' = "map"
    /\ UNCHANGED <<inputVars, physVars, countVars, bar, head, multiDone, batches, queue>>

(* In legalization a run that met exceeding barriers reports failure.      *)
Finish ==
    /\ phase = "round"
    /\ bar = fn.numBarriers /\ FifosDrained
    /\ phase' = IF legalize /\ batches # <<>> THEN "failure" ELSE "success"
    /\ UNCHANGED <<inputVars, physVars, countVars, bar, head, multiDone, progressed, batches, queue>>

HasBarriersToMap ==
    IF fn.dynamic THEN nextReal # <<>> ELSE toVirtual[realId[bar]] = Free

(* One iteration of "Map new barriers".                                    *)
MapBarrier ==
    /\ phase = "map"
    /\ bar < fn.numBarriers
    /\ HasBarriersToMap
    /\ LET r == IF fn.dynamic THEN Head(nextReal) ELSE realId[bar]
       IN  /\ nextReal' = IF fn.dynamic THEN Tail(nextReal) ELSE nextReal
           /\ realId' = [realId EXCEPT ![bar] = r]
           /\ toVirtual' = [toVirtual EXCEPT ![r] = bar]
    /\ bar' = bar + 1
    /\ progressed' = TRUE
    /\ UNCHANGED <<inputVars, numReal, countVars, head, multiDone, batches, queue, phase>>

Active == {toVirtual[r] : r \in 0..(numReal - 1)}

MutantExtendedBatches ==
    IF batches = <<>> \/ ~(Last(batches) \subseteq Active)
    THEN Append(batches, Active)
    ELSE [batches EXCEPT ![Len(batches)] = @ \cup Active]

(* While the pool is larger than the limit, the active barriers belong to  *)
(* a batch: the last one if they touch it, a new one otherwise.            *)
ExtendedBatches ==
    IF batches = <<>> \/ (Last(batches) # {} /\ Last(batches) \cap Active = {})
    THEN Append(batches, Active)
    ELSE [batches EXCEPT ![Len(batches)] = @ \cup Active]

(* Mapping is over; "Found not mapped barrier with exceeding barriers" is  *)
(* a throw, which ends compilation.                                        *)
EndMapping ==
    /\ phase = "map"
    /\ ~(bar < fn.numBarriers /\ HasBarriersToMap)
    /\ queue' = 0
    /\ IF ~(legalize /\ numReal > limit)
       THEN phase' = "run" /\ UNCHANGED batches
       ELSE IF Free \in Active
            THEN phase' = "throw" /\ UNCHANGED batches
            ELSE phase' = "run" /\ batches' = ExtendedBatches
    /\ UNCHANGED <<inputVars, physVars, countVars, bar, head, multiDone, progressed>>

-----------------------------------------------------------------------------
(* processSim                                                              *)

IsBarrierMapped(v) ==
    /\ realId[v] \in 0..(numReal - 1)
    /\ fn.dynamic \/ toVirtual[realId[v]] = v

MutantBlockedForOneProducer(t) ==
    \/ \E v \in fn.wait[t] : ~IsBarrierMapped(v) \/ producerCount[v] > 1
    \/ \E v \in fn.update[t] : ~IsBarrierMapped(v)

MutantBlockedForUpdates(t) ==
    \/ \E v \in fn.wait[t] : ~IsBarrierMapped(v) \/ producerCount[v] > 0
    \/ \E v \in fn.update[t] : ~IsBarrierMapped(v) \/ producerCount[v] > fn.count[t]

(* Status::Skip                                                            *)
Blocked(t) ==
    \/ \E v \in fn.wait[t] : ~IsBarrierMapped(v) \/ producerCount[v] > 0
    \/ \E v \in fn.update[t] : ~IsBarrierMapped(v)

(* Not Status::Fail: every count covers the task's variants.               *)
CountsSuffice(t) ==
    /\ \A v \in fn.wait[t] : consumerCount[v] >= fn.count[t]
    /\ \A v \in fn.update[t] : producerCount[v] >= fn.count[t]

MutantMinus(counts, S, n) == [v \in Barrier |-> IF v \in S THEN counts[v] - 1 ELSE counts[v]]

Minus(counts, S, n) == [v \in Barrier |-> IF v \in S THEN counts[v] - n ELSE counts[v]]

MutantExhausted(t) == fn.wait[t]

(* The barriers whose last consumer is this task.                          *)
Exhausted(t) == {v \in fn.wait[t] : consumerCount[v] = fn.count[t]}

Vacated(S) == [r \in 0..(numReal - 1) |->
                  IF \E v \in S : realId[v] = r THEN Free ELSE toVirtual[r]]

(* Status::Success: the last consumer of a barrier releases its physical   *)
(* id, in the order of the task's wait operands, which the model leaves    *)
(* open.                                                                   *)
Execute(t) ==
    /\ consumerCount' = Minus(consumerCount, fn.wait[t], fn.count[t])
    /\ producerCount' = Minus(producerCount, fn.update[t], fn.count[t])
    /\ toVirtual' = Vacated(Exhausted(t))
    /\ IF fn.dynamic
       THEN \E order \in SetToSeqs(Exhausted(t)) :
                nextReal' = nextReal \o [i \in DOMAIN order |-> realId[order[i]]]
       ELSE UNCHANGED nextReal

Advance ==
    /\ head' = [head EXCEPT ![queue] = @ + 1]
    /\ progressed' = TRUE
    /\ UNCHANGED <<inputVars, numReal, realId, bar, batches, queue>>

HasHead == head[queue] < Len(fn.fifo[queue])
HeadTask == fn.fifo[queue][head[queue] + 1]

(* isDMATaskInMultiQueues: the multi-queue DMA registered under the key    *)
(* {queue index, task index}, if any; {} stands for the end iterator.      *)
Registered ==
    LET owners == IF queue < NumDma
                  THEN {t \in DOMAIN fn.multi : <<queue, head[queue]>> \in fn.multi[t]}
                  ELSE {}
    IN  IF owners = {} THEN {{}} ELSE {{t} : t \in owners}

MutantAlreadyProcessed(entry) == entry # {}

AlreadyProcessed(entry) == entry # {} /\ entry \subseteq multiDone

RunTask ==
    /\ phase = "run"
    /\ HasHead
    /\ \E entry \in Registered :
        /\ ~AlreadyProcessed(entry)
        /\ multiDone' = multiDone \cup entry
    /\ ~Blocked(HeadTask)
    /\ CountsSuffice(HeadTask)
    /\ Execute(HeadTask)
    /\ Advance
    /\ UNCHANGED phase

(* "skip DMA since it has been processed in other queue"                   *)
PassOverProcessedDma ==
    /\ phase = "run"
    /\ HasHead
    /\ \E entry \in Registered : AlreadyProcessed(entry)
    /\ Advance
    /\ UNCHANGED <<toVirtual, nextReal, countVars, multiDone, phase>>

(* The counts do not cover the task: simulateBarriers returns failure.     *)
RunFails ==
    /\ phase = "run"
    /\ HasHead
    /\ \E entry \in Registered : ~AlreadyProcessed(entry)
    /\ ~Blocked(HeadTask)
    /\ ~CountsSuffice(HeadTask)
    /\ phase' = "failure"
    /\ UNCHANGED <<inputVars, physVars, countVars, bar, head, multiDone, progressed, batches, queue>>

(* The FIFO is drained or its head must be skipped for now.                *)
LeaveQueue ==
    /\ phase = "run"
    /\ HasHead => Blocked(HeadTask) /\ \E entry \in Registered : ~AlreadyProcessed(entry)
    /\ IF queue = UPA THEN phase' = "adjust" /\ UNCHANGED queue
                      ELSE queue' = queue + 1 /\ UNCHANGED phase
    /\ UNCHANGED <<inputVars, physVars, countVars, bar, head, multiDone, progressed, batches>>

-----------------------------------------------------------------------------
(* The end of a round.                                                     *)

FreeIds(size, map) == {r \in 0..(size - 1) : map[r] = Free}

(* updateNextReal: the free ids, in the order of the vector.               *)
RefillRing == nextReal' = Ascending(FreeIds(numReal', toVirtual'))

(* Legalization without progress and without a free barrier: pretend there *)
(* is one more physical barrier.                                           *)
Grow ==
    /\ phase = "adjust"
    /\ legalize /\ ~progressed
    /\ FreeIds(numReal, toVirtual) = {}
    /\ numReal' = numReal + 1
    /\ toVirtual' = [r \in 0..numReal |-> IF r = numReal THEN Free ELSE toVirtual[r]]
    /\ RefillRing
    /\ progressed' = TRUE
    /\ phase' = "round"
    /\ UNCHANGED <<inputVars, realId, countVars, bar, head, multiDone, batches, queue>>

MutantSmallest(S, k) == {r \in S : Cardinality({x \in S : x < r}) < k - 1}

Smallest(S, k) == {r \in S : Cardinality({x \in S : x < r}) < k}

NewId(r, removed) == r - Cardinality({x \in removed : x < r})

MutantRenumbered(removed) == realId

(* The remap of the barriers that stay mapped.                             *)
Renumbered(removed) ==
    [v \in Barrier |->
        IF \E r \in 0..(numReal - 1) : toVirtual[r] = v
        THEN NewId(CHOOSE r \in 0..(numReal - 1) : toVirtual[r] = v, removed)
        ELSE realId[v]]

(* Drop exceeding free ids, lowest first, and renumber the rest.           *)
Shrink ==
    LET free == FreeIds(numReal, toVirtual)
        removed == Smallest(free, numReal - limit)
        kept == Ascending((0..(numReal - 1)) \ removed)
    IN  /\ phase = "adjust"
        /\ legalize /\ progressed
        /\ free # {} /\ numReal > limit
        /\ numReal' = numReal - Cardinality(removed)
        /\ toVirtual' = [i \in 0..(numReal' - 1) |-> toVirtual[kept[i + 1]]]
        /\ realId' = Renumbered(removed)
        /\ RefillRing
        /\ phase' = "round"
        /\ UNCHANGED <<inputVars, countVars, bar, head, multiDone, progressed, batches, queue>>

(* "Simulation not progressed and there are free barriers"                 *)
ThrowNotProgressed ==
    /\ phase = "adjust"
    /\ legalize /\ ~progressed
    /\ FreeIds(numReal, toVirtual) # {}
    /\ phase' = "throw"
    /\ UNCHANGED <<inputVars, physVars, countVars, bar, head, multiDone, progressed, batches, queue>>

(* "Barrier simulation blocked"                                            *)
SimulationBlocked ==
    /\ phase = "adjust"
    /\ ~legalize /\ ~progressed
    /\ phase' = "failure"
    /\ UNCHANGED <<inputVars, physVars, countVars, bar, head, multiDone, progressed, batches, queue>>

NextRound ==
    /\ phase = "adjust"
    /\ progressed
    /\ ~(legalize /\ FreeIds(numReal, toVirtual) # {} /\ numReal > limit)
    /\ phase' = "round"
    /\ UNCHANGED <<inputVars, physVars, countVars, bar, head, multiDone, progressed, batches, queue>>

(* simulateBarriers has returned or thrown: nothing happens any more.      *)
Returned == phase \in {"success", "failure", "throw"} /\ UNCHANGED vars

Next ==
    \/ StartRound \/ Finish
    \/ MapBarrier \/ EndMapping
    \/ RunTask \/ PassOverProcessedDma \/ RunFails \/ LeaveQueue
    \/ Grow \/ Shrink \/ ThrowNotProgressed \/ SimulationBlocked \/ NextRound
    \/ Returned

(* simulateBarriers() is a loop that runs until it returns or throws.      *)
Spec == Init /\ [][Next]_vars /\ WF_vars(Next)
-----------------------------------------------------------------------------
(* Every variable stays within the ranges the C++ types and indices give.  *)
TypeOK ==
    /\ limit \in Limits /\ legalize \in BOOLEAN
    /\ numReal \in Nat
    /\ toVirtual \in [0..(numReal - 1) -> Barrier \cup {Free}]
    /\ nextReal \in Seq(0..(numReal - 1))
    /\ realId \in [Barrier -> Int]
    /\ producerCount \in [Barrier -> Int]
    /\ consumerCount \in [Barrier -> Int]
    /\ bar \in 0..fn.numBarriers
    /\ head \in [Queue -> Nat]
    /\ multiDone \subseteq DOMAIN fn.multi
    /\ progressed \in BOOLEAN
    /\ batches \in Seq(SUBSET (Barrier \cup {Free}))
    /\ queue \in Queue
    /\ phase \in {"round", "map", "run", "adjust", "success", "failure", "throw"}

(* The ring never holds a physical id twice nor one in use, and misses no  *)
(* free one; a physical id and the virtual barrier it holds name each      *)
(* other.  The ring has no overflow check: push on a full RingBuffer       *)
(* silently overwrites, and a lost or doubled id would hand one physical   *)
(* barrier to two virtual ones.                                            *)
PhysicalIdsConsistent ==
    /\ \A r \in 0..(numReal - 1) : toVirtual[r] # Free => realId[toVirtual[r]] = r
    /\ fn.dynamic =>
        /\ \A i, j \in DOMAIN nextReal : nextReal[i] = nextReal[j] => i = j
        /\ \A i \in DOMAIN nextReal : toVirtual[nextReal[i]] = Free
        /\ \A r \in 0..(numReal - 1) :
                toVirtual[r] = Free => \E i \in DOMAIN nextReal : nextReal[i] = r

(* No counter is decremented below zero, also when a task is met twice.    *)
CountsNeverUnderflow ==
    \A v \in Barrier : producerCount[v] >= 0 /\ consumerCount[v] >= 0

(* Only mapped barriers are held by a physical one, and a barrier keeps    *)
(* its physical id until its consumers have used up their slots, even when *)
(* a task is met twice: processSim of dynamic barriers never compares the  *)
(* id with the barrier it holds.                                           *)
BarrierKeptUntilConsumed ==
    /\ \A r \in 0..(numReal - 1) : toVirtual[r] < bar
    /\ \A v \in Barrier :
        IF v < bar
        THEN consumerCount[v] > 0 =>
                realId[v] \in 0..(numReal - 1) /\ toVirtual[realId[v]] = v
        ELSE fn.dynamic => realId[v] = Free

(* The tasks the FIFOs have passed.                                        *)
Done == UNION {{fn.fifo[q][i] : i \in 1..head[q]} : q \in Queue}

(* Whatever the pool of barriers, the tasks run in an order the schedule   *)
(* allows: each FIFO in order, and a waiting task after all producers.     *)
Execution == INSTANCE TaskExecution WITH done <- Done
ExecutionRefined == Execution!Spec

(* "Check if dma task is processed in other task queue": a FIFO passes     *)
(* over a DMA without running it only when another FIFO has run it.        *)
SkippedDmaWasProcessed == [][PassOverProcessedDma => HeadTask \in Done]_vars

(* A barrier that was mapped and that some task still has to wait for or   *)
(* to update keeps its physical id: processSim takes any id in range for   *)
(* mapped when barriers are dynamic, so nothing else protects a task from  *)
(* signalling a barrier that was handed on.                                *)
NeededBarrierKeepsId ==
    \A v \in 0..(bar - 1) :
        (\E t \in Task \ Done : v \in fn.wait[t] \cup fn.update[t])
            => IsBarrierMapped(v) /\ toVirtual[realId[v]] = v

(* The counters of a barrier are exactly the slots of the tasks that still *)
(* have to update and to wait for it.                                      *)
CountsMatchPendingTasks ==
    \A v \in Barrier :
        /\ producerCount[v] = SlotSum(fn, {t \in Task \ Done : v \in fn.update[t]})
        /\ consumerCount[v] = SlotSum(fn, {t \in Task \ Done : v \in fn.wait[t]})

(* Two batches never share a barrier, so that the pass that linearizes     *)
(* them works on disjoint parts of the schedule.                           *)
BatchesDisjoint ==
    \A i, j \in DOMAIN batches : i # j => batches[i] \cap batches[j] = {}

(* The producers of a barrier precede its consumers in program order: what *)
(* the scheduler emits and the passes are meant to keep.                   *)
OrderedFunction(f) ==
    \A t, u \in 0..(f.numTasks - 1) : f.update[t] \cap f.wait[u] # {} => t < u

(* With a physical barrier for every virtual one to take from, an ordered  *)
(* function is never reported as blocked: the round-robin over the FIFOs   *)
(* always finds a task to run.                                             *)
EnoughBarriersSuffice ==
    OrderedFunction(fn) /\ fn.dynamic /\ limit >= fn.numBarriers => phase \notin {"failure", "throw"}

(* Legalization of an ordered function never meets its internal errors     *)
(* ("Found not mapped barrier", "Simulation not progressed").              *)
LegalizationNeverThrows == OrderedFunction(fn) => phase # "throw"

(* The simulation terminates, also when it has to invent barriers.         *)
Termination == <>(phase \in {"success", "failure", "throw"})
=============================================================================
