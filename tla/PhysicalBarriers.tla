-------------------------- MODULE PhysicalBarriers --------------------------
(***************************************************************************)
(* The life of a function's barriers after legalization: the pass          *)
(* AssignPhysicalBarriers gives every virtual barrier the physical id the  *)
(* simulator found, BarrierSimulation validates the assignment, the        *)
(* VPUMI37XX pass BarrierComputation derives the scheduling fields         *)
(* next_same_id and start_after, and the device runs the tasks, in any     *)
(* interleaving of its executors, reprogramming each physical barrier      *)
(* along next_same_id.  The device is outside the repository; it is        *)
(* modelled from the fields the compiler computes for it.                  *)
(***************************************************************************)
EXTENDS BarrierSimulator, FiniteSetsExt

CONSTANTS
    Available,      \* getNumAvailableBarriers: the platform's barriers
    SlotLimit       \* getBarrierMaxVariantCount

ASSUME AvailableAssumption == Available \in Nat \ {0}
ASSUME SlotLimitAssumption == SlotLimit \in Nat \ {0}
(* simulateBarriers throws for a larger request.                           *)
ASSUME RequestAssumption == \A n \in Limits : n <= Available
(* A parsed function has the fields that a second parse sets anew.         *)
ASSUME RecordsAssumption ==
    \A f \in Programs : {"numTasks", "numBarriers", "dynamic", "realId", "wait", "update", "count",
                         "fifo", "multi", "producers", "consumers"} \subseteq DOMAIN f

VARIABLES
    stage,          \* the pass being run, or "device", or "failed"
    nextSameId,     \* virtual barrier -> the next one on its physical id
    startAfter,     \* task -> its start_after field
    loaded,         \* device: physical id -> virtual barrier programmed
    configured,     \* device: the virtual barriers programmed so far
    executed        \* device: the tasks that have run

deviceVars == <<loaded, configured, executed>>
fieldVars == <<nextSameId, startAfter>>
allVars == <<vars, stage, fieldVars, deviceVars>>

PInit ==
    /\ Init
    /\ fn.dynamic /\ ~legalize
    /\ stage = "checkAssign"
    /\ nextSameId = [v \in Barrier |-> -1]
    /\ startAfter = [t \in Task |-> 0]
    /\ loaded = <<>>
    /\ configured = {}
    /\ executed = {}

(* checkProducerCount, first thing in both passes.                         *)
CheckProducerCount ==
    /\ stage \in {"checkAssign", "checkValidate"}
    /\ stage' = IF \E v \in Barrier : producerCount[v] > SlotLimit THEN "failed"
                ELSE IF stage = "checkAssign" THEN "assign" ELSE "validate"
    /\ UNCHANGED <<vars, fieldVars, deviceVars>>

(* A step of simulateBarriers; its failure fails the pass.                 *)
SimulationStep ==
    /\ stage \in {"assign", "validate"}
    /\ \/ Next /\ phase \notin {"success", "failure", "throw"} /\ UNCHANGED stage
       \/ phase \in {"failure", "throw"} /\ stage' = "failed" /\ UNCHANGED vars
    /\ UNCHANGED <<fieldVars, deviceVars>>

(* A simulator starts over with static barriers and n physical ids.        *)
Restart(n) ==
    /\ fn' = [fn EXCEPT !.dynamic = FALSE, !.realId = realId]
    /\ limit' = n
    /\ numReal' = n
    /\ toVirtual' = [r \in 0..(n - 1) |-> Free]
    /\ nextReal' = <<>>
    /\ producerCount' = fn.producers
    /\ consumerCount' = fn.consumers
    /\ bar' = 0
    /\ head' = [q \in Queue |-> 0]
    /\ multiDone' = {}
    /\ progressed' = FALSE
    /\ queue' = 0
    /\ phase' = "round"
    /\ UNCHANGED <<legalize, realId, batches>>

(* VirtualBarrierRewrite: DeclareVirtualBarrier becomes ConfigureBarrier   *)
(* with the id found; the next pass parses the function again.             *)
RewriteBarriers ==
    /\ stage = "assign" /\ phase = "success"
    /\ Restart(Available)
    /\ stage' = "checkValidate"
    /\ UNCHANGED <<fieldVars, deviceVars>>

-----------------------------------------------------------------------------
(* BarrierComputation.                                                     *)

(* linkNextIds: the next virtual barrier with the same physical id.        *)
LinkedNextId(v) ==
    LET later == {w \in Barrier : w > v /\ realId[w] = realId[v]}
    IN  IF later = {} THEN -1 ELSE Min(later)

MutantNextSameIds ==
    [v \in Barrier |->
        LET mine == {w \in Barrier : realId[w] = realId[v]}
            chain == {w \in mine : w > Available}
            rank == Cardinality({w \in mine : w < v})
            next == {w \in chain : Cardinality({x \in chain : x < w}) = rank}
        IN  IF next = {} THEN -1 ELSE Min(next)]

(* setNextSameID: per physical id, the barriers whose virtual id is at     *)
(* least MAX_PID are handed out, oldest first, to the barriers on that id. *)
NextSameIds ==
    [v \in Barrier |->
        LET mine == {w \in Barrier : realId[w] = realId[v]}
            chain == {w \in mine : w >= Available}
            rank == Cardinality({w \in mine : w < v})
            next == {w \in chain : Cardinality({x \in chain : x < w}) = rank}
        IN  IF next = {} THEN -1 ELSE Min(next)]

StartComputation ==
    /\ stage = "validate" /\ phase = "success"
    /\ nextSameId' = NextSameIds
    /\ Restart(Max({0} \cup {realId[v] + 1 : v \in Barrier}))
    /\ stage' = "compute"
    /\ UNCHANGED <<startAfter, deviceVars>>

MutantComputeBlocked(t) ==
    \/ \E v \in fn.wait[t] : realId[v] + 1 >= numReal \/ producerCount[v] > 0
    \/ \E v \in fn.update[t] : realId[v] + 1 >= numReal \/ toVirtual[realId[v]] # v

(* processSim of the pass: a barrier that is waited for need not be        *)
(* mapped, one that is updated must be.                                    *)
ComputeBlocked(t) ==
    \/ \E v \in fn.wait[t] : realId[v] >= numReal \/ producerCount[v] > 0
    \/ \E v \in fn.update[t] : realId[v] >= numReal \/ toVirtual[realId[v]] # v

MutantStartAfterOf(t) == Max({0} \cup {v + 1 : v \in fn.wait[t]})

(* start_after_: one more than the last barrier the task uses.             *)
StartAfterOf(t) == Max({0} \cup {v + 1 : v \in fn.wait[t] \cup fn.update[t]})

ComputeTask ==
    /\ phase = "run"
    /\ HasHead
    /\ ~ComputeBlocked(HeadTask)
    /\ IF CountsSuffice(HeadTask)
       THEN /\ Execute(HeadTask)
            /\ Advance
            /\ startAfter' = [startAfter EXCEPT ![HeadTask] = StartAfterOf(HeadTask)]
            /\ UNCHANGED <<multiDone, phase, stage>>
       ELSE stage' = "failed" /\ UNCHANGED <<vars, startAfter>>

ComputeLeaveQueue ==
    /\ phase = "run"
    /\ HasHead => ComputeBlocked(HeadTask)
    /\ IF queue = UPA THEN phase' = "adjust" /\ UNCHANGED queue
                      ELSE queue' = queue + 1 /\ UNCHANGED phase
    /\ UNCHANGED <<inputVars, physVars, countVars, bar, head, multiDone, progressed, batches>>

(* "Did not progress" throws.                                              *)
ComputeRoundEnd ==
    /\ phase = "adjust"
    /\ IF progressed THEN phase' = "round" /\ UNCHANGED stage
                     ELSE stage' = "failed" /\ UNCHANGED phase
    /\ UNCHANGED <<inputVars, physVars, countVars, bar, head, multiDone, progressed, batches, queue>>

(* simulateBarriers of the pass.                                           *)
ComputationStep ==
    /\ stage = "compute"
    /\ \/ (StartRound \/ MapBarrier \/ EndMapping) /\ UNCHANGED <<stage, startAfter>>
       \/ ComputeTask
       \/ ComputeLeaveQueue /\ UNCHANGED <<stage, startAfter>>
       \/ ComputeRoundEnd /\ UNCHANGED startAfter
    /\ UNCHANGED <<nextSameId, deviceVars>>

-----------------------------------------------------------------------------
(* The device.                                                             *)

(* The barriers 0..MAX_PID-1 are programmed at the start, the others when  *)
(* next_same_id reaches them.                                              *)
StartDevice ==
    /\ stage = "compute" /\ Finish
    /\ stage' = "device"
    /\ LET first == {v \in Barrier : v < Available}
       IN  /\ loaded' = [r \in 0..(Available - 1) |->
                            LET mine == {v \in first : realId[v] = r}
                            IN  IF mine = {} THEN Free ELSE Min(mine)]
           /\ configured' = first
    /\ UNCHANGED <<fieldVars, executed>>

Loaded(v) == loaded[realId[v]] = v

(* A physical barrier whose consumers have all run takes its next barrier. *)
Reprogram(r) ==
    LET v == loaded[r]
    IN  /\ stage = "device"
        /\ v # Free
        /\ \E t \in Task : v \in fn.wait[t]
        /\ \A t \in Task : v \in fn.wait[t] => t \in executed
        /\ loaded' = [loaded EXCEPT ![r] = nextSameId[v]]
        /\ configured' = configured \cup ({nextSameId[v]} \ {Free})
        /\ UNCHANGED <<vars, stage, fieldVars, executed>>

(* An executor takes the next task of its FIFO once start_after barriers   *)
(* are configured, its wait barriers are produced and its barriers loaded. *)
ExecuteOnDevice(t) ==
    /\ stage = "device"
    /\ t \notin executed
    /\ \A q \in Queue : \A i \in DOMAIN fn.fifo[q] :
            fn.fifo[q][i] = t => \A j \in 1..(i - 1) : fn.fifo[q][j] \in executed
    /\ 0..(startAfter[t] - 1) \subseteq configured
    /\ \A v \in fn.wait[t] : \A u \in Task : v \in fn.update[u] => u \in executed
    /\ \A v \in fn.wait[t] \cup fn.update[t] : Loaded(v)
    /\ executed' = executed \cup {t}
    /\ UNCHANGED <<vars, stage, fieldVars, loaded, configured>>

(* Compilation failed, or the device waits for its next inference.         *)
AtRest == stage \in {"failed", "device"} /\ UNCHANGED allVars

PNext ==
    \/ CheckProducerCount \/ SimulationStep \/ RewriteBarriers
    \/ StartComputation \/ ComputationStep \/ StartDevice
    \/ \E r \in 0..(Available - 1) : Reprogram(r)
    \/ \E t \in Task : ExecuteOnDevice(t)
    \/ AtRest

(* Compilation goes on, and no executor of the device rests for ever.      *)
PSpec == PInit /\ [][PNext]_allVars /\ WF_allVars(PNext)
-----------------------------------------------------------------------------
(* An assignment found for one schedule of the executors is never rejected *)
(* by the passes that run after it.                                        *)
AssignmentAccepted ==
    [][stage' = "failed" => stage \in {"checkAssign", "assign"}]_allVars

(* next_same_id links the barriers of a physical id one after the other,   *)
(* as linkNextIds does.                                                    *)
NextSameIdLinksAll ==
    stage \in {"compute", "device"} => \A v \in Barrier : nextSameId[v] = LinkedNextId(v)

(* Once the barriers its start_after field names are configured, a task    *)
(* that has not run yet finds its barriers programmed: no physical barrier *)
(* has moved on to a later one.                                            *)
StartAfterProtectsBarriers ==
    stage = "device" =>
        \A t \in Task \ executed :
            0..(startAfter[t] - 1) \subseteq configured =>
                \A v \in fn.wait[t] \cup fn.update[t] : Loaded(v)

(* Whatever the interleaving of the executors, every task runs.            *)
InferenceCompletes == <>(stage = "failed" \/ executed = Task)
=============================================================================
