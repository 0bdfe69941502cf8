--------------------------- MODULE ReduceBarriers ---------------------------
(***************************************************************************)
(* ReduceExceedingActiveCountBarriers, the last pass of the barrier        *)
(* legalization pipeline, and the simulation of AssignPhysicalBarriers     *)
(* that judges its result.  While a simulation in legalization mode meets  *)
(* more active barriers than there are physical ones, the tasks of those   *)
(* barriers are made to run one after the other.                           *)
(*                                                                         *)
(* The pass edits the function through BarrierInfo (BarrierMaps) and reads *)
(* it back through the simulator (BarrierSimulator): info counts barriers  *)
(* by their index attribute, the simulator by their place in the IR.       *)
(***************************************************************************)
EXTENDS BarrierSimulator, BarrierMaps

(* Functions as the pass receives them: records with maps (BarrierMaps),   *)
(* and per task executor, ports, channel and count as in BarrierSimulator. *)
CONSTANTS
    Functions,
    MaxVariantCount     \* the max-variant-count option

(* What BarrierInfo builds from the IR; the producers of a barrier stand   *)
(* before its consumers, and every task counts at its barriers.            *)
ASSUME FunctionsAssumption ==
    \A f \in Functions :
        /\ BuiltMaps(f.maps)
        /\ f.count \in [TaskOf(f.maps) -> Nat \ {0}]
        /\ \A v \in BarrierOf(f.maps) : \A t \in f.maps.prod[v], u \in f.maps.cons[v] : t < u

VARIABLES
    input,          \* the function and its maps
    numBarriersToUse,
    stage,          \* "entry", "check", "legalize", "reduce", "assign", "thrown"
    info,           \* the BarrierInfo of the pass
    control,        \* its _taskControllMap
    order,          \* the barriers as they stand in the IR
    toLegalize,     \* barrierBatchesToLegalize
    it              \* iterations of the loop

passVars == <<input, numBarriersToUse, info, control, order, toLegalize, it>>
allVars == <<vars, passVars, stage>>

FunctionTask == TaskOf(input.maps)

(* The simulator constructed from the IR.                                  *)
Parsed(f, b, inIR) ==
    LET renumbered == Renumber(b, inIR)
    IN  Parse([ numTasks |-> Cardinality(TaskOf(b)), numBarriers |-> renumbered.num,
                dynamic |-> TRUE, realId |-> [v \in BarrierOf(renumbered) |-> Free],
                executor |-> f.executor, ports |-> f.ports, channel |-> f.channel, count |-> f.count,
                wait |-> renumbered.wait, update |-> renumbered.update ])

RInit ==
    /\ input \in Functions
    /\ numBarriersToUse \in Limits
    /\ stage = "entry"
    /\ info = input.maps
    /\ control = [t \in FunctionTask |-> {}]
    /\ order = Identity(info.num)
    /\ toLegalize = <<>>
    /\ it = 0
    /\ Start(Parsed(input, info, order), numBarriersToUse, "simulate")

(* A simulator starts over on the function as the IR has it now.           *)
Simulate(b, inIR, mode) ==
    /\ fn' = Parsed(input, b, inIR)
    /\ limit' = numBarriersToUse
    /\ legalize' = (mode = "legalize")
    /\ numReal' = numBarriersToUse
    /\ toVirtual' = [r \in 0..(numBarriersToUse - 1) |-> Free]
    /\ nextReal' = InitialRing(numBarriersToUse)
    /\ realId' = fn'.realId
    /\ producerCount' = fn'.producers
    /\ consumerCount' = fn'.consumers
    /\ bar' = 0
    /\ head' = [q \in Queue |-> 0]
    /\ multiDone' = {}
    /\ progressed' = FALSE
    /\ batches' = <<>>
    /\ queue' = 0
    /\ phase' = "round"

(* "Not possible to satisfy barrier requirement"; nothing to do for a      *)
(* function with few barriers.                                             *)
Enter ==
    /\ stage = "entry"
    /\ stage' = CASE numBarriersToUse <= 1 -> "thrown"
                  [] info.num <= numBarriersToUse -> "assign"
                  [] OTHER -> "check"
    /\ UNCHANGED <<vars, passVars>>

SimulationStep ==
    /\ stage \in {"check", "legalize", "assign"}
    /\ phase \notin {"success", "failure", "throw"}
    /\ Next
    /\ UNCHANGED <<passVars, stage>>

(* The first simulation finds the function legal: the IR stays as it is.   *)
CheckPasses ==
    /\ stage = "check" /\ phase = "success"
    /\ Simulate(info, order, "simulate")
    /\ stage' = "assign"
    /\ UNCHANGED passVars

(* updateAnalysis up to its simulation.                                    *)
UpdateAnalysis(edited) ==
    \E b \in {OptimizeBarriers(edited)} :
        /\ info' = b
        /\ control' = TaskControlMap(b, control)
        /\ order' = BarrierOrder(b)
        /\ Simulate(b, order', "legalize")
        /\ stage' = "legalize"

CheckFails ==
    /\ stage = "check" /\ phase = "failure"
    /\ UpdateAnalysis(info)
    /\ UNCHANGED <<input, numBarriersToUse, toLegalize, it>>

(* getBarrierBatchesToLegalize: ids become barriers, those without use are *)
(* left out and so are the batches that become empty.                      *)
BatchesToLegalize ==
    LET used(B) == {order[v + 1] : v \in B} \ {v \in BarrierOf(info) : Unused(info, v)}
        kept == Ascending({i \in DOMAIN batches : used(batches[i]) # {}})
    IN  [i \in DOMAIN kept |-> used(batches[kept[i]])]

(* updateAnalysis after its simulation.  It throws if the simulation       *)
(* passed and the batches of the simulation before were not empty.         *)
LegalizationEnds ==
    /\ stage = "legalize" /\ phase \in {"success", "failure", "throw"}
    /\ IF phase = "throw" \/ (phase = "success" /\ toLegalize # <<>>)
       THEN stage' = "thrown" /\ UNCHANGED toLegalize
       ELSE stage' = "reduce" /\ toLegalize' = BatchesToLegalize
    /\ UNCHANGED <<vars, input, numBarriersToUse, info, control, order, it>>

-----------------------------------------------------------------------------
UseSameBarriers(b, t, u) == b.wait[t] = b.wait[u] /\ b.update[t] = b.update[u]

MutantSection(b, T, t) == {t}

(* The tasks of T that stand right behind t and use the same barriers.     *)
Section(b, T, t) ==
    {u \in T : u >= t /\ \A x \in T : t <= x /\ x <= u => UseSameBarriers(b, t, x)}

(* linearizeTasks: sections of tasks with the same barriers; a new barrier *)
(* from each section to the next one, unless their first tasks are ordered *)
(* by the control map, which the new barriers do not refresh.              *)
LinearizeTasks(b, T) ==
    LET first == Ascending({t \in T : \A u \in T : u < t => t \notin Section(b, T, u)})
        section(i) == Section(b, T, first[i])
        unordered == Ascending({i \in 1..(Len(first) - 1) :
                        ~ControlPathExistsBetween(control, first[i], first[i + 1])})
    IN  AddLinkedBarriers(b, [k \in DOMAIN unordered |->
            <<section(unordered[k]), section(unordered[k] + 1)>>])

(* linearizeBarriers, which linearizes the tasks twice.                    *)
LinearizeBarriers(b, B) ==
    LET T == UNION {b.prod[v] \cup b.cons[v] : v \in B}
    IN  LinearizeTasks(LinearizeTasks(b, T), T)

Linearized == FoldLeft(LinearizeBarriers, info, toLegalize)

Reduce ==
    /\ stage = "reduce"
    /\ it < info.num /\ toLegalize # <<>>
    /\ UpdateAnalysis(Linearized)
    /\ it' = it + 1
    /\ UNCHANGED <<input, numBarriersToUse, toLegalize>>

MutantPostProcessed == Renumber(info, order)

(* postProcessBarrierOps erases the barriers without use.                  *)
PostProcessed == Rebuilt(info, order)

(* The loop ends, and the next pass simulates the function to assign       *)
(* physical ids.                                                           *)
FinishReduction ==
    /\ stage = "reduce"
    /\ ~(it < info.num /\ toLegalize # <<>>)
    /\ info' = PostProcessed
    /\ order' = Identity(info'.num)
    /\ Simulate(info', order', "simulate")
    /\ stage' = "assign"
    /\ UNCHANGED <<input, numBarriersToUse, control, toLegalize, it>>

Ended == \/ stage = "thrown"
         \/ stage = "assign" /\ phase \in {"success", "failure", "throw"}

PassesEnded == Ended /\ UNCHANGED allVars

RNext ==
    \/ Enter \/ SimulationStep
    \/ CheckPasses \/ CheckFails \/ LegalizationEnds
    \/ Reduce \/ FinishReduction
    \/ PassesEnded

RSpec == RInit /\ [][RNext]_allVars
-----------------------------------------------------------------------------
(* Whatever is linked, merged and removed, tasks that were ordered stay    *)
(* ordered.                                                                *)
OrderKept ==
    LET before == RunsAfter(input.maps)
        now == RunsAfter(info)
    IN  \A t \in FunctionTask : before[t] \subseteq now[t]

(* When the loop ends, nothing is left to legalize: it has not merely used *)
(* up its iterations.  The physical barriers then suffice, and             *)
(* AssignPhysicalBarriers does not fail.                                   *)
AssignmentSucceeds ==
    stage = "assign" => toLegalize = <<>> /\ phase \notin {"failure", "throw"}

(* VPUX_THROW_UNLESS(barrierBatchesToLegalize.empty(), ...): a simulation  *)
(* that passes finds no batches of the one before, so that the pass never  *)
(* gives up on a function while there are at least two barriers.           *)
PassedMeansNothingToLegalize == numBarriersToUse > 1 => stage # "thrown"

(* The pass's description: "total producer + consumer variant count <=     *)
(* MAX_VARIANT_COUNT", at least for a function that kept to it before.     *)
SlotsWithin(b) ==
    LET slots(S) == SumFunctionOnSet(input.count, S)
    IN  \A v \in BarrierOf(b) : slots(b.prod[v]) + slots(b.cons[v]) <= MaxVariantCount

SlotsRespected == SlotsWithin(input.maps) /\ stage = "assign" => SlotsWithin(info)
=============================================================================
