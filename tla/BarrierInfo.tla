----------------------------- MODULE BarrierInfo -----------------------------
(***************************************************************************)
(* vpux::BarrierInfo, the analysis through which the legalization passes   *)
(* edit the barriers of a function.  One action per operation of the       *)
(* class; the passes call them in any order, always on tasks that follow   *)
(* the program order (a producer stands before a consumer).                *)
(***************************************************************************)
EXTENDS BarrierMaps

CONSTANTS
    NumTasks,       \* getNumOfTasks, fixed for one analysis
    MaxBarriers     \* bound on the number of barriers

ASSUME NumTasksAssumption == NumTasks \in Nat
ASSUME MaxBarriersAssumption == MaxBarriers \in Nat

Task == 0..(NumTasks - 1)

VARIABLES
    bi,         \* the four maps
    control     \* _taskControllMap

vars == <<bi, control>>

(* A function without barriers; every other one is a few edits away.       *)
Init ==
    /\ bi = Build(NumTasks, 0, [t \in Task |-> {}], [t \in Task |-> {}])
    /\ control = [t \in Task |-> {}]

Before(S, T) == \A t \in S, u \in T : t < u

AddBarrier ==
    /\ bi.num < MaxBarriers
    /\ bi' = AddNewBarrier(bi)
    /\ UNCHANGED control

LinkProducer(v, t) ==
    /\ Before({t}, bi.cons[v])
    /\ bi' = AddProducers(bi, v, {t})
    /\ UNCHANGED control

LinkConsumer(v, t) ==
    /\ Before(bi.prod[v], {t})
    /\ bi' = AddConsumers(bi, v, {t})
    /\ UNCHANGED control

UnlinkProducer(v, t) == bi' = RemoveProducers(bi, v, {t}) /\ UNCHANGED control
UnlinkConsumer(v, t) == bi' = RemoveConsumers(bi, v, {t}) /\ UNCHANGED control
Reset(v) == bi' = ResetBarrier(bi, v) /\ UNCHANGED control

SetWaits(t, W) ==
    /\ \A v \in W : Before(bi.prod[v], {t})
    /\ bi' = SetWaitBarriers(bi, t, W)
    /\ UNCHANGED control

SetUpdates(t, U) ==
    /\ \A v \in U : Before({t}, bi.cons[v])
    /\ bi' = SetUpdateBarriers(bi, t, U)
    /\ UNCHANGED control

Optimize == bi' = OptimizeBarriers(bi) /\ UNCHANGED control

BuildControlMap == control' = TaskControlMap(bi, control) /\ UNCHANGED bi

Next ==
    \/ AddBarrier
    \/ \E v \in BarrierOf(bi), t \in Task :
        LinkProducer(v, t) \/ LinkConsumer(v, t) \/ UnlinkProducer(v, t) \/ UnlinkConsumer(v, t)
    \/ \E v \in BarrierOf(bi) : Reset(v)
    \/ \E t \in Task, S \in SUBSET BarrierOf(bi) : SetWaits(t, S) \/ SetUpdates(t, S)
    \/ Optimize
    \/ BuildControlMap

Spec == Init /\ [][Next]_vars
-----------------------------------------------------------------------------
(* The maps by task and by barrier never disagree, whatever the passes do. *)
MapsConsistent == MapsAgree(bi)

(* optimizeBarriers removes barriers and links, never an order between two *)
(* tasks, and adds none.                                                   *)
OptimizeKeepsOrder == RunsAfter(OptimizeBarriers(bi)) = RunsAfter(bi)

(* It leaves nothing to remove: no producer of a barrier drives another    *)
(* one, no consumer another one, and no two barriers have the same         *)
(* producers.                                                              *)
Irredundant(b) ==
    LET after == RunsAfter(b)
    IN  /\ \A v \in BarrierOf(b) : \A t \in b.prod[v] : after[t] \cap b.prod[v] = {}
        /\ \A v \in BarrierOf(b) : \A t \in b.cons[v] : after[t] \cap b.cons[v] = {}
        /\ \A v, w \in BarrierOf(b) : b.prod[v] = b.prod[w] /\ b.prod[v] # {} => v = w

OptimizeRemovesRedundancy == Irredundant(OptimizeBarriers(bi))

(* Right after buildTaskControllMap, controlPathExistsBetween misses no    *)
(* order: the pass that linearizes tasks would add a barrier twice.        *)
ControlMapComplete ==
    LET map == TaskControlMap(bi, control)
        after == RunsAfter(bi)
    IN  \A t \in Task : \A u \in after[t] : ControlPathExistsBetween(map, u, t)
=============================================================================
