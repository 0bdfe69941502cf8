------------------------- MODULE BarrierInfoProofs -------------------------
(***************************************************************************)
(* For any number of tasks and barriers, every operation of BarrierInfo    *)
(* keeps the maps by task and the maps by barrier in agreement, and        *)
(* optimizeBarriers keeps the order of the tasks.                          *)
(***************************************************************************)
EXTENDS BarrierInfo, BarrierMapsProofs

LEMMA TaskIsIndex == NumTasks \in Nat /\ Task = Index(NumTasks)
BY NumTasksAssumption DEF Task, Index

LEMMA OptimizeLeavesIrredundant ==
    ASSUME NEW n \in Nat, NEW b, Agreeing(n, b), Forward(b)
    PROVE  Irredundant(OptimizeBarriers(b))
<1>1. PICK b1 : b1 = ReduceProducers(b)
  OBVIOUS
<1>2. PICK b2 : b2 = MergeSameProducers(b1)
  OBVIOUS
<1>3. PICK b3 : b3 = ReduceConsumers(b2)
  OBVIOUS
<1>4. OptimizeBarriers(b) = b3
  BY <1>1, <1>2, <1>3 DEF OptimizeBarriers
<1>5. Agreeing(n, b1) /\ Forward(b1) /\ RunsAfter(b1) = RunsAfter(b) /\ BarrierOf(b1) = BarrierOf(b)
  BY <1>1, ReduceProducersAgrees, ReduceProducersOrder DEF ReduceProducers, Maps, BarrierOf
<1>6. Agreeing(n, b2) /\ Forward(b2) /\ RunsAfter(b2) = RunsAfter(b) /\ BarrierOf(b2) = BarrierOf(b)
  BY <1>2, <1>5, MergeSameProducersAgrees, MergeSameProducersOrder, MergedMaps
<1>7. RunsAfter(b3) = RunsAfter(b) /\ BarrierOf(b3) = BarrierOf(b) /\ b3.prod = b2.prod
  BY <1>3, <1>6, ReduceConsumersOrder DEF ReduceConsumers, Maps, BarrierOf
<1>8. ASSUME NEW v \in BarrierOf(b), NEW t \in b3.prod[v] PROVE RunsAfter(b)[t] \cap b3.prod[v] = {}
  <2>1. b3.prod[v] = b1.prod[v]
    BY <1>2, <1>5, <1>7, <1>8, MergedMaps
  <2>2. \A x \in b1.prod[v] : RunsAfter(b)[x] \cap b1.prod[v] = {}
    BY <1>1, ProducersReduced
  <2> QED  BY <2>1, <2>2
<1>9. \A v \in BarrierOf(b) : \A t \in b3.cons[v] : RunsAfter(b)[t] \cap b3.cons[v] = {}
  BY <1>3, <1>6, ConsumersReduced
<1>10. \A v, w \in BarrierOf(b) : b3.prod[v] = b3.prod[w] /\ b3.prod[v] # {} => v = w
  BY <1>2, <1>5, <1>7, MergedMaps
<1>11. Irredundant(b3)
  BY <1>7, <1>8, <1>9, <1>10 DEF Irredundant
<1> QED  BY <1>4, <1>11

LEMMA InitAgrees == Init => Agreeing(NumTasks, bi)
<1> DEFINE none == [t \in Task |-> {}]
<1>1. Mirror(NumTasks, 0, [t \in 0..(NumTasks - 1) |-> none[t]],
                [v \in 0..(0 - 1) |-> {t \in 0..(NumTasks - 1) : v \in none[t]}])
  BY DEF Mirror, Task, Index
<1> QED
  BY <1>1, Assemble DEF Init, Build, Task

LEMMA NextAgrees == Agreeing(NumTasks, bi) /\ [Next]_vars => Agreeing(NumTasks, bi)'
<1> SUFFICES ASSUME Agreeing(NumTasks, bi), [Next]_vars PROVE Agreeing(NumTasks, bi')
  OBVIOUS
<1>0. /\ bi.num \in Nat
      /\ Mirror(NumTasks, bi.num, bi.wait, bi.cons)
      /\ Mirror(NumTasks, bi.num, bi.update, bi.prod)
      /\ BarrierOf(bi) = Index(bi.num)
  BY DEF Agreeing, BarrierOf, Index
<1>1. CASE AddBarrier
  BY <1>1, TaskIsIndex, AddNewBarrierAgrees DEF AddBarrier
<1>2. ASSUME NEW v \in BarrierOf(bi), NEW t \in Task,
             \/ LinkProducer(v, t) \/ LinkConsumer(v, t)
             \/ UnlinkProducer(v, t) \/ UnlinkConsumer(v, t)
      PROVE  Agreeing(NumTasks, bi')
  <2> DEFINE S == {t}
  <2>1. /\ Mirror(NumTasks, bi.num, Join(bi.update, S, v), With(bi.prod, v, S))
        /\ Mirror(NumTasks, bi.num, Leave(bi.update, S, v), Without(bi.prod, v, S))
        /\ Mirror(NumTasks, bi.num, Join(bi.wait, S, v), With(bi.cons, v, S))
        /\ Mirror(NumTasks, bi.num, Leave(bi.wait, S, v), Without(bi.cons, v, S))
    BY <1>0, TaskIsIndex, JoinMirrors
  <2>2. CASE LinkProducer(v, t)
    BY <1>0, <2>1, <2>2, Assemble DEF LinkProducer, AddProducers
  <2>3. CASE LinkConsumer(v, t)
    BY <1>0, <2>1, <2>3, Assemble DEF LinkConsumer, AddConsumers
  <2>4. CASE UnlinkProducer(v, t)
    BY <1>0, <2>1, <2>4, Assemble DEF UnlinkProducer, RemoveProducers
  <2>5. CASE UnlinkConsumer(v, t)
    BY <1>0, <2>1, <2>5, Assemble DEF UnlinkConsumer, RemoveConsumers
  <2> QED
    BY <1>2, <2>2, <2>3, <2>4, <2>5
<1>3. ASSUME NEW v \in BarrierOf(bi), Reset(v) PROVE Agreeing(NumTasks, bi')
  <2>1. /\ Mirror(NumTasks, bi.num, Leave(bi.wait, bi.cons[v], v), [bi.cons EXCEPT ![v] = {}])
        /\ Mirror(NumTasks, bi.num, Leave(bi.update, bi.prod[v], v), [bi.prod EXCEPT ![v] = {}])
    BY <1>0, ResetMirrors
  <2> QED
    BY <1>0, <1>3, <2>1, Assemble DEF Reset, ResetBarrier
<1>4. ASSUME NEW t \in Task, NEW S \in SUBSET BarrierOf(bi), SetWaits(t, S) \/ SetUpdates(t, S)
      PROVE  Agreeing(NumTasks, bi')
  <2>1. /\ Mirror(NumTasks, bi.num, [bi.wait EXCEPT ![t] = S], Join(Leave(bi.cons, bi.wait[t], t), S, t))
        /\ Mirror(NumTasks, bi.num, [bi.update EXCEPT ![t] = S], Join(Leave(bi.prod, bi.update[t], t), S, t))
    BY <1>0, TaskIsIndex, SetMirrors
  <2>2. CASE SetWaits(t, S)
    BY <1>0, <2>1, <2>2, Assemble DEF SetWaits, SetWaitBarriers
  <2>3. CASE SetUpdates(t, S)
    BY <1>0, <2>1, <2>3, Assemble DEF SetUpdates, SetUpdateBarriers
  <2> QED
    BY <1>4, <2>2, <2>3
<1>5. CASE Optimize
  BY <1>5, TaskIsIndex, OptimizeBarriersAgrees DEF Optimize
<1>6. CASE BuildControlMap
  BY <1>6 DEF BuildControlMap
<1>7. CASE UNCHANGED vars
  BY <1>7 DEF vars
<1> QED
  BY <1>1, <1>2, <1>3, <1>4, <1>5, <1>6, <1>7 DEF Next

-----------------------------------------------------------------------------
(* The operations keep consumers behind producers.                         *)

LEMMA EditsKeepForward ==
    ASSUME NEW b, Agreeing(NumTasks, b), Forward(b)
    PROVE  /\ Forward(AddNewBarrier(b))
           /\ \A v \in BarrierOf(b), t \in Task :
                /\ Before({t}, b.cons[v]) => Forward(AddProducers(b, v, {t}))
                /\ Before(b.prod[v], {t}) => Forward(AddConsumers(b, v, {t}))
                /\ Forward(RemoveProducers(b, v, {t})) /\ Forward(RemoveConsumers(b, v, {t}))
           /\ \A v \in BarrierOf(b) : Forward(ResetBarrier(b, v))
           /\ \A t \in Task, S \in SUBSET BarrierOf(b) :
                /\ (\A v \in S : Before(b.prod[v], {t})) => Forward(SetWaitBarriers(b, t, S))
                /\ (\A v \in S : Before({t}, b.cons[v])) => Forward(SetUpdateBarriers(b, t, S))
<1>1. /\ b.num \in Nat /\ BarrierOf(b) = 0..(b.num - 1)
      /\ DOMAIN b.prod = BarrierOf(b) /\ DOMAIN b.cons = BarrierOf(b)
  BY DEF Agreeing, Mirror, Index, BarrierOf
<1>2. Forward(AddNewBarrier(b))
  <2>1. \A v \in 0..b.num : v = b.num \/ v \in BarrierOf(b)
    BY <1>1
  <2>2. (b.num + 1) - 1 = b.num
    BY <1>1
  <2> QED  BY <2>1, <2>2 DEF Forward, AddNewBarrier, Maps, BarrierOf
<1>3. ASSUME NEW v \in BarrierOf(b), NEW t \in Task
      PROVE  /\ Before({t}, b.cons[v]) => Forward(AddProducers(b, v, {t}))
             /\ Before(b.prod[v], {t}) => Forward(AddConsumers(b, v, {t}))
             /\ Forward(RemoveProducers(b, v, {t})) /\ Forward(RemoveConsumers(b, v, {t}))
  <2>1. Before({t}, b.cons[v]) => Forward(AddProducers(b, v, {t}))
    BY <1>1 DEF Forward, AddProducers, Maps, BarrierOf, With, Before
  <2>2. Before(b.prod[v], {t}) => Forward(AddConsumers(b, v, {t}))
    BY <1>1 DEF Forward, AddConsumers, Maps, BarrierOf, With, Before
  <2>3. Forward(RemoveProducers(b, v, {t})) /\ Forward(RemoveConsumers(b, v, {t}))
    BY <1>1 DEF Forward, RemoveProducers, RemoveConsumers, Maps, BarrierOf, Without
  <2> QED  BY <2>1, <2>2, <2>3
<1>4. ASSUME NEW v \in BarrierOf(b) PROVE Forward(ResetBarrier(b, v))
  BY <1>1 DEF Forward, ResetBarrier, Maps, BarrierOf
<1>5. ASSUME NEW t \in Task, NEW S \in SUBSET BarrierOf(b)
      PROVE  /\ (\A v \in S : Before(b.prod[v], {t})) => Forward(SetWaitBarriers(b, t, S))
             /\ (\A v \in S : Before({t}, b.cons[v])) => Forward(SetUpdateBarriers(b, t, S))
  <2>1. ASSUME NEW f, DOMAIN f = BarrierOf(b), NEW R, NEW v \in BarrierOf(b)
        PROVE  \A u \in Join(Leave(f, R, t), S, t)[v] : u \in f[v] \/ (u = t /\ v \in S)
    BY <2>1 DEF Join, Leave
  <2>2. ASSUME \A v \in S : Before(b.prod[v], {t}) PROVE Forward(SetWaitBarriers(b, t, S))
    <3> DEFINE g == Join(Leave(b.cons, b.wait[t], t), S, t)
    <3>1. \A v \in BarrierOf(b) : \A u \in g[v] : u \in b.cons[v] \/ (u = t /\ v \in S)
      BY <2>1, <1>1
    <3>2. SetWaitBarriers(b, t, S) = Maps(b.num, [b.wait EXCEPT ![t] = S], b.update, b.prod, g)
      BY DEF SetWaitBarriers
    <3> HIDE DEF g
    <3> QED  BY <3>1, <3>2, <2>2 DEF Forward, Maps, BarrierOf, Before
  <2>3. ASSUME \A v \in S : Before({t}, b.cons[v]) PROVE Forward(SetUpdateBarriers(b, t, S))
    <3> DEFINE g == Join(Leave(b.prod, b.update[t], t), S, t)
    <3>1. \A v \in BarrierOf(b) : \A u \in g[v] : u \in b.prod[v] \/ (u = t /\ v \in S)
      BY <2>1, <1>1
    <3>2. SetUpdateBarriers(b, t, S) = Maps(b.num, b.wait, [b.update EXCEPT ![t] = S], g, b.cons)
      BY DEF SetUpdateBarriers
    <3> HIDE DEF g
    <3> QED  BY <3>1, <3>2, <2>3 DEF Forward, Maps, BarrierOf, Before
  <2> QED  BY <2>2, <2>3
<1> QED  BY <1>2, <1>3, <1>4, <1>5

LEMMA InitForward == Init => Forward(bi)
BY DEF Init, Build, Maps, Forward, BarrierOf

LEMMA NextForward == Agreeing(NumTasks, bi) /\ Forward(bi) /\ [Next]_vars => Forward(bi')
<1> SUFFICES ASSUME Agreeing(NumTasks, bi), Forward(bi), [Next]_vars PROVE Forward(bi')
  OBVIOUS
<1>1. CASE AddBarrier
  BY <1>1, EditsKeepForward DEF AddBarrier
<1>2. ASSUME NEW v \in BarrierOf(bi), NEW t \in Task,
             \/ LinkProducer(v, t) \/ LinkConsumer(v, t)
             \/ UnlinkProducer(v, t) \/ UnlinkConsumer(v, t)
      PROVE  Forward(bi')
  BY <1>2, EditsKeepForward DEF LinkProducer, LinkConsumer, UnlinkProducer, UnlinkConsumer
<1>3. ASSUME NEW v \in BarrierOf(bi), Reset(v) PROVE Forward(bi')
  BY <1>3, EditsKeepForward DEF Reset
<1>4. ASSUME NEW t \in Task, NEW S \in SUBSET BarrierOf(bi), SetWaits(t, S) \/ SetUpdates(t, S)
      PROVE  Forward(bi')
  BY <1>4, EditsKeepForward DEF SetWaits, SetUpdates
<1>5. CASE Optimize
  BY <1>5, TaskIsIndex, OptimizeBarriersOrder DEF Optimize
<1>6. CASE BuildControlMap \/ UNCHANGED vars
  BY <1>6 DEF BuildControlMap, vars
<1> QED
  BY <1>1, <1>2, <1>3, <1>4, <1>5, <1>6 DEF Next

(* Whatever sequence of operations the passes use, the maps by task and    *)
(* the maps by barrier agree (the asymmetric updates of addProducers,      *)
(* resetBarrier, setWaitBarriers and the rest).                            *)
THEOREM MapsAlwaysConsistent == Spec => []MapsConsistent
<1>1. Init => Agreeing(NumTasks, bi)
  BY InitAgrees
<1>2. Agreeing(NumTasks, bi) /\ [Next]_vars => Agreeing(NumTasks, bi)'
  BY NextAgrees
<1>3. Agreeing(NumTasks, bi) => MapsConsistent
  BY AgreeingMapsAgree DEF MapsConsistent
<1> QED
  BY <1>1, <1>2, <1>3, PTL DEF Spec

(* The passes link tasks only in program order, so that the graph of the   *)
(* tasks never has a cycle.                                                *)
LEMMA AlwaysForward == Spec => [](Agreeing(NumTasks, bi) /\ Forward(bi))
<1>1. Init => Agreeing(NumTasks, bi) /\ Forward(bi)
  BY InitAgrees, InitForward
<1>2. Agreeing(NumTasks, bi) /\ Forward(bi) /\ [Next]_vars => Agreeing(NumTasks, bi)' /\ Forward(bi)'
  BY NextAgrees, NextForward
<1> QED  BY <1>1, <1>2, PTL DEF Spec

(* optimizeBarriers, in whatever state the passes call it, neither loses   *)
(* nor adds an order between two tasks.                                    *)
THEOREM OptimizationKeepsOrder == Spec => []OptimizeKeepsOrder
<1>1. Agreeing(NumTasks, bi) /\ Forward(bi) => OptimizeKeepsOrder
  BY TaskIsIndex, OptimizeBarriersOrder DEF OptimizeKeepsOrder
<1> QED  BY <1>1, AlwaysForward, PTL

(* One call of optimizeBarriers is enough: no redundant producer, consumer *)
(* or barrier is left.                                                     *)
THEOREM OptimizationIsThorough == Spec => []OptimizeRemovesRedundancy
<1>1. Agreeing(NumTasks, bi) /\ Forward(bi) => OptimizeRemovesRedundancy
  BY TaskIsIndex, OptimizeLeavesIrredundant DEF OptimizeRemovesRedundancy
<1> QED  BY <1>1, AlwaysForward, PTL

(* Right after buildTaskControllMap, controlPathExistsBetween knows every  *)
(* pair of ordered tasks, whatever the map held before.                    *)
THEOREM ControlMapKnowsOrder == Spec => []ControlMapComplete
<1>1. Agreeing(NumTasks, bi) /\ Forward(bi) => ControlMapComplete
  BY TaskIsIndex, ControlMapCoversOrder DEF ControlMapComplete, ControlPathExistsBetween
<1> QED  BY <1>1, AlwaysForward, PTL
=============================================================================
