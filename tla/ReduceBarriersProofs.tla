------------------------- MODULE ReduceBarriersProofs -------------------------
(***************************************************************************)
(* Proofs about the pass that reduces the number of active barriers, for   *)
(* functions of any size and any number of physical barriers.  Only one    *)
(* thing about the simulation matters to the order of the tasks: the       *)
(* batches it leaves hold barriers of the function (SimInv).  Linearizing  *)
(* adds barriers from earlier tasks to later ones (Extends), reducing      *)
(* keeps the order by OptimizeBarriersOrder, and rebuilding the IR drops   *)
(* nothing in use: OrderInv.                                               *)
(***************************************************************************)
EXTENDS ReduceBarriers, BarrierMapsProofs

(* What the pass needs of the simulator: the batches it collects are of    *)
(* barriers of the function, since no physical barrier holds any other.    *)
Pool == [0..(numReal - 1) -> Barrier \cup {Free}]

SimInv ==
    /\ fn.numBarriers \in Nat /\ numReal \in Nat /\ bar \in Nat
    /\ toVirtual \in Pool
    /\ batches \in Seq(SUBSET Barrier)

(* Steps that leave the batches alone.                                     *)
LEMMA BatchesStay ==
    ASSUME SimInv, fn' = fn, numReal' \in Nat, bar' \in Nat, toVirtual' \in Pool', batches' = batches
    PROVE  SimInv'
<1>1. Barrier' = Barrier
  BY DEF Barrier
<1> QED BY <1>1 DEF SimInv

(* Only barriers of the function become active.                            *)
LEMMA SimMapBarrier ==
    ASSUME SimInv, MapBarrier
    PROVE  SimInv'
<1>1. PICK r : /\ toVirtual' = [toVirtual EXCEPT ![r] = bar]
               /\ bar < fn.numBarriers /\ bar' = bar + 1 /\ batches' = batches
               /\ fn' = fn /\ numReal' = numReal
  BY DEF MapBarrier, inputVars
<1>2. Pool' = Pool
  BY <1>1 DEF Pool, Barrier
<1>3. bar \in Nat /\ toVirtual \in Pool /\ numReal \in Nat
  BY DEF SimInv
<1>4. bar \in Barrier
  BY <1>1, <1>3 DEF Barrier, SimInv
<1>5. toVirtual' \in Pool
  BY <1>1, <1>3, <1>4 DEF Pool
<1> QED BY <1>1, <1>2, <1>3, <1>5, BatchesStay

(* The active barriers join the last batch or start one.                   *)
LEMMA SimEndMapping ==
    ASSUME SimInv, EndMapping
    PROVE  SimInv'
<1>1. /\ toVirtual' = toVirtual /\ numReal' = numReal /\ bar' = bar /\ fn' = fn
      /\ batches' = batches \/ (batches' = ExtendedBatches /\ Free \notin Active)
  BY DEF EndMapping, inputVars, physVars
<1>2. Pool' = Pool /\ Barrier' = Barrier
  BY <1>1 DEF Pool, Barrier
<1>3. /\ bar \in Nat /\ toVirtual \in Pool /\ numReal \in Nat /\ fn.numBarriers \in Nat
      /\ batches \in Seq(SUBSET Barrier)
  BY DEF SimInv
<1>4. CASE batches' = batches
  BY <1>1, <1>2, <1>3, <1>4, BatchesStay
<1>5. CASE batches' = ExtendedBatches /\ Free \notin Active
  <2>1. Active \in SUBSET Barrier
    BY <1>3, <1>5 DEF Active, Pool
  <2> DEFINE T == SUBSET Barrier
  <2>2. batches \in Seq(T) /\ Active \in T /\ \A s \in T : s \cup Active \in T
    BY <1>3, <2>1
  <2>3. batches' \in Seq(T)
    <3>1. CASE batches' = Append(batches, Active)
      <4> HIDE DEF T
      <4> QED BY <2>2, <3>1
    <3>2. CASE batches # <<>> /\ batches' = [batches EXCEPT ![Len(batches)] = @ \cup Active]
      <4> HIDE DEF T
      <4>1. Len(batches) \in 1..Len(batches) /\ batches[Len(batches)] \in T
        BY <2>2, <3>2
      <4>2. batches' \in [1..Len(batches) -> T]
        BY <2>2, <3>2, <4>1
      <4> QED BY <2>2, <4>2
    <3> QED BY <1>5, <3>1, <3>2 DEF ExtendedBatches
  <2> QED BY <1>1, <1>2, <1>3, <2>3 DEF SimInv
<1> QED BY <1>1, <1>4, <1>5

(* Running a task frees physical barriers or leaves them.                  *)
LEMMA SimRunTask ==
    ASSUME SimInv, RunTask
    PROVE  SimInv'
<1>1. /\ fn' = fn /\ numReal' = numReal /\ bar' = bar /\ batches' = batches
      /\ toVirtual' = Vacated(Exhausted(HeadTask))
  BY DEF RunTask, Execute, Advance, inputVars
<1>2. Pool' = Pool
  BY <1>1 DEF Pool, Barrier
<1>3. bar \in Nat /\ toVirtual \in Pool /\ numReal \in Nat
  BY DEF SimInv
<1>4. toVirtual' \in Pool
  BY <1>1, <1>3 DEF Pool, Vacated
<1> QED BY <1>1, <1>2, <1>3, <1>4, BatchesStay

(* New physical barriers are free.                                         *)
LEMMA SimGrow ==
    ASSUME SimInv, Grow
    PROVE  SimInv'
<1>1. /\ fn' = fn /\ numReal' = numReal + 1 /\ bar' = bar /\ batches' = batches
      /\ toVirtual' = [r \in 0..numReal |-> IF r = numReal THEN Free ELSE toVirtual[r]]
  BY DEF Grow, inputVars
<1>2. bar \in Nat /\ toVirtual \in Pool /\ numReal \in Nat
  BY DEF SimInv
<1>3. numReal' \in Nat /\ 0..(numReal' - 1) = 0..numReal
      /\ \A r \in 0..numReal : r # numReal => r \in 0..(numReal - 1)
  BY <1>1, <1>2
<1>4. Barrier' = Barrier
  BY <1>1 DEF Barrier
<1>5. toVirtual' \in Pool'
  BY <1>1, <1>2, <1>3, <1>4 DEF Pool
<1> QED BY <1>1, <1>2, <1>3, <1>5, BatchesStay

(* As many places are left as ids were not removed.                        *)
LEMMA SimShrink ==
    ASSUME SimInv, Shrink
    PROVE  SimInv'
<1> DEFINE ids == 0..(numReal - 1)
           removed == Smallest(FreeIds(numReal, toVirtual), numReal - limit)
           kept == Ascending(ids \ removed)
<1>1. /\ fn' = fn /\ numReal' = numReal - Cardinality(removed) /\ bar' = bar /\ batches' = batches
      /\ toVirtual' = [i \in 0..(numReal' - 1) |-> toVirtual[kept[i + 1]]]
  BY DEF Shrink, inputVars
<1>2. bar \in Nat /\ toVirtual \in Pool /\ numReal \in Nat
  BY DEF SimInv
<1>3. removed \in SUBSET ids /\ IsFiniteSet(ids) /\ Cardinality(ids) = numReal /\ ids \subseteq Int
  BY <1>2, Ranges DEF Smallest, FreeIds
<1>4. IsFiniteSet(ids \ removed) /\ ids \ removed \subseteq Int
  BY <1>3, FS_Difference
<1>5. Cardinality(ids \ removed) = numReal' /\ numReal' \in Nat
  <2> HIDE DEF ids, removed
  <2>1. IsFiniteSet(removed) /\ ids \cap removed = removed /\ Cardinality(removed) \in Nat
    BY <1>3, FS_Subset, FS_CardinalityType
  <2>2. Cardinality(ids \ removed) = Cardinality(ids) - Cardinality(ids \cap removed)
    BY <1>3, FS_Difference
  <2>3. Cardinality(ids \ removed) \in Nat
    BY <1>4, FS_CardinalityType
  <2> QED BY <1>1, <1>2, <1>3, <2>1, <2>2, <2>3
<1>6. kept \in [1..numReal' -> ids]
  <2> HIDE DEF ids, removed
  <2>1. Ascending(ids \ removed) \in [1..Cardinality(ids \ removed) -> ids \ removed]
    BY <1>4, AscendingLists DEF Enumerates
  <2> QED BY <1>5, <2>1
<1>7. Barrier' = Barrier
  BY <1>1 DEF Barrier
<1>8. toVirtual' \in Pool'
  <2> HIDE DEF kept, removed
  <2>1. \A i \in 0..(numReal' - 1) : i + 1 \in 1..numReal'
    <3> DEFINE k == numReal'
    <3>1. k \in Nat
      BY <1>5
    <3> HIDE DEF k
    <3>2. \A i \in 0..(k - 1) : i + 1 \in 1..k
      BY <3>1
    <3> QED BY <3>2 DEF k
  <2>2. \A i \in 0..(numReal' - 1) : toVirtual[kept[i + 1]] \in Barrier \cup {Free}
    BY <1>2, <1>6, <2>1 DEF Pool
  <2> QED BY <1>1, <1>7, <2>2 DEF Pool
<1> QED BY <1>1, <1>2, <1>5, <1>8, BatchesStay

(* SimInv is inductive: one case per step of the simulator.                *)
LEMMA SimNext ==
    ASSUME SimInv, Next
    PROVE  SimInv' /\ fn' = fn
<1>1. ASSUME UNCHANGED <<fn, numReal, bar, toVirtual, batches>> PROVE SimInv'
  <2>1. Pool' = Pool
    BY <1>1 DEF Pool, Barrier
  <2> QED BY <1>1, <2>1, BatchesStay DEF SimInv
<1>2. fn' = fn
  BY DEF Next, StartRound, Finish, MapBarrier, EndMapping, RunTask, PassOverProcessedDma, RunFails,
         LeaveQueue, Grow, Shrink, ThrowNotProgressed, SimulationBlocked, NextRound, Returned,
         Advance, inputVars, vars
<1>3. CASE MapBarrier \/ EndMapping \/ RunTask \/ Grow \/ Shrink
  BY <1>2, <1>3, SimMapBarrier, SimEndMapping, SimRunTask, SimGrow, SimShrink
<1>4. CASE PassOverProcessedDma
  BY <1>1, <1>2, <1>4 DEF PassOverProcessedDma, Advance, inputVars
<1>5. CASE StartRound \/ Finish \/ RunFails \/ LeaveQueue
  BY <1>1, <1>2, <1>5 DEF StartRound, Finish, RunFails, LeaveQueue, inputVars, physVars
<1>6. CASE ThrowNotProgressed \/ SimulationBlocked \/ NextRound \/ Returned
  BY <1>1, <1>2, <1>6 DEF ThrowNotProgressed, SimulationBlocked, NextRound, Returned,
     inputVars, physVars, vars
<1> QED BY <1>2, <1>3, <1>4, <1>5, <1>6 DEF Next

-----------------------------------------------------------------------------
(* Nothing but barriers is added, and consumers stay behind producers.     *)
Extends(n, b, c) ==
    /\ Agreeing(n, c) /\ Forward(c)
    /\ BarrierOf(b) \subseteq BarrierOf(c)
    /\ \A v \in BarrierOf(b) : c.prod[v] = b.prod[v] /\ c.cons[v] = b.cons[v]

(* One extension after another is an extension.                            *)
LEMMA ExtendsTwice ==
    ASSUME NEW n, NEW b, NEW c, NEW d, Extends(n, b, c), Extends(n, c, d)
    PROVE  Extends(n, b, d)
BY DEF Extends

(* An extension keeps the order of the tasks.                              *)
LEMMA ExtendsKeepsOrder ==
    ASSUME NEW n \in Nat, NEW b, Agreeing(n, b), Forward(b), NEW c, Extends(n, b, c)
    PROVE  \A t \in Index(n) : RunsAfter(b)[t] \subseteq RunsAfter(c)[t]
<1>1. Agreeing(n, c) /\ Forward(c)
  BY DEF Extends
<1>2. ASSUME NEW t \in Index(n), NEW u \in Children(b, t) PROVE u \in RunsAfter(c)[t]
  <2>1. PICK v \in BarrierOf(b) : t \in b.prod[v] /\ u \in b.cons[v]
    BY <1>2, Edges
  <2>2. u \in Children(c, t)
    BY <1>1, <2>1, Edges DEF Extends
  <2> QED BY <1>1, <2>2, OrderFacts
<1>3. \A t \in Index(n) : Children(b, t) \subseteq RunsAfter(c)[t]
  BY <1>2
<1> QED BY <1>1, <1>3, OrderGrows

(* New barriers from earlier tasks to later ones.                          *)
LEMMA LinksExtend ==
    ASSUME NEW n, NEW b, Agreeing(n, b), Forward(b), NEW links \in Links(n),
           \A k \in 1..Len(links) : \A x \in links[k][1], y \in links[k][2] : x < y,
           NEW c, c = AddLinkedBarriers(b, links)
    PROVE  Extends(n, b, c)
<1>1. /\ Agreeing(n, c) /\ c.num = b.num + Len(links)
      /\ \A v \in Index(b.num) : c.prod[v] = b.prod[v] /\ c.cons[v] = b.cons[v]
      /\ \A v \in b.num..(b.num + Len(links) - 1) :
            c.prod[v] = links[v - b.num + 1][1] /\ c.cons[v] = links[v - b.num + 1][2]
  <2>1. IsLinked(n, b, links, c)
    BY AddLinkedBarriersAgrees
  <2> QED BY <2>1 DEF IsLinked
<1>2. b.num \in Nat /\ Len(links) \in Nat
  BY DEF Agreeing, Links
<1>3. BarrierOf(b) = Index(b.num) /\ BarrierOf(c) = Index(b.num + Len(links))
  <2>1. BarrierOf(c) = Index(c.num)
    BY <1>1, Domains
  <2> QED BY <1>1, <2>1, Domains
<1>4. /\ Index(b.num) \subseteq Index(b.num + Len(links))
      /\ \A v \in Index(b.num + Len(links)) :
            v \in Index(b.num) \/ (v \in b.num..(b.num + Len(links) - 1) /\ v - b.num + 1 \in 1..Len(links))
  BY <1>2 DEF Index
<1>5. Forward(c)
  <2> SUFFICES ASSUME NEW v \in BarrierOf(c), NEW x \in c.prod[v], NEW y \in c.cons[v] PROVE x < y
    BY DEF Forward
  <2>1. CASE v \in Index(b.num)
    BY <1>1, <1>3, <2>1 DEF Forward
  <2>2. CASE v \in b.num..(b.num + Len(links) - 1) /\ v - b.num + 1 \in 1..Len(links)
    BY <1>1, <2>2
  <2> QED BY <1>3, <1>4, <2>1, <2>2
<1> QED BY <1>1, <1>3, <1>4, <1>5 DEF Extends

(* A section ends before the first task of a later one.                    *)
LEMMA SectionsInLine ==
    ASSUME NEW b, NEW T, T \subseteq Int, NEW f \in T, NEW g \in T, f < g, g \notin Section(b, T, f)
    PROVE  \A x \in Section(b, T, f), y \in Section(b, T, g) : x < y
<1>1. PICK z \in T : f <= z /\ z <= g /\ ~UseSameBarriers(b, f, z)
  BY DEF Section
<1>2. \A x \in Section(b, T, f) : x \in T /\ (z <= x => FALSE)
  BY <1>1 DEF Section
<1>3. \A y \in Section(b, T, g) : y \in T /\ g <= y
  BY DEF Section
<1>4. ASSUME NEW x \in Section(b, T, f), NEW y \in Section(b, T, g) PROVE x < y
  <2>1. x \in Int /\ y \in Int /\ z \in Int /\ g \in Int
    BY <1>2, <1>3
  <2>2. ~(z <= x) /\ z <= g /\ g <= y
    BY <1>1, <1>2, <1>3
  <2> QED BY <2>1, <2>2
<1> QED BY <1>4

(* linearizeTasks adds a barrier between sections that follow each other.  *)
LEMMA TasksExtend ==
    ASSUME NEW n \in Nat, NEW b, Agreeing(n, b), Forward(b), NEW T \in SUBSET Index(n),
           NEW c, c = LinearizeTasks(b, T)
    PROVE  Extends(n, b, c)
<1> DEFINE heads == {t \in T : \A u \in T : u < t => t \notin Section(b, T, u)}
           first == Ascending(heads)
           m == Cardinality(heads)
           gaps == {i \in 1..(Len(first) - 1) : ~ControlPathExistsBetween(control, first[i], first[i + 1])}
           unordered == Ascending(gaps)
           k == Cardinality(gaps)
           sec(i) == Section(b, T, first[i])
           links == [j \in DOMAIN unordered |-> <<sec(unordered[j]), sec(unordered[j] + 1)>>]
<1>1. c = AddLinkedBarriers(b, links)
  BY DEF LinearizeTasks
<1>2. IsFiniteSet(T) /\ T \subseteq Int
  <2>1. IsFiniteSet(Index(n)) /\ Index(n) \subseteq Int
    BY Ranges DEF Index
  <2> QED BY <2>1, FS_Subset
<1>3. /\ m \in Nat /\ first \in [1..m -> heads]
      /\ \A i, j \in 1..m : i < j <=> first[i] < first[j]
  <2>1. IsFiniteSet(heads) /\ heads \subseteq Int
    BY <1>2, FS_Subset
  <2> HIDE DEF heads
  <2> QED BY <2>1, AscendingLists DEF Enumerates
<1>4. Len(first) = m
  <2> HIDE DEF first, m
  <2> QED BY <1>3
<1>5. /\ k \in Nat /\ unordered \in [1..k -> gaps]
  <2>1. gaps \in SUBSET (1..m) /\ IsFiniteSet(1..m) /\ 1..m \subseteq Int
    <3> HIDE DEF first, m
    <3> QED BY <1>3, <1>4, Ranges
  <2>2. IsFiniteSet(gaps) /\ gaps \subseteq Int
    BY <2>1, FS_Subset
  <2> HIDE DEF gaps
  <2> QED BY <2>2, AscendingLists DEF Enumerates
<1>6. \A i \in gaps : i \in 1..m /\ i + 1 \in 1..m /\ i < i + 1
  <2> HIDE DEF first, m
  <2> QED BY <1>3, <1>4
<1>7. \A i \in gaps : \A x \in sec(i), y \in sec(i + 1) : x < y
  <2> TAKE i \in gaps
  <2>1. /\ first[i] \in T /\ first[i + 1] \in T /\ first[i] < first[i + 1]
        /\ first[i + 1] \notin Section(b, T, first[i])
    <3>1. i \in 1..m /\ i + 1 \in 1..m /\ i < i + 1
      BY <1>6
    <3>2. first[i] < first[i + 1] /\ first[i] \in heads /\ first[i + 1] \in heads
      <4> HIDE DEF heads, first, m, gaps
      <4> QED BY <1>3, <3>1
    <3> HIDE DEF first
    <3> QED BY <3>2
  <2> HIDE DEF first
  <2> QED BY <1>2, <2>1, SectionsInLine
<1>8. \A i : sec(i) \in SUBSET Index(n)
  BY DEF Section
<1> HIDE DEF gaps, unordered, k, sec
<1>9. DOMAIN unordered = 1..k /\ \A j \in 1..k : unordered[j] \in gaps
  BY <1>5
<1>10. links \in Links(n) /\ Len(links) = k
  <2>1. links \in [1..k -> (SUBSET Index(n)) \X (SUBSET Index(n))]
    BY <1>8, <1>9
  <2> DEFINE P == (SUBSET Index(n)) \X (SUBSET Index(n))
  <2>2. links \in [1..k -> P]
    BY <2>1
  <2> HIDE DEF P, links
  <2>3. links \in Seq(P) /\ Len(links) = k
    BY <1>5, <2>2
  <2> QED BY <2>3 DEF P, Links
<1>11. \A j \in 1..Len(links) : \A x \in links[j][1], y \in links[j][2] : x < y
  <2>1. \A j \in 1..k : links[j][1] = sec(unordered[j]) /\ links[j][2] = sec(unordered[j] + 1)
    BY <1>9
  <2> HIDE DEF links
  <2> QED BY <1>7, <1>9, <1>10, <2>1
<1> HIDE DEF links
<1> QED BY <1>1, <1>10, <1>11, LinksExtend

(* linearizeBarriers.                                                      *)
LEMMA BarriersExtend ==
    ASSUME NEW n \in Nat, NEW b, Agreeing(n, b), Forward(b), NEW B \in SUBSET BarrierOf(b)
    PROVE  Extends(n, b, LinearizeBarriers(b, B))
<1> DEFINE T == UNION {b.prod[v] \cup b.cons[v] : v \in B}
           c == LinearizeTasks(b, T)
           d == LinearizeTasks(c, T)
<1>1. T \in SUBSET Index(n)
  BY Members DEF TwoSided
<1> HIDE DEF T
<1>2. Extends(n, b, c)
  BY <1>1, TasksExtend
<1> HIDE DEF c
<1>3. Extends(n, c, d)
  <2>1. Agreeing(n, c) /\ Forward(c)
    BY <1>2 DEF Extends
  <2> QED BY <1>1, <2>1, TasksExtend
<1>4. LinearizeBarriers(b, B) = d
  BY DEF LinearizeBarriers, T, c
<1> HIDE DEF d
<1> QED BY <1>2, <1>3, <1>4, ExtendsTwice

-----------------------------------------------------------------------------
(* The batches are taken one by one.                                       *)
NextLinearized(b, i) == LinearizeBarriers(b, toLegalize[i])

IsRun(g, n) ==
    \A S \in SUBSET (1..n) :
        g[S] = IF S = {} THEN info ELSE NextLinearized(g[S \ {Greatest(S)}], Greatest(S))

(* The fold over the batches has a value for each set of them.             *)
LEMMA RunExists ==
    ASSUME NEW n \in Nat
    PROVE  \E g : g = [S \in SUBSET (1..n) |-> g[S]] /\ IsRun(g, n)
<1> DEFINE Good == {m \in 0..n : \E g : g = [S \in SUBSET (1..m) |-> g[S]] /\ IsRun(g, m)}
<1>1. 0 \in Good
  <2> DEFINE g == [S \in SUBSET (1..0) |-> info]
  <2>1. \A S \in SUBSET (1..0) : S = {} /\ g[S] = info
    OBVIOUS
  <2>2. g = [S \in SUBSET (1..0) |-> g[S]] /\ IsRun(g, 0)
    BY <2>1 DEF IsRun
  <2> QED BY <2>2
<1>2. ASSUME NEW m \in 1..n, m - 1 \in Good PROVE m \in Good
  <2>1. PICK g : IsRun(g, m - 1)
    BY <1>2
  <2> DEFINE h == [S \in SUBSET (1..m) |-> IF m \in S THEN NextLinearized(g[S \ {m}], m) ELSE g[S]]
  <2>2. \A S \in SUBSET (1..m) : h[S] = IF m \in S THEN NextLinearized(g[S \ {m}], m) ELSE g[S]
    OBVIOUS
  <2>3. h = [S \in SUBSET (1..m) |-> h[S]]
    OBVIOUS
  <2> HIDE DEF h
  <2>4. ASSUME NEW S \in SUBSET (1..m)
        PROVE  h[S] = IF S = {} THEN info ELSE NextLinearized(h[S \ {Greatest(S)}], Greatest(S))
    <3>1. CASE m \in S
      <4>1. Greatest(S) = m
        <5>1. Greatest(S) \in S /\ \A y \in S : y <= Greatest(S)
          BY <3>1, GreatestIndex
        <5>2. m <= Greatest(S) /\ Greatest(S) \in 1..m
          BY <3>1, <5>1
        <5> QED BY <5>2
      <4>2. S \ {m} \in SUBSET (1..m) /\ m \notin S \ {m}
        OBVIOUS
      <4>3. h[S] = NextLinearized(g[S \ {m}], m) /\ h[S \ {m}] = g[S \ {m}]
        BY <2>2, <3>1, <4>2
      <4> QED BY <3>1, <4>1, <4>3
    <3>2. CASE m \notin S
      <4>1. S \in SUBSET (1..(m - 1)) /\ m - 1 \in Nat
        BY <3>2
      <4>2. g[S] = IF S = {} THEN info ELSE NextLinearized(g[S \ {Greatest(S)}], Greatest(S))
        BY <2>1, <4>1 DEF IsRun
      <4>3. h[S] = g[S] /\ h[S \ {Greatest(S)}] = g[S \ {Greatest(S)}]
        BY <2>2, <3>2
      <4> QED BY <4>2, <4>3
    <3> QED BY <3>1, <3>2
  <2>5. IsRun(h, m)
    BY <2>4 DEF IsRun
  <2> QED BY <2>3, <2>5
<1>3. n \in Good
  <2> HIDE DEF Good
  <2>1. 0..n \subseteq Good
    BY <1>1, <1>2, CountUp
  <2> QED BY <2>1
<1> QED BY <1>3

(* Linearizing all the batches is an extension.                            *)
LEMMA LinearizedExtends ==
    ASSUME NEW n \in Nat, Agreeing(n, info), Forward(info), toLegalize \in Seq(SUBSET BarrierOf(info))
    PROVE  Extends(n, info, Linearized)
<1> DEFINE k == Len(toLegalize)
           IsTable(g) == g = [S \in SUBSET (1..k) |-> IF S = {} THEN info
                                ELSE NextLinearized(g[S \ {Greatest(S)}], Greatest(S))]
           table == CHOOSE g : IsTable(g)
<1>1. k \in Nat /\ DOMAIN toLegalize = 1..k /\ \A i \in 1..k : toLegalize[i] \in SUBSET BarrierOf(info)
  OBVIOUS
<1>2. Linearized = table[1..k]
  BY <1>1 DEF Linearized, NextLinearized, FoldLeft, MapThenFoldSet, Greatest, Max
<1> HIDE DEF k
<1>3. \E g : IsTable(g)
  <2>1. PICK g : g = [S \in SUBSET (1..k) |-> g[S]] /\ IsRun(g, k)
    BY <1>1, RunExists
  <2> QED BY <2>1 DEF IsRun
<1>4. IsTable(table)
  BY <1>3
<1> HIDE DEF table
<1>5. /\ table[{}] = info
      /\ \A j \in 1..k : table[1..j] = NextLinearized(table[1..(j - 1)], j)
  <2>1. table[{}] = info
    BY <1>4
  <2>2. ASSUME NEW j \in 1..k PROVE table[1..j] = NextLinearized(table[1..(j - 1)], j)
    <3>1. /\ 1..j \in SUBSET (1..k) /\ 1..j # {}
          /\ Greatest(1..j) = j /\ (1..j) \ {j} = 1..(j - 1)
      BY <1>1, FoldPrefixes
    <3> DEFINE I == 1..j
    <3>2. table[I] = NextLinearized(table[I \ {Greatest(I)}], Greatest(I))
      <4> HIDE DEF I
      <4>1. I \in SUBSET (1..k) /\ I # {}
        BY <3>1 DEF I
      <4> QED BY <1>4, <4>1
    <3> QED BY <3>1, <3>2
  <2> QED BY <2>1, <2>2
<1> HIDE DEF IsTable
<1> DEFINE Good == {j \in 0..k : Extends(n, info, table[1..j])}
<1>6. 0 \in Good
  <2>1. 1..0 = {} /\ 0 \in 0..k
    BY <1>1
  <2>2. Extends(n, info, info)
    BY DEF Extends
  <2> QED BY <1>5, <2>1, <2>2
<1>7. ASSUME NEW j \in 1..k, j - 1 \in Good PROVE j \in Good
  <2> DEFINE b == table[1..(j - 1)]
  <2>1. Extends(n, info, b)
    BY <1>7
  <2> HIDE DEF b
  <2>2. /\ Agreeing(n, b) /\ Forward(b) /\ toLegalize[j] \in SUBSET BarrierOf(b)
    BY <1>1, <2>1 DEF Extends
  <2>3. Extends(n, b, LinearizeBarriers(b, toLegalize[j]))
    BY <2>2, BarriersExtend
  <2>4. Extends(n, info, LinearizeBarriers(b, toLegalize[j]))
    BY <2>1, <2>3, ExtendsTwice
  <2>5. table[1..j] = LinearizeBarriers(b, toLegalize[j])
    BY <1>5 DEF b, NextLinearized
  <2> QED BY <2>4, <2>5
<1>8. k \in Good
  <2> HIDE DEF Good
  <2>1. 0..k \subseteq Good
    BY <1>1, <1>6, <1>7, CountUp
  <2> QED BY <1>1, <2>1
<1> QED BY <1>2, <1>8

-----------------------------------------------------------------------------
N == Cardinality(FunctionTask)

(* The order lists the barriers of b.                                      *)
Lists(o, b) == o \in [1..b.num -> BarrierOf(b)] /\ \A v \in BarrierOf(b) : \E i \in 1..b.num : o[i] = v

(* The barriers that the pass works on are ordered as the function was, or *)
(* more; the simulator has as many of them, and the batches it leaves are  *)
(* of barriers that exist.                                                 *)
Ordered(b, o, f) ==
    /\ f.numBarriers = b.num
    /\ Agreeing(N, b) /\ Forward(b) /\ Lists(o, b)
    /\ \A t \in FunctionTask : RunsAfter(input.maps)[t] \subseteq RunsAfter(b)[t]

OrderInv ==
    /\ input \in Functions /\ numBarriersToUse \in Limits
    /\ SimInv /\ Ordered(info, order, fn)
    /\ stage = "reduce" => toLegalize \in Seq(SUBSET BarrierOf(info))

(* What FunctionsAssumption gives for the function that was read.          *)
LEMMA InputFacts ==
    ASSUME input \in Functions
    PROVE  /\ N \in Nat /\ FunctionTask = Index(N)
           /\ Agreeing(N, input.maps) /\ Forward(input.maps)
<1>1. /\ BuiltMaps(input.maps)
      /\ \A v \in BarrierOf(input.maps) : \A t \in input.maps.prod[v], u \in input.maps.cons[v] : t < u
  BY FunctionsAssumption
<1>2. N \in Nat /\ Agreeing(N, input.maps)
  BY <1>1, BuiltAgrees DEF N, FunctionTask
<1>3. FunctionTask = Index(N)
  BY <1>2, Domains DEF FunctionTask
<1> QED BY <1>1, <1>2, <1>3 DEF Forward

(* The function that was read does not change.                             *)
LEMMA SameInput ==
    ASSUME input' = input, numBarriersToUse' = numBarriersToUse, OrderInv, SimInv',
           Ordered(info', order', fn'),
           stage' = "reduce" => toLegalize' \in Seq(SUBSET BarrierOf(info'))
    PROVE  OrderInv'
<1>1. N' = N /\ FunctionTask' = FunctionTask
  BY DEF N, FunctionTask
<1>2. Ordered(info, order, fn)'
  BY <1>1 DEF Ordered
<1> QED BY <1>2 DEF OrderInv

(* The parsed function has the barriers of the order.                      *)
LEMMA ParsedNumber ==
    ASSUME NEW f, NEW b, NEW m \in Nat, NEW o, DOMAIN o = 1..m
    PROVE  Parsed(f, b, o).numBarriers = m
<1>1. Renumber(b, o).num = Cardinality(DOMAIN o)
  BY DEF Renumber, Maps
<1>2. Cardinality(DOMAIN o) = m
  BY Ranges
<1>3. Parsed(f, b, o).numBarriers = Renumber(b, o).num
  BY DEF Parsed, Parse
<1> QED BY <1>1, <1>2, <1>3

(* The order in which the barriers are stored lists them.                  *)
LEMMA IdentityLists ==
    ASSUME NEW n, NEW b, Agreeing(n, b)
    PROVE  Lists(Identity(b.num), b)
<1> DEFINE m == b.num
<1>1. m \in Nat /\ BarrierOf(b) = Index(m)
  BY Domains DEF Agreeing
<1> HIDE DEF m
<1>2. Identity(m) \in [1..m -> Index(m)]
  BY <1>1 DEF Identity, Index
<1>3. ASSUME NEW v \in Index(m) PROVE v + 1 \in 1..m /\ Identity(m)[v + 1] = v
  BY <1>1 DEF Identity, Index
<1>4. Identity(m) \in [1..m -> BarrierOf(b)] /\ \A v \in BarrierOf(b) : \E i \in 1..m : Identity(m)[i] = v
  BY <1>1, <1>2, <1>3
<1> QED BY <1>4 DEF Lists, m

(* A simulation starts with free physical barriers and no batches.         *)
LEMMA SimulateStarts ==
    ASSUME numBarriersToUse \in Limits, NEW n, NEW b, Agreeing(n, b), NEW o, Lists(o, b), NEW mode,
           Simulate(b, o, mode)
    PROVE  SimInv' /\ fn'.numBarriers = b.num
<1>1. /\ fn' = Parsed(input, b, o) /\ numReal' = numBarriersToUse
      /\ toVirtual' = [r \in 0..(numBarriersToUse - 1) |-> Free]
      /\ bar' = 0 /\ batches' = <<>>
  BY DEF Simulate
<1>2. numBarriersToUse \in Nat /\ b.num \in Nat
  BY LimitsAssumption DEF Agreeing
<1>3. fn'.numBarriers = b.num
  BY <1>1, <1>2, ParsedNumber DEF Lists
<1>4. toVirtual' \in Pool'
  BY <1>1 DEF Pool
<1> QED BY <1>1, <1>2, <1>3, <1>4 DEF SimInv

(* The pass starts with the function as it was read.                       *)
LEMMA OrderInit ==
    ASSUME RInit
    PROVE  OrderInv
<1>1. /\ input \in Functions /\ numBarriersToUse \in Limits /\ stage = "entry"
      /\ info = input.maps /\ order = Identity(info.num)
      /\ Start(Parsed(input, info, order), numBarriersToUse, "simulate")
  BY DEF RInit
<1>2. N \in Nat /\ Agreeing(N, info) /\ Forward(info)
  BY <1>1, InputFacts
<1>3. Lists(order, info)
  BY <1>1, <1>2, IdentityLists
<1>4. /\ fn = Parsed(input, info, order) /\ numReal = numBarriersToUse
      /\ toVirtual = [r \in 0..(numBarriersToUse - 1) |-> Free]
      /\ bar = 0 /\ batches = <<>>
  BY <1>1 DEF Start
<1>5. fn.numBarriers = info.num /\ info.num \in Nat
  <2>1. info.num \in Nat
    BY <1>2 DEF Agreeing
  <2> QED BY <1>3, <1>4, <2>1, ParsedNumber DEF Lists
<1>6. SimInv
  BY <1>1, <1>4, <1>5, LimitsAssumption DEF SimInv, Pool
<1> QED BY <1>1, <1>2, <1>3, <1>5, <1>6 DEF OrderInv, Ordered

-----------------------------------------------------------------------------
(* Optimizing what an extension of the barriers gives, ordering it and     *)
(* simulating it.                                                          *)
LEMMA AnalysisKeepsOrder ==
    ASSUME OrderInv, NEW c, Extends(N, info, c), UpdateAnalysis(c),
           input' = input, numBarriersToUse' = numBarriersToUse
    PROVE  OrderInv'
<1> DEFINE b == OptimizeBarriers(c)
<1>0. /\ N \in Nat /\ FunctionTask = Index(N) /\ numBarriersToUse \in Limits
      /\ Agreeing(N, info) /\ Forward(info)
      /\ \A t \in FunctionTask : RunsAfter(input.maps)[t] \subseteq RunsAfter(info)[t]
  BY InputFacts DEF OrderInv, Ordered
<1>1. info' = b /\ order' = BarrierOrder(b) /\ Simulate(b, order', "legalize") /\ stage' = "legalize"
  BY DEF UpdateAnalysis
<1>2. Agreeing(N, c) /\ Forward(c)
  BY DEF Extends
<1>3. Agreeing(N, b) /\ Forward(b) /\ RunsAfter(b) = RunsAfter(c)
  BY <1>0, <1>2, OptimizeBarriersAgrees, OptimizeBarriersOrder
<1> HIDE DEF b
<1>4. \A t \in Index(N) : RunsAfter(info)[t] \subseteq RunsAfter(c)[t]
  BY <1>0, ExtendsKeepsOrder
<1>5. Lists(order', b)
  BY <1>0, <1>1, <1>3, BarrierOrderLists DEF Lists
<1>6. SimInv' /\ fn'.numBarriers = b.num
  BY <1>0, <1>1, <1>3, <1>5, SimulateStarts
<1>7. \A t \in FunctionTask : RunsAfter(input.maps)[t] \subseteq RunsAfter(b)[t]
  BY <1>0, <1>3, <1>4
<1>8. Ordered(info', order', fn')
  BY <1>1, <1>3, <1>5, <1>6, <1>7 DEF Ordered
<1> QED BY <1>1, <1>6, <1>8, SameInput

(* The simulation failed: the barriers are optimized and simulated again,  *)
(* for the batches.                                                        *)
LEMMA CheckFailsKeepsOrder == ASSUME OrderInv, CheckFails PROVE OrderInv'
<1>1. UpdateAnalysis(info) /\ input' = input /\ numBarriersToUse' = numBarriersToUse
  BY DEF CheckFails
<1>2. Extends(N, info, info)
  BY DEF OrderInv, Ordered, Extends
<1> QED BY <1>1, <1>2, AnalysisKeepsOrder

(* reduceExceedingActiveBarriers linearizes the batches and optimizes.     *)
LEMMA ReduceKeepsOrder == ASSUME OrderInv, Reduce PROVE OrderInv'
<1>1. stage = "reduce" /\ UpdateAnalysis(Linearized) /\ input' = input /\ numBarriersToUse' = numBarriersToUse
  BY DEF Reduce
<1>2. N \in Nat /\ Agreeing(N, info) /\ Forward(info) /\ toLegalize \in Seq(SUBSET BarrierOf(info))
  BY <1>1, InputFacts DEF OrderInv, Ordered
<1>3. Extends(N, info, Linearized)
  BY <1>2, LinearizedExtends
<1> QED BY <1>1, <1>3, AnalysisKeepsOrder

(* The simulation found nothing to legalize.                               *)
LEMMA CheckPassesKeepsOrder == ASSUME OrderInv, CheckPasses PROVE OrderInv'
<1>1. /\ Simulate(info, order, "simulate") /\ stage' = "assign"
      /\ UNCHANGED <<input, numBarriersToUse, info, order>>
  BY DEF CheckPasses, passVars
<1>2. numBarriersToUse \in Limits /\ Ordered(info, order, fn) /\ Agreeing(N, info) /\ Lists(order, info)
  BY DEF OrderInv, Ordered
<1>3. SimInv' /\ fn'.numBarriers = info.num
  BY <1>1, <1>2, SimulateStarts
<1>4. Ordered(info', order', fn')
  BY <1>1, <1>2, <1>3 DEF Ordered
<1> QED BY <1>1, <1>3, <1>4, SameInput

(* The end of the pass orders the barriers and rebuilds the IR.            *)
LEMMA FinishKeepsOrder == ASSUME OrderInv, FinishReduction PROVE OrderInv'
<1>1. /\ info' = Rebuilt(info, order) /\ order' = Identity(info'.num)
      /\ Simulate(info', order', "simulate") /\ stage' = "assign"
      /\ input' = input /\ numBarriersToUse' = numBarriersToUse
  BY DEF FinishReduction, PostProcessed
<1>2. /\ N \in Nat /\ FunctionTask = Index(N) /\ numBarriersToUse \in Limits
      /\ Agreeing(N, info) /\ Forward(info) /\ Lists(order, info)
      /\ \A t \in FunctionTask : RunsAfter(input.maps)[t] \subseteq RunsAfter(info)[t]
  BY InputFacts DEF OrderInv, Ordered
<1>3. Renamed(N, info, info') /\ \A t \in Index(N) : Children(info', t) = Children(info, t)
  <2>1. info.num \in Nat
    BY <1>2 DEF Agreeing
  <2> QED BY <1>1, <1>2, <2>1, RebuiltKeeps DEF Lists
<1>4. Agreeing(N, info')
  BY <1>3 DEF Renamed
<1>5. Forward(info') /\ RunsAfter(info') = RunsAfter(info)
  BY <1>2, <1>3, <1>4, SameEdgesSameOrder
<1>6. Lists(order', info')
  BY <1>1, <1>4, IdentityLists
<1>7. SimInv' /\ fn'.numBarriers = info'.num
  BY <1>1, <1>2, <1>4, <1>6, SimulateStarts
<1>8. Ordered(info', order', fn')
  BY <1>2, <1>4, <1>5, <1>6, <1>7 DEF Ordered
<1> QED BY <1>1, <1>7, <1>8, SameInput

(* getBarrierBatchesToLegalize finds barriers for the ids.                 *)
LEMMA BatchesAreBarriers ==
    ASSUME OrderInv
    PROVE  BatchesToLegalize \in Seq(SUBSET BarrierOf(info))
<1> DEFINE used(B) == {order[v + 1] : v \in B} \ {v \in BarrierOf(info) : Unused(info, v)}
           busy == {i \in DOMAIN batches : used(batches[i]) # {}}
           kept == Ascending(busy)
           k == Cardinality(busy)
           found == [i \in DOMAIN kept |-> used(batches[kept[i]])]
<1>1. /\ batches \in Seq(SUBSET Barrier) /\ fn.numBarriers = info.num /\ info.num \in Nat
      /\ order \in [1..info.num -> BarrierOf(info)]
  BY DEF OrderInv, SimInv, Ordered, Lists
<1>2. \A B \in SUBSET Barrier : used(B) \in SUBSET BarrierOf(info)
  <2>1. \A v \in Barrier : v + 1 \in 1..info.num
    BY <1>1 DEF Barrier
  <2> QED BY <1>1, <2>1
<1>3. DOMAIN batches = 1..Len(batches) /\ Len(batches) \in Nat /\ \A i \in DOMAIN batches : batches[i] \in SUBSET Barrier
  BY <1>1
<1>4. k \in Nat /\ kept \in [1..k -> busy]
  <2>1. busy \subseteq 1..Len(batches) /\ IsFiniteSet(1..Len(batches)) /\ 1..Len(batches) \subseteq Int
    BY <1>3, Ranges
  <2>2. IsFiniteSet(busy) /\ busy \subseteq Int
    BY <2>1, FS_Subset
  <2> HIDE DEF busy
  <2> QED BY <2>2, AscendingLists DEF Enumerates
<1>5. BatchesToLegalize = found
  BY DEF BatchesToLegalize
<1>6. \A i \in busy : used(batches[i]) \in SUBSET BarrierOf(info)
  BY <1>2, <1>3
<1> HIDE DEF used, busy, kept, k
<1>7. found \in [1..k -> SUBSET BarrierOf(info)]
  BY <1>4, <1>6
<1> DEFINE T == SUBSET BarrierOf(info)
<1>8. found \in [1..k -> T]
  BY <1>7
<1> HIDE DEF found, T
<1>9. found \in Seq(T)
  BY <1>4, <1>8
<1> QED BY <1>5, <1>9 DEF T

(* OrderInv is inductive: one case per step of the pass.                   *)
LEMMA OrderNext == OrderInv /\ [RNext]_allVars => OrderInv'
<1> SUFFICES ASSUME OrderInv, [RNext]_allVars PROVE OrderInv'
  OBVIOUS
<1>1. SimInv /\ Ordered(info, order, fn)
  BY DEF OrderInv
<1>2. ASSUME UNCHANGED <<vars, input, numBarriersToUse, info, order>>,
             stage' = "reduce" => toLegalize' \in Seq(SUBSET BarrierOf(info))
      PROVE  OrderInv'
  <2>1. fn' = fn /\ numReal' = numReal /\ bar' = bar /\ toVirtual' = toVirtual /\ batches' = batches
    BY <1>2 DEF vars, inputVars, physVars
  <2>2. SimInv'
    BY <1>1, <2>1 DEF SimInv, Pool, Barrier
  <2>3. Ordered(info', order', fn')
    BY <1>1, <1>2, <2>1
  <2> QED BY <1>2, <2>2, <2>3, SameInput
<1>3. CASE UNCHANGED allVars
  <2>1. UNCHANGED <<vars, input, numBarriersToUse, info, order>> /\ stage' = stage /\ toLegalize' = toLegalize
    BY <1>3 DEF allVars, passVars
  <2> QED BY <1>2, <2>1 DEF OrderInv
<1>4. CASE Enter
  <2>1. UNCHANGED <<vars, input, numBarriersToUse, info, order>> /\ stage' # "reduce"
    BY <1>4 DEF Enter, passVars
  <2> QED BY <1>2, <2>1
<1>5. CASE SimulationStep
  <2>1. Next /\ UNCHANGED <<input, numBarriersToUse, info, order>> /\ stage' = stage /\ stage # "reduce"
    BY <1>5 DEF SimulationStep, passVars
  <2>2. SimInv' /\ fn' = fn
    BY <1>1, <2>1, SimNext
  <2>3. Ordered(info', order', fn')
    BY <1>1, <2>1, <2>2
  <2> QED BY <2>1, <2>2, <2>3, SameInput
<1>6. CASE LegalizationEnds
  <2>1. /\ UNCHANGED <<vars, input, numBarriersToUse, info, order>>
        /\ stage' = "reduce" => toLegalize' = BatchesToLegalize
    BY <1>6 DEF LegalizationEnds
  <2> QED BY <1>2, <2>1, BatchesAreBarriers
<1>7. CASE CheckPasses \/ CheckFails \/ Reduce \/ FinishReduction
  BY <1>7, CheckPassesKeepsOrder, CheckFailsKeepsOrder, ReduceKeepsOrder, FinishKeepsOrder
<1> QED BY <1>3, <1>4, <1>5, <1>6, <1>7 DEF RNext, PassesEnded

(* ReduceExceedingActiveCountBarriers may add to the order of the tasks    *)
(* and never takes any of it away, whatever batches it linearizes and      *)
(* whatever barriers it merges.                                            *)
THEOREM OrderStaysKept == RSpec => []OrderKept
<1>1. OrderInv => OrderKept
  BY DEF OrderInv, Ordered, OrderKept
<1>2. RInit => OrderInv
  BY OrderInit
<1> QED BY <1>1, <1>2, OrderNext, PTL DEF RSpec
=============================================================================
