------------------------ MODULE PhysicalBarriersProofs ------------------------
(***************************************************************************)
(* Proofs about the life of barriers from assignment to device, when all   *)
(* of the platform's barriers are assigned: the fields that                *)
(* BarrierComputation derives link the barriers of a physical id one after *)
(* the other, and hold a task back until its barriers are programmed.      *)
(***************************************************************************)
EXTENDS PhysicalBarriers, BarrierSimulatorProofs

(* The pipeline's choice: the assignment may use every barrier there is.   *)
WholePool == Limits = {Available}

(* parseTasks leaves no task out.                                          *)
TaskQueued(f) ==
    \A t \in 0..(f.numTasks - 1) : \E q \in Queue : \E i \in DOMAIN f.fifo[q] : f.fifo[q][i] = t

EveryTaskQueued == \A f \in Programs : TaskQueued(f)

-----------------------------------------------------------------------------
(* Positions in a chain.                                                   *)

(* Of the numbers P from A on, the ones that stand as many places down     *)
(* the list as v does in P; and the numbers after v.                       *)
Handed(P, A, v) ==
    {w \in P : w >= A /\ Cardinality({x \in P : x >= A /\ x < w}) = Cardinality({x \in P : x < v})}
Later(P, v) == {w \in P : w > v}

(* A barrier r of the first A and its successors P on one physical id, the *)
(* successors handed out in turn: the one that v gets is the next after v. *)
LEMMA HandedIsNext ==
    ASSUME NEW P, P \subseteq Nat, IsFiniteSet(P), NEW A \in Nat, NEW r \in P,
           \A x \in P : x < A <=> x = r, NEW v \in P
    PROVE  \A w : w \in Handed(P, A, v) <=> w \in Later(P, v) /\ \A x \in Later(P, v) : w <= x
<1> USE DEF Handed, Later
<1> DEFINE next == Handed(P, A, v)
           later == Later(P, v)
           below(w) == {x \in P : x < w}
           size(w) == Cardinality(below(w))
<1>1. \A w \in P : IsFiniteSet(below(w)) /\ size(w) \in Nat
  <2>1. \A w \in P : below(w) \in SUBSET P
    OBVIOUS
  <2> QED  BY <2>1, FS_Subset, FS_CardinalityType
<1>2. \A x \in P : x \in Nat /\ r <= x
  OBVIOUS
<1>3. ASSUME NEW w \in P, w >= A
      PROVE  Cardinality({x \in P : x >= A /\ x < w}) = size(w) - 1
  <2>1. {x \in P : x >= A /\ x < w} = below(w) \ {r}
    <3>1. \A x \in P : x >= A <=> x # r
      BY <1>2
    <3> QED  BY <3>1
  <2>2. r \in below(w)
    BY <1>2, <1>3
  <2> HIDE DEF below
  <2> QED  BY <1>1, <2>1, <2>2, FS_RemoveElement
<1>4. ASSUME NEW w \in P, NEW x \in P, x < w
      PROVE  size(x) + 1 <= size(w)
  <2>1. below(x) \cup {x} \in SUBSET below(w) /\ x \notin below(x)
    <3>1. x \in Nat /\ w \in Nat /\ \A y \in P : y \in Nat
      BY <1>2
    <3>2. ~(x < x) /\ \A y \in P : y < x => y < w
      BY <1>4, <3>1
    <3> QED  BY <1>4, <3>2
  <2>2. Cardinality(below(x) \cup {x}) = size(x) + 1
    BY <1>1, <2>1, FS_AddElement
  <2> QED  BY <1>1, <2>1, <2>2, FS_Subset
<1>5. ASSUME NEW w \in later, \A x \in later : w <= x
      PROVE  size(w) = size(v) + 1
  <2>1. below(w) = below(v) \cup {v} /\ v \notin below(v)
    <3>1. v \in Nat /\ w \in Nat /\ v < w /\ \A y \in P : y \in Nat
      BY <1>2
    <3>2. \A y \in P : y > v => ~(y < w)
      BY <1>5, <3>1
    <3>3. ~(v < v) /\ \A y \in P : y < w <=> y < v \/ y = v
      BY <3>1, <3>2
    <3> QED  BY <3>3
  <2> QED  BY <1>1, <2>1, FS_AddElement
<1>6. \A w \in P : w \in next <=> w >= A /\ size(w) - 1 = size(v)
  BY <1>3
<1> HIDE DEF size, below
<1>7. ASSUME NEW w \in next PROVE w \in later /\ \A x \in later : w <= x
  <2>1. w \in P /\ size(w) - 1 = size(v)
    BY <1>6, <1>7
  <2>2. ~(w < v) /\ w # v
    BY <1>1, <1>4, <2>1
  <2>3. ASSUME NEW x \in later, x < w PROVE FALSE
    <3>1. size(x) + 1 <= size(w) /\ size(v) + 1 <= size(x)
      BY <1>4, <2>1, <2>3
    <3> QED  BY <1>1, <2>1, <3>1
  <2> QED  BY <1>2, <2>1, <2>2, <2>3
<1>8. ASSUME NEW w \in later, \A x \in later : w <= x PROVE w \in next
  <2>1. size(w) - 1 = size(v)
    BY <1>1, <1>5, <1>8
  <2>2. w \in P /\ w # r
    BY <1>2, <1>8
  <2> QED  BY <1>2, <1>6, <2>1, <2>2
<1>9. next \subseteq P
  OBVIOUS
<1> QED  BY <1>7, <1>8

LEMMA LeastIsMin ==
    ASSUME NEW S, S \subseteq Nat, NEW m \in S, \A x \in S : m <= x
    PROVE  Min(S) = m
<1>1. \A y \in S : (\A x \in S : y <= x) => y = m
  OBVIOUS
<1> QED  BY <1>1 DEF Min

(* A finite set of numbers has a greatest element.                         *)
LEMMA GreatestIsMax ==
    ASSUME NEW n \in Nat, NEW S, S \subseteq 0..n, S # {}
    PROVE  Max(S) \in S /\ \A x \in S : x <= Max(S)
<1> DEFINE T == {n - x : x \in S}
<1>1. T \subseteq Nat /\ T # {}
  <2>1. \A x \in S : n - x \in Nat
    OBVIOUS
  <2> QED  BY <2>1
<1>2. PICK y \in T : \A z \in T : y <= z
  <2> HIDE DEF T
  <2> QED  BY <1>1, LeastNat
<1>3. PICK m \in S : y = n - m
  OBVIOUS
<1>4. \A x \in S : m >= x
  <2>1. \A x \in S : n - m <= n - x
    BY <1>2, <1>3
  <2> QED  BY <2>1
<1>5. \E x \in S : \A z \in S : x >= z
  BY <1>4
<1>6. Max(S) \in S /\ \A x \in S : Max(S) >= x
  BY <1>5 DEF Max
<1> QED  BY <1>6

(* If the first barriers have physical ids of their own, setNextSameID     *)
(* links as linkNextIds does.                                              *)
Numbered ==
    /\ fn.numBarriers \in Nat
    /\ realId \in [Barrier -> 0..(Available - 1)]
    /\ \A v \in Barrier : v < Available => realId[v] = v

LEMMA LinksAgree ==
    ASSUME Numbered
    PROVE  \A v \in Barrier : NextSameIds[v] = LinkedNextId(v)
<1> SUFFICES ASSUME NEW v \in Barrier PROVE NextSameIds[v] = LinkedNextId(v)
  OBVIOUS
<1> DEFINE P == {w \in Barrier : realId[w] = realId[v]}
           chain == {w \in P : w >= Available}
           next == Handed(P, Available, v)
           later == Later(P, v)
           r == realId[v]
<1>1. Barrier \subseteq Nat /\ IsFiniteSet(Barrier) /\ Available \in Nat
  BY Ranges, AvailableAssumption DEF Numbered, Barrier
<1>2. P \in SUBSET Barrier /\ IsFiniteSet(P) /\ P \subseteq Nat /\ v \in P
  BY <1>1, FS_Subset
<1>3. r \in 0..(Available - 1) /\ \A w \in Barrier : realId[w] \in 0..(Available - 1)
  BY DEF Numbered
<1>4. r \in P /\ \A x \in P : x < Available <=> x = r
  <2>1. r <= v
    <3>1. CASE v < Available
      BY <1>1, <3>1 DEF Numbered
    <3>2. CASE ~(v < Available)
      BY <1>1, <1>3, <3>2
    <3> QED  BY <3>1, <3>2
  <2>2. r \in Barrier /\ r < Available
    BY <1>1, <1>3, <2>1 DEF Barrier, Numbered
  <2>3. realId[r] = r
    BY <2>2 DEF Numbered
  <2>4. \A x \in P : x < Available => x = r
    BY DEF Numbered
  <2> QED  BY <2>2, <2>3, <2>4
<1>5. \A w : w \in next <=> w \in later /\ \A x \in later : w <= x
  <2>1. r \in P /\ v \in P /\ P \subseteq Nat /\ IsFiniteSet(P) /\ Available \in Nat
    BY <1>1, <1>2, <1>4
  <2>2. \A x \in P : x < Available <=> x = r
    BY <1>4
  <2> HIDE DEF P, r, chain
  <2> QED  BY <2>1, <2>2, HandedIsNext
<1>6. NextSameIds[v] = IF next = {} THEN -1 ELSE Min(next)
  <2>1. next = {w \in chain : Cardinality({x \in chain : x < w}) = Cardinality({x \in P : x < v})}
    <3>1. \A w : {x \in chain : x < w} = {x \in P : x >= Available /\ x < w}
      OBVIOUS
    <3> HIDE DEF P
    <3> QED  BY <3>1 DEF Handed
  <2>2. NextSameIds[v] =
            LET n == {w \in chain : Cardinality({x \in chain : x < w}) = Cardinality({x \in P : x < v})}
            IN  IF n = {} THEN -1 ELSE Min(n)
    BY DEF NextSameIds
  <2> HIDE DEF P, chain, next
  <2> QED  BY <2>1, <2>2
<1>7. LinkedNextId(v) = IF later = {} THEN -1 ELSE Min(later)
  <2>1. {w \in Barrier : w > v /\ realId[w] = realId[v]} = later
    BY DEF Later
  <2> QED  BY <2>1 DEF LinkedNextId
<1> HIDE DEF next
<1>8. CASE later = {}
  BY <1>5, <1>6, <1>7, <1>8
<1>9. CASE later # {}
  <2>1. later \subseteq Nat
    BY <1>2 DEF Later
  <2>2. PICK m \in later : \A x \in later : m <= x
    <3> HIDE DEF later
    <3> QED  BY <1>9, <2>1, LeastNat
  <2>3. next = {m}
    <3>1. \A w \in later : (\A x \in later : w <= x) => w = m
      BY <2>1, <2>2
    <3> QED  BY <1>5, <2>2, <3>1
  <2>4. Min(next) = m /\ Min(later) = m
    <3>1. Min(later) = m
      BY <2>1, <2>2, LeastIsMin
    <3>2. Min({m}) = m
      BY <2>1, LeastIsMin
    <3> QED  BY <2>3, <3>1, <3>2
  <2> QED  BY <1>6, <1>7, <1>9, <2>3, <2>4
<1> QED  BY <1>8, <1>9

-----------------------------------------------------------------------------
(* The assignment: while the ring has not come round, barriers get the ids *)
(* in order.                                                               *)

Assigning ==
    /\ IndInv
    /\ fn.dynamic /\ ~legalize
    /\ limit = Available /\ numReal = Available
    /\ \A v \in 0..(bar - 1) : realId[v] \in 0..(Available - 1) /\ (v < Available => realId[v] = v)
    /\ \A i \in 1..(Available - bar) : i \in 1..Len(nextReal) /\ nextReal[i] = bar + i - 1
    /\ phase = "success" => bar = fn.numBarriers

LEMMA RingShifts ==
    ASSUME NEW T, NEW s \in Seq(T), s # <<>>
    PROVE  /\ 1 \in 1..Len(s) /\ Head(s) = s[1] /\ s[1] \in T
           /\ \A i \in 1..(Len(s) - 1) : i \in 1..Len(Tail(s)) /\ Tail(s)[i] = s[i + 1]
OBVIOUS

LEMMA RingExtends ==
    ASSUME NEW T, NEW s \in Seq(T), NEW k \in Nat, NEW u \in [1..k -> T]
    PROVE  \A i \in 1..Len(s) : i \in 1..Len(s \o u) /\ (s \o u)[i] = s[i]
<1>1. u \in Seq(T) /\ Len(u) = k
  OBVIOUS
<1> QED  BY <1>1

LEMMA AssigningMaps ==
    ASSUME Assigning, MapBarrier
    PROVE  Assigning'
<1>1. IndInv /\ IndInv' /\ TypeOK
  BY MapBarrierStep DEF Assigning, IndInv
<1>2. /\ bar < fn.numBarriers /\ nextReal # <<>>
      /\ nextReal' = Tail(nextReal)
      /\ realId' = [realId EXCEPT ![bar] = Head(nextReal)]
      /\ bar' = bar + 1 /\ phase' = "map"
      /\ UNCHANGED <<fn, limit, legalize, numReal>>
  BY DEF Assigning, MapBarrier, HasBarriersToMap, inputVars
<1>3. /\ bar \in Nat /\ bar \in Barrier /\ fn.numBarriers \in Nat
      /\ realId \in [Barrier -> Int] /\ nextReal \in Seq(0..(Available - 1)) /\ Available \in Nat
  <2>1. /\ bar \in 0..fn.numBarriers /\ realId \in [Barrier -> Int]
        /\ nextReal \in Seq(0..(Available - 1))
    BY <1>1 DEF TypeOK, Assigning
  <2>2. fn.numBarriers \in Nat
    BY <1>1, Shape DEF IndInv
  <2> QED  BY <1>2, <2>1, <2>2, AvailableAssumption DEF Barrier
<1>4. /\ Head(nextReal) = nextReal[1] /\ nextReal[1] \in 0..(Available - 1) /\ Len(nextReal) \in Nat
      /\ \A i \in 1..(Len(nextReal) - 1) : i \in 1..Len(nextReal') /\ nextReal'[i] = nextReal[i + 1]
  BY <1>2, <1>3, RingShifts
<1>5. ASSUME NEW v \in 0..(bar' - 1)
      PROVE  realId'[v] \in 0..(Available - 1) /\ (v < Available => realId'[v] = v)
  <2>1. v \in Barrier
    BY <1>2, <1>3 DEF Barrier
  <2>2. CASE v = bar
    <3>1. realId'[v] = nextReal[1]
      BY <1>2, <1>3, <1>4, <2>1, <2>2
    <3>2. v < Available => 1 \in 1..(Available - bar)
      BY <1>3, <2>2
    <3>3. v < Available => nextReal[1] = bar + 1 - 1
      BY <3>2 DEF Assigning
    <3> QED  BY <1>3, <1>4, <2>2, <3>1, <3>3
  <2>3. CASE v # bar
    <3>1. realId'[v] = realId[v] /\ v \in 0..(bar - 1)
      BY <1>2, <1>3, <2>1, <2>3
    <3> QED  BY <3>1 DEF Assigning
  <2> QED  BY <2>2, <2>3
<1>6. ASSUME NEW i \in 1..(Available - bar')
      PROVE  i \in 1..Len(nextReal') /\ nextReal'[i] = bar' + i - 1
  <2>1. i \in Nat /\ i + 1 \in 1..(Available - bar)
    BY <1>2, <1>3
  <2>2. i + 1 \in 1..Len(nextReal) /\ nextReal[i + 1] = bar + (i + 1) - 1
    BY <2>1 DEF Assigning
  <2>3. i \in 1..(Len(nextReal) - 1)
    BY <1>4, <2>1, <2>2
  <2> QED  BY <1>2, <1>3, <1>4, <2>1, <2>2, <2>3
<1> QED  BY <1>1, <1>2, <1>5, <1>6 DEF Assigning

LEMMA AssigningRuns ==
    ASSUME Assigning, RunTask
    PROVE  Assigning'
<1>1. IndInv /\ IndInv' /\ TypeOK
  BY RunTaskStep DEF Assigning, IndInv
<1>2. /\ ~Blocked(HeadTask) /\ Execute(HeadTask) /\ HasHead
      /\ UNCHANGED <<fn, limit, legalize, numReal, realId, bar>> /\ phase' = "run"
  BY DEF RunTask, Advance, inputVars
<1>3. HeadTask \in Task
  BY <1>1, <1>2, HeadTaskIsTask DEF IndInv
<1> DEFINE E == Exhausted(HeadTask)
           k == Cardinality(E)
<1>4. PICK order \in SetToSeqs(E) :
            nextReal' = nextReal \o [i \in DOMAIN order |-> realId[order[i]]]
  BY <1>2 DEF Execute, Assigning
<1>5. E \subseteq Barrier /\ \A v \in E : realId[v] \in 0..(numReal - 1)
  <2>1. fn.wait[HeadTask] \subseteq Barrier
    BY <1>1, <1>3, Shape DEF IndInv
  <2> QED  BY <1>2, <2>1 DEF Exhausted, Blocked, IsBarrierMapped
<1>6. k \in Nat
  <2>1. IsFiniteSet(Barrier)
    BY <1>1, Shape, Ranges DEF Barrier, IndInv
  <2>2. IsFiniteSet(E)
    BY <1>5, <2>1, FS_Subset
  <2> QED  BY <2>2, FS_CardinalityType
<1>7. [i \in DOMAIN order |-> realId[order[i]]] \in [1..k -> 0..(numReal - 1)]
  <2>1. order \in [1..k -> E]
    BY DEF SetToSeqs
  <2> HIDE DEF E, k
  <2> QED  BY <1>5, <2>1
<1>8. nextReal \in Seq(0..(numReal - 1))
  BY <1>1 DEF TypeOK
<1>9. \A i \in 1..Len(nextReal) : i \in 1..Len(nextReal') /\ nextReal'[i] = nextReal[i]
  <2> DEFINE u == [i \in DOMAIN order |-> realId[order[i]]]
  <2>1. nextReal' = nextReal \o u /\ u \in [1..k -> 0..(numReal - 1)]
    BY <1>4, <1>7
  <2> HIDE DEF u, k
  <2> QED  BY <1>6, <1>8, <2>1, RingExtends
<1> QED  BY <1>1, <1>2, <1>9 DEF Assigning

(* No step but these two touches the ring: the pool is never resized.      *)
LEMMA AssigningGoesOn ==
    ASSUME Assigning, [Next]_vars
    PROVE  Assigning'
<1>1. IndInv'
  BY NextIndInv DEF Assigning
<1>2. CASE /\ UNCHANGED <<fn, limit, legalize, numReal, nextReal, realId, bar>>
           /\ phase' = "success" => phase = "success" \/ bar = fn.numBarriers
  BY <1>1, <1>2 DEF Assigning
<1>3. CASE MapBarrier
  BY <1>3, AssigningMaps
<1>4. CASE RunTask
  BY <1>4, AssigningRuns
<1>5. CASE StartRound \/ Finish \/ EndMapping
  BY <1>2, <1>5 DEF StartRound, Finish, EndMapping, inputVars, physVars
<1>6. CASE PassOverProcessedDma
  BY <1>2, <1>6 DEF PassOverProcessedDma, Advance, inputVars
<1>7. CASE RunFails \/ LeaveQueue
  BY <1>2, <1>7 DEF RunFails, LeaveQueue, inputVars, physVars
<1>8. CASE ThrowNotProgressed \/ SimulationBlocked \/ NextRound
  BY <1>2, <1>8 DEF ThrowNotProgressed, SimulationBlocked, NextRound, inputVars, physVars
<1>9. ~Grow /\ ~Shrink
  BY DEF Grow, Shrink, Assigning
<1>10. CASE UNCHANGED vars
  BY <1>2, <1>10 DEF vars, inputVars, physVars
<1> QED  BY <1>3, <1>4, <1>5, <1>6, <1>7, <1>8, <1>9, <1>10 DEF Next, Returned

(* What the pass hands to the next one.                                    *)
LEMMA AssignmentFound ==
    ASSUME Assigning, phase = "success"
    PROVE  Numbered
<1>1. /\ realId \in [Barrier -> Int] /\ fn.numBarriers \in Nat
  BY Shape DEF Assigning, IndInv, TypeOK
<1>2. \A v \in Barrier : realId[v] \in 0..(Available - 1) /\ (v < Available => realId[v] = v)
  BY DEF Assigning, Barrier
<1> QED  BY <1>1, <1>2 DEF Numbered

-----------------------------------------------------------------------------
(* The passes after the assignment keep the ids.                           *)

Fields == {"numTasks", "numBarriers", "dynamic", "realId", "wait", "update", "count",
           "fifo", "multi", "producers", "consumers"}

Assigned == WellFormed(fn) /\ ~fn.dynamic /\ ~legalize /\ Numbered

LEMMA AssignedRestarts ==
    ASSUME WholePool, WellFormed(fn), Numbered, Fields \subseteq DOMAIN fn, ~legalize,
           NEW n, Restart(n)
    PROVE  /\ Assigned' /\ Fields \subseteq DOMAIN fn'
           /\ Task' = Task /\ Barrier' = Barrier /\ realId' = realId
           /\ fn'.fifo = fn.fifo /\ fn'.wait = fn.wait /\ fn'.update = fn.update
<1>1. /\ fn' = [fn EXCEPT !.dynamic = FALSE, !.realId = realId]
      /\ realId' = realId /\ ~legalize'
  BY DEF Restart
<1>2. /\ DOMAIN fn' = DOMAIN fn /\ ~fn'.dynamic /\ fn'.dynamic \in BOOLEAN /\ fn'.realId = realId
      /\ fn'.numTasks = fn.numTasks /\ fn'.numBarriers = fn.numBarriers
      /\ fn'.fifo = fn.fifo /\ fn'.wait = fn.wait /\ fn'.update = fn.update
      /\ fn'.count = fn.count /\ fn'.producers = fn.producers /\ fn'.consumers = fn.consumers
  BY <1>1 DEF Fields
<1>3. Task' = Task /\ Barrier' = Barrier
  BY <1>2 DEF Task, Barrier
<1>4. Numbered'
  BY <1>1, <1>2, <1>3 DEF Numbered
<1>5. /\ fn'.realId \in [0..(fn'.numBarriers - 1) -> Int]
      /\ \A v \in 0..(fn'.numBarriers - 1) : \A m \in Limits : fn'.realId[v] \in 0..(m - 1)
  BY <1>2 DEF Numbered, Barrier, WholePool
<1>6. WellFormed(fn)'
  BY <1>2, <1>5 DEF WellFormed
<1> QED  BY <1>1, <1>2, <1>3, <1>4, <1>6 DEF Assigned

LEMMA MappingKeepsId ==
    ASSUME Assigned, MapBarrier
    PROVE  realId' = realId /\ UNCHANGED <<fn, legalize>>
<1>1. realId' = [realId EXCEPT ![bar] = realId[bar]] /\ UNCHANGED <<fn, legalize>>
  BY DEF MapBarrier, Assigned, inputVars
<1>2. realId \in [Barrier -> 0..(Available - 1)]
  BY DEF Assigned, Numbered
<1> QED  BY <1>1, <1>2

LEMMA AssignedStays ==
    ASSUME Assigned, [Next]_vars
    PROVE  UNCHANGED <<fn, realId, legalize>>
<1>1. CASE MapBarrier
  BY <1>1, MappingKeepsId
<1>2. CASE RunTask \/ PassOverProcessedDma
  BY <1>2 DEF RunTask, PassOverProcessedDma, Advance, inputVars
<1>3. CASE StartRound \/ Finish \/ EndMapping
  BY <1>3 DEF StartRound, Finish, EndMapping, inputVars, physVars
<1>4. CASE RunFails \/ LeaveQueue
  BY <1>4 DEF RunFails, LeaveQueue, inputVars, physVars
<1>5. CASE ThrowNotProgressed \/ SimulationBlocked \/ NextRound
  BY <1>5 DEF ThrowNotProgressed, SimulationBlocked, NextRound, inputVars, physVars
<1>6. ~Grow /\ ~Shrink
  BY DEF Grow, Shrink, Assigned
<1>7. CASE UNCHANGED vars
  BY <1>7 DEF vars, inputVars, physVars
<1> QED  BY <1>1, <1>2, <1>3, <1>4, <1>5, <1>6, <1>7 DEF Next, Returned

LEMMA SameIds ==
    ASSUME UNCHANGED <<fn, realId>>
    PROVE  /\ Task' = Task /\ Barrier' = Barrier
           /\ \A v : LinkedNextId(v)' = LinkedNextId(v)
           /\ \A t : StartAfterOf(t)' = StartAfterOf(t)
           /\ Numbered' = Numbered
BY DEF Task, Barrier, LinkedNextId, StartAfterOf, Numbered

(* The field start_after is behind every barrier the task uses.            *)
LEMMA StartAfterCovers ==
    ASSUME WellFormed(fn), NEW t \in Task
    PROVE  /\ StartAfterOf(t) \in Nat
           /\ \A v \in fn.wait[t] \cup fn.update[t] : v \in 0..(StartAfterOf(t) - 1)
<1> DEFINE S == {0} \cup {v + 1 : v \in fn.wait[t] \cup fn.update[t]}
<1>1. fn.wait[t] \cup fn.update[t] \subseteq Barrier /\ fn.numBarriers \in Nat
  BY Shape
<1>2. S \subseteq 0..fn.numBarriers /\ S # {}
  <2>1. \A v \in fn.wait[t] \cup fn.update[t] : v + 1 \in 0..fn.numBarriers
    BY <1>1 DEF Barrier
  <2> QED  BY <1>1, <2>1
<1>3. Max(S) \in S /\ \A x \in S : x <= Max(S)
  <2> HIDE DEF S
  <2> QED  BY <1>1, <1>2, GreatestIsMax
<1>4. StartAfterOf(t) = Max(S)
  BY DEF StartAfterOf
<1> DEFINE m == Max(S)
<1>5. m \in Nat
  BY <1>1, <1>2, <1>3
<1>6. ASSUME NEW v \in fn.wait[t] \cup fn.update[t] PROVE v \in 0..(m - 1)
  <2>1. v \in Nat /\ v + 1 \in S
    BY <1>1 DEF Barrier
  <2>2. v + 1 <= m
    BY <1>3, <2>1
  <2> HIDE DEF m
  <2> QED  BY <1>5, <2>1, <2>2
<1> QED  BY <1>4, <1>5, <1>6

-----------------------------------------------------------------------------
(* The whole way, from assignment to device.                               *)

(* BarrierComputation: the tasks that it has passed have their field.      *)
Passed(q) == {fn.fifo[q][i] : i \in 1..head[q]}
Computing ==
    /\ head \in [Queue -> Nat] /\ queue \in Queue
    /\ \A q \in Queue : head[q] <= Len(fn.fifo[q])
    /\ \A q \in Queue : \A t \in Passed(q) : startAfter[t] = StartAfterOf(t)

(* The device.  A barrier was programmed and still is, or all that waited  *)
(* for it has run; and what has run had nothing to wait for any more.      *)
Consumed(v) ==
    /\ \E t \in Task : v \in fn.wait[t]
    /\ \A t \in Task : v \in fn.wait[t] => t \in executed

Running ==
    /\ loaded \in [0..(Available - 1) -> Barrier \cup {Free}]
    /\ configured \subseteq Barrier
    /\ \A r \in 0..(Available - 1) : loaded[r] # Free => realId[loaded[r]] = r
    /\ \A v \in configured : Loaded(v) \/ Consumed(v)
    /\ \A t, u \in Task : u \in executed /\ fn.update[t] \cap fn.wait[u] # {} => t \in executed

Linked == \A v \in Barrier : nextSameId[v] = LinkedNextId(v)
AllComputed ==
    \A q \in Queue : \A i \in DOMAIN fn.fifo[q] : startAfter[fn.fifo[q][i]] = StartAfterOf(fn.fifo[q][i])

AfterAssignment == {"checkValidate", "validate", "compute", "device"}

PhysInv ==
    /\ stage \in {"checkAssign", "assign", "failed"} \cup AfterAssignment
    /\ Fields \subseteq DOMAIN fn
    /\ startAfter \in [Task -> Nat]
    /\ stage \in {"checkAssign", "assign"} => Assigning
    /\ stage \in AfterAssignment => Assigned
    /\ stage \in {"compute", "device"} => Linked
    /\ stage = "compute" => Computing
    /\ stage # "device" => executed = {}
    /\ stage = "device" => Running /\ AllComputed

LEMMA InitPhys ==
    ASSUME WholePool, PInit
    PROVE  PhysInv
<1>1. Init /\ fn.dynamic /\ ~legalize /\ stage = "checkAssign" /\ executed = {}
      /\ startAfter = [t \in Task |-> 0]
  BY DEF PInit
<1>2. IndInv
  BY <1>1, InitIndInv
<1>3. PICK f \in Programs, n \in Limits, mode \in Modes : Start(f, n, mode)
  BY <1>1 DEF Init
<1>4. /\ fn = f /\ n = Available /\ limit = Available /\ numReal = Available /\ bar = 0 /\ phase = "round"
      /\ nextReal = [i \in 1..Available |-> i - 1]
  BY <1>1, <1>3 DEF Start, WholePool, InitialRing
<1>5. \A i \in 1..(Available - bar) : i \in 1..Len(nextReal) /\ nextReal[i] = bar + i - 1
  BY <1>4, AvailableAssumption
<1>6. Assigning
  <2>1. \A v \in 0..(bar - 1) : FALSE
    BY <1>4
  <2>2. phase # "success"
    BY <1>4
  <2> QED  BY <1>1, <1>2, <1>4, <1>5, <2>1, <2>2 DEF Assigning
<1>7. Fields \subseteq DOMAIN fn
  BY <1>4, RecordsAssumption DEF Fields
<1> QED  BY <1>1, <1>6, <1>7 DEF PhysInv, AfterAssignment

LEMMA CheckStep ==
    ASSUME PhysInv, CheckProducerCount
    PROVE  PhysInv'
<1>1. /\ UNCHANGED vars /\ UNCHANGED <<startAfter, executed>>
      /\ stage \in {"checkAssign", "checkValidate"}
      /\ stage' \in {"failed", IF stage = "checkAssign" THEN "assign" ELSE "validate"}
  BY DEF CheckProducerCount, fieldVars, deviceVars
<1>2. UNCHANGED <<fn, limit, legalize, numReal, nextReal, realId, bar>> /\ Task' = Task
  BY <1>1 DEF vars, inputVars, physVars, Task
<1>3. CASE stage = "checkAssign"
  <2>1. Assigning /\ stage' \in {"failed", "assign"}
    BY <1>1, <1>3 DEF PhysInv
  <2>2. Assigning'
    BY <1>1, <2>1, AssigningGoesOn
  <2> QED  BY <1>1, <1>2, <1>3, <2>1, <2>2 DEF PhysInv, AfterAssignment
<1>4. CASE stage = "checkValidate"
  <2>1. Assigned /\ stage' \in {"failed", "validate"}
    BY <1>1, <1>4 DEF PhysInv, AfterAssignment
  <2>2. Assigned'
    BY <1>2, <2>1, SameIds DEF Assigned
  <2> QED  BY <1>1, <1>2, <1>4, <2>1, <2>2 DEF PhysInv, AfterAssignment
<1> QED  BY <1>1, <1>3, <1>4

LEMMA SimulateStep ==
    ASSUME PhysInv, SimulationStep
    PROVE  PhysInv'
<1>1. /\ UNCHANGED <<startAfter, executed>> /\ stage \in {"assign", "validate"}
      /\ (stage' = stage /\ Next) \/ (stage' = "failed" /\ UNCHANGED vars)
  BY DEF SimulationStep, fieldVars, deviceVars
<1>2. CASE stage = "assign"
  <2>1. Assigning /\ [Next]_vars
    BY <1>1, <1>2 DEF PhysInv
  <2>2. Assigning'
    BY <2>1, AssigningGoesOn
  <2>3. fn' = fn /\ Task' = Task
    BY <2>1, SameFunction DEF Task
  <2> QED  BY <1>1, <1>2, <2>2, <2>3 DEF PhysInv, AfterAssignment
<1>3. CASE stage = "validate"
  <2>1. Assigned /\ [Next]_vars
    BY <1>1, <1>3 DEF PhysInv, AfterAssignment
  <2>2. UNCHANGED <<fn, realId, legalize>>
    BY <2>1, AssignedStays
  <2>3. Assigned' /\ Task' = Task
    BY <2>1, <2>2, SameIds DEF Assigned
  <2> QED  BY <1>1, <1>3, <2>2, <2>3 DEF PhysInv, AfterAssignment
<1> QED  BY <1>1, <1>2, <1>3

LEMMA RewriteStep ==
    ASSUME WholePool, PhysInv, RewriteBarriers
    PROVE  PhysInv'
<1>1. /\ stage = "assign" /\ stage' = "checkValidate" /\ Restart(Available)
      /\ UNCHANGED <<startAfter, executed>> /\ phase = "success"
  BY DEF RewriteBarriers, fieldVars, deviceVars
<1>2. Assigning /\ Fields \subseteq DOMAIN fn
  BY <1>1 DEF PhysInv
<1>3. Numbered
  BY <1>1, <1>2, AssignmentFound
<1>4. WellFormed(fn) /\ ~legalize
  BY <1>2 DEF Assigning, IndInv
<1>5. Assigned' /\ Fields \subseteq DOMAIN fn' /\ Task' = Task
  BY <1>1, <1>2, <1>3, <1>4, AssignedRestarts
<1> QED  BY <1>1, <1>5 DEF PhysInv, AfterAssignment

LEMMA StartComputationStep ==
    ASSUME WholePool, PhysInv, StartComputation
    PROVE  PhysInv'
<1>1. /\ stage = "validate" /\ stage' = "compute" /\ nextSameId' = NextSameIds
      /\ UNCHANGED <<startAfter, executed>>
  BY DEF StartComputation, deviceVars
<1>2. PICK n : Restart(n)
  BY DEF StartComputation
<1>3. Assigned /\ Fields \subseteq DOMAIN fn /\ startAfter \in [Task -> Nat] /\ executed = {}
  BY <1>1 DEF PhysInv, AfterAssignment
<1>4. /\ Assigned' /\ Fields \subseteq DOMAIN fn' /\ Task' = Task /\ Barrier' = Barrier
      /\ realId' = realId /\ fn'.fifo = fn.fifo
  BY <1>2, <1>3, AssignedRestarts DEF Assigned
<1>5. Linked'
  <2>1. \A v : LinkedNextId(v)' = LinkedNextId(v)
    BY <1>4 DEF LinkedNextId
  <2>2. \A v \in Barrier : NextSameIds[v] = LinkedNextId(v)
    BY <1>3, LinksAgree DEF Assigned
  <2> QED  BY <1>1, <1>4, <2>1, <2>2 DEF Linked
<1>6. Computing'
  <2>1. head' = [q \in Queue |-> 0] /\ queue' = 0
    BY <1>2 DEF Restart
  <2>2. 0 \in Queue
    BY NumDmaAssumption DEF Queue, UPA
  <2>3. \A q \in Queue : fn'.fifo[q] \in Seq(Task)
    BY <1>3, <1>4, Shape DEF Assigned
  <2>4. \A q \in Queue : head'[q] = 0 /\ 0 <= Len(fn'.fifo[q])
    BY <2>1, <2>3
  <2>5. \A q \in Queue : Passed(q)' = {}
    BY <2>4 DEF Passed
  <2> QED  BY <2>1, <2>2, <2>4, <2>5 DEF Computing
<1> QED  BY <1>1, <1>3, <1>4, <1>5, <1>6 DEF PhysInv, AfterAssignment

(* BarrierComputation fills in the field of the task it passes.            *)
LEMMA ComputeTaskStep ==
    ASSUME PhysInv, stage = "compute", HasHead, Execute(HeadTask), Advance,
           startAfter' = [startAfter EXCEPT ![HeadTask] = StartAfterOf(HeadTask)]
    PROVE  Computing' /\ startAfter' \in [Task -> Nat]
<1>1. /\ WellFormed(fn) /\ Computing /\ startAfter \in [Task -> Nat]
      /\ UNCHANGED <<fn, realId, queue>> /\ head' = [head EXCEPT ![queue] = @ + 1]
  BY DEF PhysInv, AfterAssignment, Assigned, Advance, inputVars
<1>2. /\ queue \in Queue /\ head \in [Queue -> Nat] /\ fn.fifo \in [Queue -> Seq(Task)]
      /\ head[queue] < Len(fn.fifo[queue]) /\ \A q \in Queue : head[q] <= Len(fn.fifo[q])
  BY <1>1, Shape DEF Computing, HasHead
<1>3. HeadTask \in Task
  <2>1. head[queue] + 1 \in 1..Len(fn.fifo[queue])
    BY <1>2
  <2> QED  BY <1>2, <2>1 DEF HeadTask
<1>4. StartAfterOf(HeadTask) \in Nat
  BY <1>1, <1>3, StartAfterCovers
<1>5. startAfter' \in [Task -> Nat] /\ startAfter'[HeadTask] = StartAfterOf(HeadTask)
      /\ \A t \in Task : t # HeadTask => startAfter'[t] = startAfter[t]
  BY <1>1, <1>3, <1>4
<1>6. /\ head' \in [Queue -> Nat] /\ head'[queue] = head[queue] + 1
      /\ \A q \in Queue : q # queue => head'[q] = head[q]
  BY <1>1, <1>2
<1>7. \A q \in Queue : head'[q] <= Len(fn.fifo[q])
  <2>1. \A q \in Queue : Len(fn.fifo[q]) \in Nat /\ head[q] \in Nat
    BY <1>2
  <2>2. head'[queue] <= Len(fn.fifo[queue])
    BY <1>2, <1>6, <2>1
  <2>3. \A q \in Queue : q # queue => head'[q] <= Len(fn.fifo[q])
    BY <1>2, <1>6
  <2> QED  BY <2>2, <2>3
<1>8. ASSUME NEW q \in Queue, NEW t \in Passed(q)'
      PROVE  startAfter'[t] = StartAfterOf(t)
  <2>1. PICK i \in 1..head'[q] : t = fn.fifo[q][i]
    BY <1>1 DEF Passed
  <2>2. t \in Task
    BY <1>2, <1>6, <1>7, <2>1
  <2>3. CASE q = queue /\ i = head[queue] + 1
    BY <1>5, <2>1, <2>3 DEF HeadTask
  <2>4. CASE q # queue \/ i # head[queue] + 1
    <3>1. i \in 1..head[q]
      BY <1>2, <1>6, <2>4
    <3>2. startAfter[t] = StartAfterOf(t)
      BY <1>1, <2>1, <3>1 DEF Computing, Passed
    <3> QED  BY <1>5, <2>2, <3>2
  <2> QED  BY <2>3, <2>4
<1>9. \A t : StartAfterOf(t)' = StartAfterOf(t)
  BY <1>1, SameIds
<1> QED  BY <1>1, <1>2, <1>5, <1>6, <1>7, <1>8, <1>9 DEF Computing

LEMMA ComputeStep ==
    ASSUME PhysInv, ComputationStep
    PROVE  PhysInv'
<1>1. /\ stage = "compute" /\ UNCHANGED <<nextSameId, executed>>
      /\ Assigned /\ Linked /\ Computing /\ Fields \subseteq DOMAIN fn
      /\ startAfter \in [Task -> Nat] /\ executed = {}
  BY DEF ComputationStep, deviceVars, PhysInv, AfterAssignment
<1>2. ASSUME UNCHANGED <<fn, realId, legalize>>, startAfter' \in [Task -> Nat],
             stage' = "failed" \/ (stage' = "compute" /\ Computing')
      PROVE  PhysInv'
  <2>1. Assigned' /\ Linked' /\ Task' = Task
    BY <1>1, <1>2, SameIds DEF Assigned, Linked
  <2> QED  BY <1>1, <1>2, <2>1 DEF PhysInv, AfterAssignment
<1>3. ASSUME UNCHANGED <<fn, realId, legalize, head, startAfter>>, queue' \in Queue,
             stage' \in {"failed", "compute"}
      PROVE  PhysInv'
  <2>1. Computing'
    BY <1>1, <1>3, SameIds DEF Computing, Passed
  <2> QED  BY <1>1, <1>2, <1>3, <2>1
<1>4. queue \in Queue /\ 0 \in Queue
  BY <1>1, NumDmaAssumption DEF Computing, Queue, UPA
<1>5. CASE StartRound /\ UNCHANGED <<stage, startAfter>>
  BY <1>1, <1>3, <1>4, <1>5 DEF StartRound, inputVars, physVars
<1>6. CASE MapBarrier /\ UNCHANGED <<stage, startAfter>>
  <2>1. UNCHANGED <<fn, realId, legalize, head, queue>>
    BY <1>1, <1>6, MappingKeepsId DEF MapBarrier
  <2> QED  BY <1>1, <1>3, <1>4, <1>6, <2>1
<1>7. CASE EndMapping /\ UNCHANGED <<stage, startAfter>>
  BY <1>1, <1>3, <1>4, <1>7 DEF EndMapping, inputVars, physVars
<1>8. CASE ComputeTask
  <2>1. CASE stage' = "failed" /\ UNCHANGED <<vars, startAfter>>
    BY <1>1, <1>2, <2>1 DEF vars, inputVars, physVars
  <2>2. CASE ~(stage' = "failed" /\ UNCHANGED <<vars, startAfter>>)
    <3>1. /\ HasHead /\ Execute(HeadTask) /\ Advance /\ stage' = stage
          /\ startAfter' = [startAfter EXCEPT ![HeadTask] = StartAfterOf(HeadTask)]
      BY <1>8, <2>2 DEF ComputeTask
    <3>2. Computing' /\ startAfter' \in [Task -> Nat]
      BY <1>1, <3>1, ComputeTaskStep
    <3>3. UNCHANGED <<fn, realId, legalize>>
      BY <3>1 DEF Advance, inputVars
    <3> QED  BY <1>1, <1>2, <3>1, <3>2, <3>3
  <2> QED  BY <2>1, <2>2
<1>9. CASE ComputeLeaveQueue /\ UNCHANGED <<stage, startAfter>>
  <2>1. /\ UNCHANGED <<fn, realId, legalize, head>>
        /\ queue' = queue \/ (queue # UPA /\ queue' = queue + 1)
    BY <1>9 DEF ComputeLeaveQueue, inputVars, physVars
  <2>2. queue' \in Queue
    BY <1>4, <2>1, NumDmaAssumption DEF Queue, UPA
  <2> QED  BY <1>1, <1>3, <1>9, <2>1, <2>2
<1>10. CASE ComputeRoundEnd /\ UNCHANGED startAfter
  BY <1>1, <1>3, <1>4, <1>10 DEF ComputeRoundEnd, inputVars, physVars
<1> QED  BY <1>5, <1>6, <1>7, <1>8, <1>9, <1>10 DEF ComputationStep

(* The device starts with the first barriers, each on an id of its own.    *)
LEMMA StartDeviceStep ==
    ASSUME PhysInv, StartDevice
    PROVE  PhysInv'
<1>1. /\ stage = "compute" /\ stage' = "device" /\ Finish
      /\ UNCHANGED <<nextSameId, startAfter, executed>>
      /\ configured' = {v \in Barrier : v < Available}
      /\ loaded' = [r \in 0..(Available - 1) |->
                        LET mine == {v \in configured' : realId[v] = r}
                        IN  IF mine = {} THEN Free ELSE Min(mine)]
  BY DEF StartDevice, fieldVars
<1>2. /\ UNCHANGED <<fn, legalize, realId, head>> /\ FifosDrained
  BY <1>1 DEF Finish, inputVars, physVars
<1>3. /\ Assigned /\ Linked /\ Computing /\ Fields \subseteq DOMAIN fn
      /\ startAfter \in [Task -> Nat] /\ executed = {}
  BY <1>1 DEF PhysInv, AfterAssignment
<1>4. Assigned' /\ Linked' /\ Task' = Task /\ Barrier' = Barrier
  BY <1>1, <1>2, <1>3, SameIds DEF Assigned, Linked
<1>5. AllComputed'
  <2>1. ASSUME NEW q \in Queue, NEW i \in DOMAIN fn.fifo[q]
        PROVE  startAfter[fn.fifo[q][i]] = StartAfterOf(fn.fifo[q][i])
    <3>1. i \in 1..head[q]
      <4>1. fn.fifo[q] \in Seq(Task) /\ head[q] = Len(fn.fifo[q])
        BY <1>2, <1>3, Shape DEF FifosDrained, Assigned
      <4> QED  BY <4>1
    <3> QED  BY <1>3, <3>1 DEF Computing, Passed
  <2> QED  BY <1>1, <1>2, <2>1, SameIds DEF AllComputed
<1> DEFINE mine(r) == {v \in configured' : realId[v] = r}
<1>6. \A v \in configured' : v \in Barrier /\ v \in Nat /\ v < Available /\ realId[v] = v
  <2>1. \A v \in Barrier : v \in Nat
    BY <1>3, Shape DEF Barrier, Assigned
  <2> QED  BY <1>1, <1>3, <2>1 DEF Assigned, Numbered
<1>7. ASSUME NEW r \in 0..(Available - 1)
      PROVE  \/ mine(r) = {} /\ loaded'[r] = Free
             \/ mine(r) = {r} /\ loaded'[r] = r
  <2>1. mine(r) = {} \/ mine(r) = {r}
    BY <1>6
  <2>2. loaded'[r] = IF mine(r) = {} THEN Free ELSE Min(mine(r))
    BY <1>1
  <2>3. mine(r) = {r} => Min(mine(r)) = r
    <3>1. r \in Nat /\ Min({r}) = r
      BY LeastIsMin
    <3> QED  BY <3>1
  <2> HIDE DEF mine
  <2> QED  BY <2>1, <2>2, <2>3
<1>8. ASSUME NEW r \in 0..(Available - 1), loaded'[r] # Free
      PROVE  r \in configured' /\ loaded'[r] = r
  BY <1>7, <1>8
<1>9. loaded' \in [0..(Available - 1) -> Barrier \cup {Free}]
  <2>1. \A r \in 0..(Available - 1) : loaded'[r] \in Barrier \cup {Free}
    BY <1>6, <1>8
  <2> QED  BY <1>1, <2>1
<1>10. ASSUME NEW v \in configured' PROVE loaded'[realId[v]] = v
  <2>1. v \in 0..(Available - 1) /\ v \in mine(v)
    BY <1>6, AvailableAssumption
  <2> QED  BY <1>6, <1>7, <2>1
<1>11. Running'
  <2>1. \A v \in configured' : Loaded(v)'
    BY <1>2, <1>10 DEF Loaded
  <2>2. executed' = {} /\ configured' \subseteq Barrier
    BY <1>1, <1>3
  <2>3. \A r \in 0..(Available - 1) : loaded'[r] # Free => realId[loaded'[r]] = r
    BY <1>6, <1>8
  <2> QED  BY <1>2, <1>4, <1>9, <2>1, <2>2, <2>3 DEF Running
<1> QED  BY <1>1, <1>2, <1>3, <1>4, <1>5, <1>11 DEF PhysInv, AfterAssignment

(* A barrier is taken off its physical id only when it is consumed, and    *)
(* its successor is on the same id.                                        *)
LEMMA ReprogramStep ==
    ASSUME PhysInv, NEW r \in 0..(Available - 1), Reprogram(r)
    PROVE  Running'
<1> DEFINE v == loaded[r]
           w == nextSameId[v]
<1>1. /\ stage = "device" /\ v # Free /\ Consumed(v)
      /\ loaded' = [loaded EXCEPT ![r] = w]
      /\ configured' = configured \cup ({w} \ {Free})
      /\ UNCHANGED <<fn, realId, executed>>
  BY DEF Reprogram, Consumed, vars, inputVars, physVars
<1>2. Running /\ Linked /\ Assigned
  BY <1>1 DEF PhysInv, AfterAssignment
<1>3. /\ loaded \in [0..(Available - 1) -> Barrier \cup {Free}]
      /\ v \in Barrier /\ realId[v] = r
  BY <1>1, <1>2 DEF Running
<1>4. w = Free \/ (w \in Barrier /\ realId[w] = r)
  <2> DEFINE later == {x \in Barrier : x > v /\ realId[x] = realId[v]}
  <2>1. w = IF later = {} THEN -1 ELSE Min(later)
    BY <1>2, <1>3 DEF Linked, LinkedNextId
  <2>2. later \subseteq Nat
    BY <1>2, Shape DEF Barrier, Assigned
  <2>3. CASE later = {}
    BY <2>1, <2>3 DEF Free
  <2>4. CASE later # {}
    <3>1. PICK m \in later : \A x \in later : m <= x
      <4> HIDE DEF later
      <4> QED  BY <2>2, <2>4, LeastNat
    <3>2. Min(later) = m
      <4> HIDE DEF later
      <4> QED  BY <2>2, <3>1, LeastIsMin
    <3> QED  BY <1>3, <2>1, <2>4, <3>1, <3>2
  <2> QED  BY <2>3, <2>4
<1>5. Task' = Task /\ Barrier' = Barrier
  BY <1>1, SameIds
<1> HIDE DEF w
<1>6. /\ loaded' \in [0..(Available - 1) -> Barrier \cup {Free}]
      /\ loaded'[r] = w /\ \A x \in 0..(Available - 1) : x # r => loaded'[x] = loaded[x]
  BY <1>1, <1>3, <1>4
<1>7. ASSUME NEW x \in configured' PROVE Loaded(x)' \/ Consumed(x)'
  <2>1. Consumed(x)' <=> Consumed(x)
    BY <1>1, <1>5 DEF Consumed
  <2>2. CASE x = w /\ w # Free
    BY <1>1, <1>4, <1>6, <2>2 DEF Loaded
  <2>3. CASE ~(x = w /\ w # Free)
    <3>1. x \in configured /\ x \in Barrier
      BY <1>1, <1>2, <2>3 DEF Running
    <3>2. realId[x] \in 0..(Available - 1)
      BY <1>2, <3>1 DEF Assigned, Numbered
    <3>3. Loaded(x) \/ Consumed(x)
      BY <1>2, <3>1 DEF Running
    <3>4. CASE realId[x] = r
      BY <1>1, <2>1, <3>3, <3>4 DEF Loaded
    <3>5. CASE realId[x] # r
      BY <1>1, <1>6, <2>1, <3>2, <3>3, <3>5 DEF Loaded
    <3> QED  BY <3>4, <3>5
  <2> QED  BY <2>2, <2>3
<1>8. \A x \in 0..(Available - 1) : loaded'[x] # Free => realId[loaded'[x]] = x
  BY <1>2, <1>4, <1>6 DEF Running
<1>9. configured' \subseteq Barrier
  BY <1>1, <1>2, <1>4 DEF Running
<1> QED  BY <1>1, <1>2, <1>5, <1>6, <1>7, <1>8, <1>9 DEF Running

LEMMA ExecuteOnDeviceStep ==
    ASSUME PhysInv, NEW t \in Task, ExecuteOnDevice(t)
    PROVE  Running'
<1>1. /\ stage = "device" /\ executed' = executed \cup {t}
      /\ \A v \in fn.wait[t] : \A u \in Task : v \in fn.update[u] => u \in executed
      /\ UNCHANGED <<fn, realId, loaded, configured>>
  BY DEF ExecuteOnDevice, vars, inputVars, physVars
<1>2. Running
  BY <1>1 DEF PhysInv
<1>3. Task' = Task /\ Barrier' = Barrier
  BY <1>1, SameIds
<1>4. ASSUME NEW v \in configured PROVE Loaded(v)' \/ Consumed(v)'
  <2>1. Loaded(v)' <=> Loaded(v)
    BY <1>1 DEF Loaded
  <2>2. Consumed(v) => Consumed(v)'
    BY <1>1, <1>3 DEF Consumed
  <2> QED  BY <1>2, <2>1, <2>2 DEF Running
<1>5. ASSUME NEW u \in Task, NEW x \in Task, x \in executed', fn.update[u] \cap fn.wait[x] # {}
      PROVE  u \in executed'
  BY <1>1, <1>2, <1>5 DEF Running
<1> QED  BY <1>1, <1>2, <1>3, <1>4, <1>5 DEF Running

LEMMA DeviceStep ==
    ASSUME PhysInv, \/ \E r \in 0..(Available - 1) : Reprogram(r)
                    \/ \E t \in Task : ExecuteOnDevice(t)
    PROVE  PhysInv'
<1>1. Running'
  BY ReprogramStep, ExecuteOnDeviceStep
<1>2. stage = "device" /\ stage' = "device" /\ UNCHANGED <<fn, realId, legalize, nextSameId, startAfter>>
  BY DEF Reprogram, ExecuteOnDevice, vars, inputVars, physVars, fieldVars
<1>3. Assigned' /\ Linked' /\ AllComputed' /\ Task' = Task
  BY <1>2, SameIds DEF PhysInv, AfterAssignment, Assigned, Linked, AllComputed
<1> QED  BY <1>1, <1>2, <1>3 DEF PhysInv, AfterAssignment

LEMMA StepPhys ==
    ASSUME WholePool, PhysInv, [PNext]_allVars
    PROVE  PhysInv'
<1>1. CASE UNCHANGED allVars
  <2>1. /\ UNCHANGED <<stage, nextSameId, startAfter, loaded, configured, executed>>
        /\ UNCHANGED vars /\ UNCHANGED <<fn, legalize, realId, head, queue>>
    BY <1>1 DEF allVars, fieldVars, deviceVars, vars, inputVars, physVars
  <2>2. Assigning => Assigning'
    BY <2>1, AssigningGoesOn
  <2>3. /\ Assigned' <=> Assigned
        /\ Linked' <=> Linked
        /\ AllComputed' <=> AllComputed
        /\ Task' = Task /\ Barrier' = Barrier
    BY <2>1, SameIds DEF Assigned, Linked, AllComputed
  <2>4. (Computing' <=> Computing) /\ (Running' <=> Running)
    BY <2>1, <2>3, SameIds DEF Computing, Passed, Running, Loaded, Consumed
  <2> QED  BY <2>1, <2>2, <2>3, <2>4 DEF PhysInv
<1>2. CASE CheckProducerCount \/ SimulationStep \/ RewriteBarriers
  BY <1>2, CheckStep, SimulateStep, RewriteStep
<1>3. CASE StartComputation \/ ComputationStep \/ StartDevice
  BY <1>3, StartComputationStep, ComputeStep, StartDeviceStep
<1>4. CASE \/ \E r \in 0..(Available - 1) : Reprogram(r)
           \/ \E t \in Task : ExecuteOnDevice(t)
  BY <1>4, DeviceStep
<1> QED  BY <1>1, <1>2, <1>3, <1>4 DEF PNext, AtRest

LEMMA PhysicalInvariant ==
    ASSUME WholePool
    PROVE  PSpec => []PhysInv
<1>1. PInit => PhysInv
  BY InitPhys
<1>2. PhysInv /\ [PNext]_allVars => PhysInv'
  BY StepPhys
<1> QED  BY <1>1, <1>2, PTL DEF PSpec

(* setNextSameID hands the barriers from MAX_PID on out by counting; what  *)
(* it hands out is what linkNextIds would find, as the assignment gives    *)
(* the first barriers ids of their own.                                    *)
THEOREM NextSameIdIsNext ==
    ASSUME WholePool
    PROVE  PSpec => []NextSameIdLinksAll
<1>1. PhysInv => NextSameIdLinksAll
  BY DEF PhysInv, NextSameIdLinksAll, Linked
<1> QED  BY <1>1, PhysicalInvariant, PTL

(* The FIFOs are those of the function that was given.                     *)
LEMMA TasksStayQueued ==
    ASSUME PhysInv, TaskQueued(fn), [PNext]_allVars
    PROVE  TaskQueued(fn)'
<1>1. ASSUME fn'.fifo = fn.fifo, fn'.numTasks = fn.numTasks PROVE TaskQueued(fn)'
  BY <1>1 DEF TaskQueued
<1>2. ASSUME NEW n, Restart(n) PROVE TaskQueued(fn)'
  <2>1. fn' = [fn EXCEPT !.dynamic = FALSE, !.realId = realId] /\ Fields \subseteq DOMAIN fn
    BY <1>2 DEF Restart, PhysInv
  <2>2. fn'.fifo = fn.fifo /\ fn'.numTasks = fn.numTasks
    BY <2>1 DEF Fields
  <2> QED  BY <1>1, <2>2
<1>3. CASE UNCHANGED vars
  BY <1>1, <1>3 DEF vars, inputVars
<1>4. CASE Next
  BY <1>1, <1>4, SameFunction
<1>5. CASE RewriteBarriers \/ StartComputation
  BY <1>2, <1>5 DEF RewriteBarriers, StartComputation
<1>6. CASE ComputationStep
  <2>1. CASE StartRound \/ MapBarrier \/ EndMapping
    BY <1>4, <2>1 DEF Next
  <2>2. CASE ComputeTask
    BY <1>1, <1>3, <2>2 DEF ComputeTask, Advance, inputVars
  <2>3. CASE ComputeLeaveQueue \/ ComputeRoundEnd
    BY <1>1, <2>3 DEF ComputeLeaveQueue, ComputeRoundEnd, inputVars
  <2> QED  BY <1>6, <2>1, <2>2, <2>3 DEF ComputationStep
<1>7. CASE CheckProducerCount \/ SimulationStep \/ AtRest \/ UNCHANGED allVars
  BY <1>3, <1>4, <1>7 DEF CheckProducerCount, SimulationStep, AtRest, allVars
<1>8. CASE StartDevice
  BY <1>4, <1>8 DEF StartDevice, Next
<1>9. CASE \/ \E r \in 0..(Available - 1) : Reprogram(r)
           \/ \E t \in Task : ExecuteOnDevice(t)
  BY <1>3, <1>9 DEF Reprogram, ExecuteOnDevice
<1> QED  BY <1>5, <1>6, <1>7, <1>8, <1>9 DEF PNext

LEMMA FieldsProtect ==
    ASSUME PhysInv, TaskQueued(fn)
    PROVE  StartAfterProtectsBarriers
<1> SUFFICES ASSUME stage = "device", NEW t \in Task \ executed,
                    0..(startAfter[t] - 1) \subseteq configured,
                    NEW v \in fn.wait[t] \cup fn.update[t]
             PROVE  Loaded(v)
  BY DEF StartAfterProtectsBarriers
<1>1. Running /\ AllComputed /\ WellFormed(fn)
  BY DEF PhysInv, AfterAssignment, Assigned
<1>2. startAfter[t] = StartAfterOf(t)
  <2>1. PICK q \in Queue : \E i \in DOMAIN fn.fifo[q] : fn.fifo[q][i] = t
    BY DEF TaskQueued, Task
  <2> QED  BY <1>1, <2>1 DEF AllComputed
<1>3. v \in configured
  BY <1>1, <1>2, StartAfterCovers
<1>4. ~Consumed(v)
  <2>1. CASE v \in fn.wait[t]
    BY <2>1 DEF Consumed
  <2>2. ASSUME v \in fn.update[t], Consumed(v) PROVE FALSE
    <3>1. PICK u \in Task : v \in fn.wait[u] /\ u \in executed
      BY <2>2 DEF Consumed
    <3>2. fn.update[t] \cap fn.wait[u] # {}
      BY <2>2, <3>1
    <3> QED  BY <1>1, <3>1, <3>2 DEF Running
  <2> QED  BY <2>1, <2>2
<1> QED  BY <1>1, <1>3, <1>4 DEF Running

(* Whatever the order in which the executors of the device proceed, a task *)
(* whose start_after barriers have been configured finds the barriers that *)
(* it uses programmed, and not replaced by later ones.                     *)
THEOREM StartAfterIsEnough ==
    ASSUME WholePool, EveryTaskQueued
    PROVE  PSpec => []StartAfterProtectsBarriers
<1>1. PInit => TaskQueued(fn)
  BY DEF PInit, Init, Start, EveryTaskQueued
<1>2. PhysInv /\ TaskQueued(fn) /\ [PNext]_allVars => TaskQueued(fn)'
  BY TasksStayQueued
<1>3. PhysInv /\ TaskQueued(fn) => StartAfterProtectsBarriers
  BY FieldsProtect
<1> QED  BY <1>1, <1>2, <1>3, PhysicalInvariant, PTL DEF PSpec
=============================================================================
