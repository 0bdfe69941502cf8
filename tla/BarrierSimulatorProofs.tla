------------------------ MODULE BarrierSimulatorProofs ------------------------
(***************************************************************************)
(* Proofs about the barrier simulator, for every platform, every set of    *)
(* well-formed functions, every limit and both modes.  The first part: the *)
(* variables keep their ranges, no counter goes below zero and no physical *)
(* barrier is ever held twice.  The second part: the simulator executes    *)
(* the function it is given, each task once, after the producers of its    *)
(* barriers, with counters that match the tasks still to come; and an      *)
(* ordered function is neither blocked for want of a barrier the pool has  *)
(* nor lets legalization throw.  The second part asks that the DMA FIFOs   *)
(* are numbered like the ports.                                            *)
(***************************************************************************)
EXTENDS BarrierSimulator, BarrierMapsProofs, FunctionTheorems

(* The inductive invariant.  PhysicalIdsConsistent alone is not inductive: *)
(* a task releases the ids of the barriers it exhausts, and the ring stays *)
(* free of doubles only because a barrier that still has consumers holds   *)
(* the id it names (BarrierKeptUntilConsumed).                             *)
IndInv ==
    /\ WellFormed(fn)
    /\ legalize => fn.dynamic
    /\ ~fn.dynamic => numReal = limit
    /\ ~fn.dynamic => \A v \in Barrier : realId[v] \in 0..(limit - 1)
    /\ TypeOK
    /\ CountsNeverUnderflow
    /\ PhysicalIdsConsistent
    /\ BarrierKeptUntilConsumed

-----------------------------------------------------------------------------
(* Sequences that list a set in ascending order.                           *)

(* The lists of the numbers of S in ascending order: there is one.         *)
Ascents(S) ==
    {s \in [1..Cardinality(S) -> S] : \A i, j \in DOMAIN s : i < j => s[i] < s[j]}

LEMMA AscendingAscends ==
    ASSUME NEW S, IsFiniteSet(S), S \subseteq Int
    PROVE  Ascending(S) \in Ascents(S)
<1>1. /\ Ascending(S) \in [1..Cardinality(S) -> S]
      /\ \A i, j \in 1..Cardinality(S) : i < j <=> Ascending(S)[i] < Ascending(S)[j]
  BY AscendingLists DEF Enumerates
<1> QED BY <1>1 DEF Ascents

(* The list of a finite set of integers holds each element once: the ring  *)
(* that updateNextReal fills has no doubles and no gaps.                   *)
LEMMA AscendingBijection ==
    ASSUME NEW S, IsFiniteSet(S), NEW s \in Ascents(S), S \subseteq Int
    PROVE  /\ s \in Bijection(1..Cardinality(S), S)
           /\ Cardinality(S) \in Nat
<1>1. Cardinality(S) \in Nat
  BY FS_CardinalityType
<1>2. s \in [1..Cardinality(S) -> S]
  BY DEF Ascents
<1>3. ASSUME NEW i \in 1..Cardinality(S), NEW j \in 1..Cardinality(S), i < j
      PROVE  s[i] # s[j]
  <2>1. s[i] < s[j]
    BY <1>2, <1>3 DEF Ascents
  <2>2. s[i] \in Int /\ s[j] \in Int
    BY <1>2
  <2> QED BY <2>1, <2>2
<1>4. s \in Injection(1..Cardinality(S), S)
  <2>1. ASSUME NEW i \in 1..Cardinality(S), NEW j \in 1..Cardinality(S), i # j
        PROVE  s[i] # s[j]
    <3>1. i < j \/ j < i
      BY <1>1, <2>1
    <3> QED BY <1>3, <3>1
  <2> QED BY <1>2, <2>1 DEF Injection, IsInjective
<1>5. IsFiniteSet(1..Cardinality(S)) /\ Cardinality(1..Cardinality(S)) = Cardinality(S)
  BY <1>1, Ranges
<1>6. s \in Surjection(1..Cardinality(S), S)
  BY <1>4, <1>5, FS_Injection
<1> QED BY <1>1, <1>4, <1>6 DEF Bijection

(* The i-th element of the list has i - 1 smaller ones.                    *)
LEMMA AscendingRank ==
    ASSUME NEW S, IsFiniteSet(S), NEW s \in Ascents(S), S \subseteq Int,
           NEW i \in 1..Cardinality(S)
    PROVE  Cardinality({x \in S : x < s[i]}) = i - 1
<1> DEFINE n == Cardinality(S)
           below == {x \in S : x < s[i]}
           g == [j \in 1..(i - 1) |-> s[j]]
<1>1. n \in Nat /\ s \in [1..n -> S]
  BY FS_CardinalityType DEF Ascents
<1>2. s \in Injection(1..n, S) /\ s \in Surjection(1..n, S)
  BY AscendingBijection DEF Bijection
<1>3. \A j, k \in 1..n : j < k => s[j] < s[k]
  BY <1>1 DEF Ascents
<1>4. \A j \in 1..n : s[j] \in Int
  BY <1>1
<1>5. g \in [1..(i - 1) -> below]
  <2>1. ASSUME NEW j \in 1..(i - 1) PROVE s[j] \in below
    BY <1>1, <1>3
  <2> QED BY <2>1
<1>6. g \in Injection(1..(i - 1), below)
  <2>1. ASSUME NEW j \in 1..(i - 1), NEW k \in 1..(i - 1), g[j] = g[k] PROVE j = k
    <3>1. j \in 1..n /\ k \in 1..n /\ s[j] = s[k]
      BY <1>1, <2>1
    <3> QED BY <1>2, <3>1 DEF Injection, IsInjective
  <2> QED BY <1>5, <2>1 DEF Injection, IsInjective
<1>7. g \in Surjection(1..(i - 1), below)
  <2>1. ASSUME NEW x \in below PROVE \E j \in 1..(i - 1) : g[j] = x
    <3>1. PICK j \in 1..n : s[j] = x
      BY <1>2, <2>1 DEF Surjection
    <3>2. ~(i < j) /\ i # j
      BY <1>1, <1>3, <1>4, <2>1, <3>1
    <3>3. j \in 1..(i - 1)
      BY <1>1, <3>1, <3>2
    <3> QED BY <3>1, <3>3
  <2> QED BY <1>5, <2>1 DEF Surjection
<1>8. IsFiniteSet(1..(i - 1)) /\ Cardinality(1..(i - 1)) = i - 1
  <2>1. i - 1 \in Nat
    BY <1>1
  <2> QED BY <2>1, Ranges
<1>9. ExistsBijection(1..(i - 1), below)
  BY <1>6, <1>7 DEF Bijection, ExistsBijection
<1> QED BY <1>8, <1>9, FS_Bijection

(* The remap loop and the erase loop agree: the id that the remap of       *)
(* Shrink computes for a kept position is its place in the shorter vector. *)
LEMMA NewIdIsPosition ==
    ASSUME NEW n \in Nat, NEW removed \in SUBSET (0..(n - 1)),
           NEW ids \in Ascents((0..(n - 1)) \ removed),
           NEW i \in 1..Cardinality((0..(n - 1)) \ removed)
    PROVE  NewId(ids[i], removed) = i - 1
<1> DEFINE kept == (0..(n - 1)) \ removed
           r == ids[i]
           gone == {x \in removed : x < r}
<1>1. IsFiniteSet(kept) /\ kept \subseteq Int
  <2>1. IsFiniteSet(0..(n - 1))
    BY Ranges
  <2>2. IsFiniteSet(kept)
    BY <2>1, FS_Difference
  <2>3. kept \subseteq Int
    OBVIOUS
  <2> QED BY <2>2, <2>3
<1>2. Cardinality(kept) \in Nat /\ r \in kept
  BY <1>1, FS_CardinalityType DEF Ascents
<1>3. Cardinality({x \in kept : x < r}) = i - 1
  BY <1>1, AscendingRank
<1>4. r \in Nat /\ r < n /\ \A x \in removed : x \in Nat /\ x < n
  BY <1>2
<1>5. IsFiniteSet(0..(r - 1)) /\ Cardinality(0..(r - 1)) = r
  BY <1>4, Ranges
<1>6. /\ {x \in kept : x < r} = (0..(r - 1)) \ gone
      /\ (0..(r - 1)) \cap gone = gone
  <2> HIDE DEF r
  <2>1. \A x : x \in {y \in kept : y < r} <=> x \in (0..(r - 1)) \ gone
    BY <1>4
  <2>2. \A x \in gone : x \in 0..(r - 1)
    BY <1>4
  <2> QED BY <2>1, <2>2
<1>7. Cardinality((0..(r - 1)) \ gone) = r - Cardinality(gone)
  <2> HIDE DEF r, gone
  <2>1. Cardinality((0..(r - 1)) \ gone) = Cardinality(0..(r - 1)) - Cardinality((0..(r - 1)) \cap gone)
    BY <1>5, FS_Difference
  <2> QED BY <1>5, <1>6, <2>1
<1>8. IsFiniteSet(gone) /\ Cardinality(gone) \in Nat
  BY <1>5, <1>6, FS_Intersection, FS_CardinalityType
<1>9. r - Cardinality(gone) = i - 1
  <2> HIDE DEF r, gone
  <2>1. Cardinality((0..(r - 1)) \ gone) = i - 1
    BY <1>3, <1>6
  <2>2. i \in Int
    BY <1>2
  <2> QED BY <1>4, <1>7, <1>8, <2>1, <2>2
<1> QED BY <1>9 DEF NewId

-----------------------------------------------------------------------------
(* The function being simulated, in the names of the specification.        *)
LEMMA Shape ==
    ASSUME WellFormed(fn)
    PROVE  /\ fn.numBarriers \in Nat /\ fn.dynamic \in BOOLEAN
           /\ fn.fifo \in [Queue -> Seq(Task)]
           /\ fn.wait \in [Task -> SUBSET Barrier]
           /\ fn.update \in [Task -> SUBSET Barrier]
           /\ fn.count \in [Task -> Nat \ {0}]
BY DEF WellFormed, Task, Barrier

LEMMA HeadTaskIsTask ==
    ASSUME WellFormed(fn), TypeOK, HasHead
    PROVE  HeadTask \in Task
<1>1. fn.fifo[queue] \in Seq(Task) /\ head[queue] \in Nat
  BY Shape DEF TypeOK
<1>2. head[queue] + 1 \in 1..Len(fn.fifo[queue])
  BY <1>1 DEF HasHead
<1> QED BY <1>1, <1>2 DEF HeadTask

(* What every simulation starts from.                                      *)
LEMMA InitIndInv ==
    ASSUME Init
    PROVE  IndInv
<1>1. PICK f \in Programs, n \in Limits, mode \in Modes :
        (mode = "legalize" => f.dynamic) /\ Start(f, n, mode)
  BY DEF Init
<1>2. fn = f /\ WellFormed(fn) /\ limit = n /\ numReal = n /\ n \in Nat \ {0}
  BY <1>1, ProgramsAssumption, LimitsAssumption DEF Start
<1>3. /\ fn.numBarriers \in Nat /\ fn.dynamic \in BOOLEAN
      /\ producerCount \in [Barrier -> Nat] /\ consumerCount \in [Barrier -> Nat]
      /\ realId \in [Barrier -> Int]
      /\ \A v \in Barrier : IF fn.dynamic THEN realId[v] = Free ELSE realId[v] \in 0..(limit - 1)
  BY <1>1, <1>2 DEF Start, WellFormed, Barrier
<1>4. toVirtual = [r \in 0..(n - 1) |-> Free] /\ bar = 0
  BY <1>1 DEF Start
<1>5. /\ nextReal \in Seq(0..(n - 1))
      /\ fn.dynamic => nextReal = [i \in 1..n |-> i - 1]
  <2>1. nextReal = IF fn.dynamic THEN [i \in 1..n |-> i - 1] ELSE <<>>
    BY <1>1, <1>2 DEF Start, InitialRing
  <2>2. [i \in 1..n |-> i - 1] \in [1..n -> 0..(n - 1)]
    BY <1>2
  <2>3. [i \in 1..n |-> i - 1] \in Seq(0..(n - 1))
    BY <1>2, <2>2
  <2>4. <<>> \in Seq(0..(n - 1))
    OBVIOUS
  <2> QED BY <2>1, <2>3, <2>4
<1>6. TypeOK
  <2>1. queue \in Queue /\ head \in [Queue -> Nat]
    BY <1>1, NumDmaAssumption DEF Start, Queue, UPA
  <2>2. /\ multiDone = {} /\ batches = <<>> /\ progressed = FALSE /\ phase = "round"
        /\ legalize \in BOOLEAN
    BY <1>1 DEF Start
  <2>3. toVirtual \in [0..(numReal - 1) -> Barrier \cup {Free}]
    BY <1>2, <1>4
  <2>4. bar \in 0..fn.numBarriers
    BY <1>3, <1>4
  <2>5. producerCount \in [Barrier -> Int] /\ consumerCount \in [Barrier -> Int]
    BY <1>3
  <2>6. batches \in Seq(SUBSET (Barrier \cup {Free})) /\ multiDone \subseteq DOMAIN fn.multi
    BY <2>2
  <2> QED BY <1>2, <1>3, <1>5, <2>1, <2>2, <2>3, <2>4, <2>5, <2>6 DEF TypeOK
<1>7. CountsNeverUnderflow
  BY <1>3 DEF CountsNeverUnderflow
<1>8. PhysicalIdsConsistent
  <2>1. ASSUME fn.dynamic, NEW r \in 0..(n - 1) PROVE \E i \in DOMAIN nextReal : nextReal[i] = r
    <3>1. r + 1 \in 1..n /\ r + 1 - 1 = r
      BY <1>2
    <3> QED BY <1>5, <2>1, <3>1
  <2>2. ASSUME fn.dynamic, NEW i \in DOMAIN nextReal
        PROVE  nextReal[i] = i - 1 /\ i \in 1..n
    BY <1>2, <1>5, <2>2
  <2> QED BY <1>2, <1>4, <2>1, <2>2 DEF PhysicalIdsConsistent
<1>9. BarrierKeptUntilConsumed
  BY <1>2, <1>3, <1>4 DEF BarrierKeptUntilConsumed, Barrier, Free
<1>10. legalize => fn.dynamic
  BY <1>1, <1>2 DEF Start
<1> QED BY <1>2, <1>3, <1>6, <1>7, <1>8, <1>9, <1>10 DEF IndInv

-----------------------------------------------------------------------------
(* A step that leaves the input, the pool and the counters alone keeps     *)
(* whatever is said about them.                                            *)
LEMMA QuietStep ==
    ASSUME IndInv, UNCHANGED <<inputVars, physVars, countVars, bar>>, TypeOK'
    PROVE  IndInv'
<1>1. /\ UNCHANGED <<fn, limit, legalize, numReal, toVirtual, nextReal, realId>>
      /\ UNCHANGED <<producerCount, consumerCount, bar>>
  BY DEF inputVars, physVars, countVars
<1>2. WellFormed(fn)' /\ Barrier' = Barrier
  BY <1>1 DEF IndInv, WellFormed, Barrier
<1>3. CountsNeverUnderflow' /\ PhysicalIdsConsistent' /\ BarrierKeptUntilConsumed'
  BY <1>1, <1>2 DEF IndInv, CountsNeverUnderflow, PhysicalIdsConsistent, BarrierKeptUntilConsumed
<1> QED BY <1>1, <1>2, <1>3 DEF IndInv

(* The steps that only move the control of simulateBarriers.               *)
LEMMA ControlSteps ==
    ASSUME IndInv,
           \/ StartRound \/ Finish \/ EndMapping \/ PassOverProcessedDma
           \/ RunFails \/ LeaveQueue \/ ThrowNotProgressed \/ SimulationBlocked
           \/ NextRound \/ UNCHANGED vars
    PROVE  IndInv'
<1> USE DEF IndInv
<1>a. /\ TypeOK /\ WellFormed(fn) /\ 0 \in Queue
      /\ \A q \in Queue : q # UPA => q + 1 \in Queue
  BY NumDmaAssumption DEF Queue, UPA
<1> DEFINE Rest == UNCHANGED <<inputVars, physVars, countVars, bar>>
<1>1. CASE StartRound
  <2>1. Rest /\ UNCHANGED <<head, multiDone, batches, queue>> /\ progressed' = FALSE /\ phase' = "map"
    BY <1>1 DEF StartRound
  <2>2. TypeOK'
    BY <1>a, <2>1 DEF TypeOK, Barrier, inputVars, physVars, countVars
  <2> QED BY <2>1, <2>2, QuietStep
<1>2. CASE Finish \/ RunFails \/ ThrowNotProgressed \/ SimulationBlocked \/ NextRound
  <2>1. /\ Rest /\ UNCHANGED <<head, multiDone, batches, queue, progressed>>
        /\ phase' \in {"success", "failure", "throw", "round"}
    BY <1>2 DEF Finish, RunFails, ThrowNotProgressed, SimulationBlocked, NextRound
  <2>2. TypeOK'
    BY <1>a, <2>1 DEF TypeOK, Barrier, inputVars, physVars, countVars
  <2> QED BY <2>1, <2>2, QuietStep
<1>3. CASE EndMapping
  <2>1. /\ Rest /\ UNCHANGED <<head, multiDone, progressed>> /\ queue' = 0
        /\ phase' \in {"throw", "run"}
        /\ batches' = batches \/ batches' = ExtendedBatches
    BY <1>3 DEF EndMapping
  <2>2. ExtendedBatches \in Seq(SUBSET (Barrier \cup {Free}))
    <3> DEFINE B == SUBSET (Barrier \cup {Free})
    <3>1. batches \in Seq(B) /\ Active \in B
      BY <1>a DEF TypeOK, Active
    <3>2. Append(batches, Active) \in Seq(B)
      BY <3>1
    <3>3. ASSUME batches # <<>>
          PROVE  [batches EXCEPT ![Len(batches)] = @ \cup Active] \in Seq(B)
      <4> HIDE DEF B
      <4>1. Len(batches) \in 1..Len(batches) /\ batches \in [1..Len(batches) -> B]
        BY <3>1, <3>3
      <4>2. batches[Len(batches)] \cup Active \in B
        BY <3>1, <4>1 DEF B
      <4>3. [batches EXCEPT ![Len(batches)] = @ \cup Active] \in [1..Len(batches) -> B]
        BY <4>1, <4>2
      <4> QED BY <3>1, <4>3
    <3> QED BY <3>2, <3>3 DEF ExtendedBatches
  <2>3. TypeOK'
    BY <1>a, <2>1, <2>2 DEF TypeOK, Barrier, inputVars, physVars, countVars
  <2> QED BY <2>1, <2>3, QuietStep
<1>4. CASE PassOverProcessedDma
  <2>1. /\ Rest /\ UNCHANGED <<multiDone, batches, queue, phase>>
        /\ progressed' = TRUE /\ head' = [head EXCEPT ![queue] = @ + 1]
    BY <1>4 DEF PassOverProcessedDma, Advance, physVars
  <2>2. TypeOK'
    BY <1>a, <2>1 DEF TypeOK, Barrier, inputVars, physVars, countVars
  <2> QED BY <2>1, <2>2, QuietStep
<1>5. CASE LeaveQueue
  <2>1. /\ Rest /\ UNCHANGED <<head, multiDone, batches, progressed>>
        /\ (queue' = queue) \/ (queue # UPA /\ queue' = queue + 1)
        /\ (phase' = phase) \/ (phase' = "adjust")
    BY <1>5 DEF LeaveQueue
  <2>2. TypeOK'
    BY <1>a, <2>1 DEF TypeOK, Barrier, inputVars, physVars, countVars
  <2> QED BY <2>1, <2>2, QuietStep
<1>6. CASE UNCHANGED vars
  <2>1. Rest /\ UNCHANGED <<head, multiDone, batches, progressed, queue, phase>>
    BY <1>6 DEF vars
  <2>2. TypeOK'
    BY <1>a, <2>1 DEF TypeOK, Barrier, inputVars, physVars, countVars
  <2> QED BY <2>1, <2>2, QuietStep
<1> QED BY <1>1, <1>2, <1>3, <1>4, <1>5, <1>6

(* A barrier takes the oldest free id, or its own.                         *)
LEMMA MapBarrierStep ==
    ASSUME IndInv, MapBarrier
    PROVE  IndInv'
<1> USE DEF IndInv
<1> DEFINE r == IF fn.dynamic THEN Head(nextReal) ELSE realId[bar]
<1>1. /\ bar < fn.numBarriers /\ HasBarriersToMap
      /\ nextReal' = (IF fn.dynamic THEN Tail(nextReal) ELSE nextReal)
      /\ realId' = [realId EXCEPT ![bar] = r]
      /\ toVirtual' = [toVirtual EXCEPT ![r] = bar]
      /\ bar' = bar + 1 /\ progressed' = TRUE
      /\ UNCHANGED <<fn, limit, legalize, numReal, producerCount, consumerCount>>
      /\ UNCHANGED <<head, multiDone, batches, queue, phase>>
  BY DEF MapBarrier, inputVars, countVars
<1>2. /\ fn.numBarriers \in Nat /\ fn.dynamic \in BOOLEAN /\ bar \in Barrier
      /\ bar \in Nat /\ numReal \in Nat
      /\ Barrier' = Barrier
  BY <1>1, Shape DEF TypeOK, Barrier
<1>3. fn.dynamic => /\ nextReal # <<>>
                    /\ Head(nextReal) = nextReal[1]
                    /\ Len(Tail(nextReal)) = Len(nextReal) - 1
                    /\ Len(nextReal) \in Nat \ {0}
                    /\ \A i \in 1..(Len(nextReal) - 1) : Tail(nextReal)[i] = nextReal[i + 1]
  BY <1>1 DEF HasBarriersToMap, TypeOK
<1>4. r \in 0..(numReal - 1) /\ toVirtual[r] = Free
  <2>1. CASE fn.dynamic
    <3>1. 1 \in DOMAIN nextReal /\ nextReal[1] \in 0..(numReal - 1)
      BY <1>3, <2>1 DEF TypeOK
    <3> QED BY <1>3, <2>1, <3>1 DEF PhysicalIdsConsistent
  <2>2. CASE ~fn.dynamic
    BY <1>1, <1>2, <2>2 DEF HasBarriersToMap
  <2> QED BY <2>1, <2>2
<1>5. TypeOK'
  <2>1. nextReal' \in Seq(0..(numReal - 1))
    <3>1. nextReal \in Seq(0..(numReal - 1))
      BY DEF TypeOK
    <3>2. nextReal # <<>> => Tail(nextReal) \in Seq(0..(numReal - 1))
      BY <3>1
    <3> QED BY <1>1, <1>3, <3>1, <3>2
  <2>2. toVirtual' \in [0..(numReal - 1) -> Barrier \cup {Free}]
    BY <1>1, <1>2, <1>4 DEF TypeOK
  <2>3. realId' \in [Barrier -> Int]
    BY <1>1, <1>2, <1>4 DEF TypeOK
  <2>4. bar' \in 0..fn.numBarriers
    BY <1>1, <1>2 DEF TypeOK
  <2> QED BY <1>1, <1>2, <2>1, <2>2, <2>3, <2>4 DEF TypeOK
<1>6. PhysicalIdsConsistent'
  <2> HIDE DEF r
  <2>1. ASSUME NEW x \in 0..(numReal - 1), toVirtual'[x] # Free
        PROVE  realId'[toVirtual'[x]] = x
    <3>1. CASE x = r
      BY <1>1, <1>2, <1>4, <3>1 DEF TypeOK
    <3>2. CASE x # r
      <4>1. toVirtual'[x] = toVirtual[x] /\ toVirtual[x] \in Barrier /\ toVirtual[x] < bar
        BY <1>1, <2>1, <3>2 DEF TypeOK, BarrierKeptUntilConsumed
      <4>2. realId[toVirtual[x]] = x
        BY <2>1, <4>1 DEF PhysicalIdsConsistent
      <4> QED BY <1>1, <1>2, <4>1, <4>2 DEF TypeOK
    <3> QED BY <3>1, <3>2
  <2>2. ASSUME fn.dynamic
        PROVE  /\ \A i, j \in DOMAIN nextReal' : nextReal'[i] = nextReal'[j] => i = j
               /\ \A i \in DOMAIN nextReal' : toVirtual'[nextReal'[i]] = Free
               /\ \A x \in 0..(numReal - 1) :
                    toVirtual'[x] = Free => \E i \in DOMAIN nextReal' : nextReal'[i] = x
    <3>1. /\ DOMAIN nextReal' = 1..(Len(nextReal) - 1) /\ DOMAIN nextReal = 1..Len(nextReal)
          /\ \A i \in DOMAIN nextReal' : nextReal'[i] = nextReal[i + 1] /\ i + 1 \in DOMAIN nextReal
          /\ r = nextReal[1] /\ 1 \in DOMAIN nextReal
      BY <1>1, <1>3, <2>2 DEF TypeOK, r
    <3>2. \A i, j \in DOMAIN nextReal : nextReal[i] = nextReal[j] => i = j
      BY <2>2 DEF PhysicalIdsConsistent
    <3>3. \A i \in DOMAIN nextReal' : nextReal'[i] # r /\ nextReal'[i] \in 0..(numReal - 1)
      <4>1. ASSUME NEW i \in DOMAIN nextReal' PROVE nextReal'[i] # r
        <5>1. i + 1 \in DOMAIN nextReal /\ 1 \in DOMAIN nextReal /\ i + 1 # 1
          BY <1>3, <2>2, <3>1
        <5> QED BY <3>1, <3>2, <5>1
      <4>2. \A i \in DOMAIN nextReal : nextReal[i] \in 0..(numReal - 1)
        BY DEF TypeOK
      <4> QED BY <3>1, <4>1, <4>2
    <3>4. \A i, j \in DOMAIN nextReal' : nextReal'[i] = nextReal'[j] => i = j
      BY <3>1, <3>2
    <3>5. \A i \in DOMAIN nextReal' : toVirtual'[nextReal'[i]] = Free
      <4>1. \A i \in DOMAIN nextReal' : toVirtual[nextReal'[i]] = Free
        BY <2>2, <3>1 DEF PhysicalIdsConsistent
      <4> QED BY <1>1, <3>3, <4>1 DEF TypeOK
    <3>6. ASSUME NEW x \in 0..(numReal - 1), toVirtual'[x] = Free
          PROVE  \E i \in DOMAIN nextReal' : nextReal'[i] = x
      <4>1. x # r /\ toVirtual[x] = Free
        BY <1>1, <1>2, <1>4, <3>6 DEF TypeOK, Free
      <4>2. PICK i \in DOMAIN nextReal : nextReal[i] = x
        BY <2>2, <4>1 DEF PhysicalIdsConsistent
      <4>3. i - 1 \in DOMAIN nextReal' /\ nextReal'[i - 1] = x
        BY <1>3, <2>2, <3>1, <4>1, <4>2
      <4> QED BY <4>3
    <3> QED BY <3>4, <3>5, <3>6
  <2> QED BY <1>1, <2>1, <2>2 DEF PhysicalIdsConsistent
<1>7. BarrierKeptUntilConsumed'
  <2> HIDE DEF r
  <2>1. \A x \in 0..(numReal - 1) : toVirtual'[x] < bar'
    <3>1. \A x \in 0..(numReal - 1) : toVirtual[x] < bar /\ toVirtual[x] \in Int
      BY <1>2 DEF TypeOK, BarrierKeptUntilConsumed, Barrier, Free
    <3> QED BY <1>1, <1>2, <3>1 DEF TypeOK
  <2>2. ASSUME NEW v \in Barrier, v < bar', consumerCount[v] > 0
        PROVE  realId'[v] \in 0..(numReal - 1) /\ toVirtual'[realId'[v]] = v
    <3>1. CASE v = bar
      BY <1>1, <1>2, <1>4, <3>1 DEF TypeOK
    <3>2. CASE v # bar
      <4>1. v < bar /\ realId'[v] = realId[v]
        BY <1>1, <1>2, <2>2, <3>2 DEF TypeOK, Barrier
      <4>2. realId[v] \in 0..(numReal - 1) /\ toVirtual[realId[v]] = v
        BY <2>2, <4>1 DEF BarrierKeptUntilConsumed
      <4>3. realId[v] # r
        BY <1>4, <4>2 DEF Barrier, Free
      <4> QED BY <1>1, <4>1, <4>2, <4>3 DEF TypeOK
    <3> QED BY <3>1, <3>2
  <2>3. ASSUME NEW v \in Barrier, ~(v < bar'), fn.dynamic
        PROVE  realId'[v] = Free
    <3>1. v # bar /\ ~(v < bar)
      BY <1>1, <1>2, <2>3 DEF Barrier
    <3> QED BY <1>1, <1>2, <2>3, <3>1 DEF TypeOK, BarrierKeptUntilConsumed
  <2> QED BY <1>1, <1>2, <2>1, <2>2, <2>3 DEF BarrierKeptUntilConsumed
<1>8. CountsNeverUnderflow'
  BY <1>1, <1>2 DEF CountsNeverUnderflow
<1>9. /\ WellFormed(fn)' /\ (legalize => fn.dynamic)'
      /\ (~fn.dynamic => numReal = limit)'
      /\ (~fn.dynamic => \A v \in Barrier : realId[v] \in 0..(limit - 1))'
  BY <1>1, <1>2, <1>4 DEF WellFormed, TypeOK
<1> QED BY <1>5, <1>6, <1>7, <1>8, <1>9

(* A task that waits and updates: the barriers it exhausts give their ids  *)
(* back, each to a place of its own in the ring.                           *)
LEMMA ExecuteStep ==
    ASSUME IndInv, NEW t \in Task, ~Blocked(t), CountsSuffice(t), Execute(t),
           UNCHANGED <<inputVars, numReal, realId, bar>>
    PROVE  /\ toVirtual' \in [0..(numReal - 1) -> Barrier \cup {Free}]
           /\ nextReal' \in Seq(0..(numReal - 1))
           /\ producerCount' \in [Barrier -> Int] /\ consumerCount' \in [Barrier -> Int]
           /\ CountsNeverUnderflow'
           /\ PhysicalIdsConsistent'
           /\ BarrierKeptUntilConsumed'
<1> USE DEF IndInv
<1> DEFINE E == Exhausted(t)
           n == fn.count[t]
<1>1. /\ UNCHANGED <<fn, limit, legalize, numReal, realId, bar>>
      /\ Barrier' = Barrier
  BY DEF inputVars, Barrier
<1>2. /\ fn.wait[t] \subseteq Barrier /\ fn.update[t] \subseteq Barrier /\ n \in Nat \ {0}
      /\ fn.numBarriers \in Nat /\ numReal \in Nat
      /\ toVirtual \in [0..(numReal - 1) -> Barrier \cup {Free}]
      /\ nextReal \in Seq(0..(numReal - 1))
      /\ producerCount \in [Barrier -> Int] /\ consumerCount \in [Barrier -> Int]
  BY Shape DEF TypeOK
<1>3. /\ producerCount' = [v \in Barrier |->
                IF v \in fn.update[t] THEN producerCount[v] - n ELSE producerCount[v]]
      /\ consumerCount' = [v \in Barrier |->
                IF v \in fn.wait[t] THEN consumerCount[v] - n ELSE consumerCount[v]]
  BY DEF Execute, Minus
<1>4. /\ \A v \in fn.update[t] : producerCount[v] >= n
      /\ \A v \in fn.wait[t] : consumerCount[v] >= n
  BY DEF CountsSuffice
<1>5. /\ producerCount' \in [Barrier -> Int] /\ consumerCount' \in [Barrier -> Int]
      /\ CountsNeverUnderflow'
  <2> HIDE DEF n
  <2>1. \A v \in Barrier : producerCount'[v] \in Int /\ consumerCount'[v] \in Int
    BY <1>2, <1>3
  <2>2. \A v \in Barrier : producerCount'[v] >= 0 /\ consumerCount'[v] >= 0
    BY <1>2, <1>3, <1>4 DEF CountsNeverUnderflow
  <2> QED BY <1>1, <1>2, <1>3, <2>1, <2>2 DEF CountsNeverUnderflow
<1>6. \A v \in E : /\ v \in Barrier /\ v \in fn.wait[t] /\ consumerCount[v] = n
                   /\ realId[v] \in 0..(numReal - 1) /\ toVirtual[realId[v]] = v
  <2>1. ASSUME NEW v \in E
        PROVE  realId[v] \in 0..(numReal - 1) /\ toVirtual[realId[v]] = v
    <3>1. v \in fn.wait[t] /\ v \in Barrier /\ consumerCount[v] > 0 /\ IsBarrierMapped(v)
      BY <1>2 DEF Exhausted, Blocked
    <3>2. realId[v] \in 0..(numReal - 1) /\ (fn.dynamic \/ toVirtual[realId[v]] = v)
      BY <3>1 DEF IsBarrierMapped
    <3>3. fn.dynamic => v < bar
      BY <1>2, <3>1, <3>2 DEF BarrierKeptUntilConsumed, Free, Barrier
    <3> QED BY <3>1, <3>2, <3>3 DEF BarrierKeptUntilConsumed
  <2> QED BY <1>2, <2>1 DEF Exhausted
<1>7. toVirtual' = [r \in 0..(numReal - 1) |->
                        IF \E v \in E : realId[v] = r THEN Free ELSE toVirtual[r]]
  BY DEF Execute, Vacated
<1>8. toVirtual' \in [0..(numReal - 1) -> Barrier \cup {Free}]
  BY <1>2, <1>7
<1> HIDE DEF E
<1>9. ASSUME NEW r \in 0..(numReal - 1), toVirtual'[r] # Free
      PROVE  toVirtual'[r] = toVirtual[r] /\ toVirtual[r] \notin E
  <2>1. toVirtual'[r] = toVirtual[r] /\ ~\E v \in E : realId[v] = r
    BY <1>7, <1>9
  <2>2. realId[toVirtual[r]] = r
    BY <1>9, <2>1 DEF PhysicalIdsConsistent
  <2> QED BY <2>1, <2>2
<1>10. BarrierKeptUntilConsumed'
  <2>1. \A r \in 0..(numReal - 1) : toVirtual'[r] < bar
    <3>1. 0 <= bar
      BY DEF TypeOK
    <3> QED BY <1>7, <3>1 DEF BarrierKeptUntilConsumed, Free, TypeOK
  <2>2. ASSUME NEW v \in Barrier, v < bar, consumerCount'[v] > 0
        PROVE  realId[v] \in 0..(numReal - 1) /\ toVirtual'[realId[v]] = v
    <3>1. consumerCount[v] > 0 /\ v \notin E
      BY <1>2, <1>3, <1>6, <2>2
    <3>2. realId[v] \in 0..(numReal - 1) /\ toVirtual[realId[v]] = v
      BY <2>2, <3>1 DEF BarrierKeptUntilConsumed
    <3>3. ~\E w \in E : realId[w] = realId[v]
      BY <1>6, <3>1, <3>2
    <3> QED BY <1>7, <3>2, <3>3
  <2> QED BY <1>1, <2>1, <2>2 DEF BarrierKeptUntilConsumed
<1>11. CASE ~fn.dynamic
  <2>1. nextReal' = nextReal
    BY <1>11 DEF Execute
  <2>2. PhysicalIdsConsistent'
    BY <1>1, <1>9, <1>11 DEF PhysicalIdsConsistent
  <2> QED BY <1>2, <1>5, <1>8, <1>10, <2>1, <2>2
<1>12. CASE fn.dynamic
  <2>1. PICK order \in SetToSeqs(E) :
            nextReal' = nextReal \o [i \in DOMAIN order |-> realId[order[i]]]
    BY <1>12 DEF Execute, E
  <2> DEFINE k == Cardinality(E)
             L == Len(nextReal)
             tail == [i \in DOMAIN order |-> realId[order[i]]]
  <2>2. IsFiniteSet(E) /\ k \in Nat /\ IsFiniteSet(1..k) /\ Cardinality(1..k) = k
    <3>1. IsFiniteSet(Barrier)
      BY <1>2, Ranges DEF Barrier
    <3>2. E \in SUBSET Barrier
      BY <1>6
    <3>3. IsFiniteSet(E)
      BY <3>1, <3>2, FS_Subset
    <3>4. k \in Nat
      BY <3>3, FS_CardinalityType
    <3> QED BY <3>3, <3>4, Ranges
  <2>3. order \in [1..k -> E] /\ \A i, j \in 1..k : i # j => order[i] # order[j]
    BY DEF SetToSeqs
  <2>4. \A v \in E : \E i \in 1..k : order[i] = v
    <3>1. order \in Injection(1..k, E)
      BY <2>3 DEF Injection, IsInjective
    <3>2. order \in Surjection(1..k, E)
      BY <2>2, <3>1, FS_Injection
    <3> QED BY <3>2 DEF Surjection
  <2> HIDE DEF k
  <2>5. /\ tail \in Seq(0..(numReal - 1)) /\ Len(tail) = k
        /\ \A i \in 1..k : tail[i] = realId[order[i]] /\ tail[i] \in 0..(numReal - 1)
    <3>1. tail \in [1..k -> 0..(numReal - 1)]
      BY <1>6, <2>3
    <3> QED BY <2>2, <2>3, <3>1
  <2> HIDE DEF tail
  <2>6. /\ nextReal' \in Seq(0..(numReal - 1)) /\ L \in Nat
        /\ DOMAIN nextReal' = 1..(L + k)
        /\ \A i \in 1..L : nextReal'[i] = nextReal[i]
        /\ \A i \in 1..k : nextReal'[L + i] = tail[i]
    BY <1>2, <2>1, <2>2, <2>5 DEF tail
  <2>7. \A i \in DOMAIN nextReal' : i \in 1..L \/ \E j \in 1..k : i = L + j
    <3>1. ASSUME NEW i \in 1..(L + k), i \notin 1..L PROVE i - L \in 1..k /\ i = L + (i - L)
      BY <2>2, <2>6, <3>1
    <3> QED BY <2>6, <3>1
  <2>8. /\ \A i, j \in 1..L : nextReal[i] = nextReal[j] => i = j
        /\ \A i \in 1..L : toVirtual[nextReal[i]] = Free /\ nextReal[i] \in 0..(numReal - 1)
        /\ \A r \in 0..(numReal - 1) : toVirtual[r] = Free => \E i \in 1..L : nextReal[i] = r
    BY <1>2, <1>12 DEF PhysicalIdsConsistent
  <2>9. \A i \in 1..k : toVirtual[tail[i]] # Free /\ toVirtual[tail[i]] = order[i]
    BY <1>6, <2>3, <2>5 DEF Barrier, Free
  <2>10. \A i, j \in DOMAIN nextReal' : nextReal'[i] = nextReal'[j] => i = j
    <3>1. \A i \in 1..L, j \in 1..k : nextReal'[i] # nextReal'[L + j]
      BY <2>6, <2>8, <2>9
    <3>2. \A i, j \in 1..k : nextReal'[L + i] = nextReal'[L + j] => i = j
      BY <2>3, <2>6, <2>9
    <3>3. \A i, j \in 1..L : nextReal'[i] = nextReal'[j] => i = j
      BY <2>6, <2>8
    <3> QED BY <2>7, <3>1, <3>2, <3>3
  <2>11. \A i \in DOMAIN nextReal' : toVirtual'[nextReal'[i]] = Free
    <3>1. \A i \in 1..L : toVirtual'[nextReal'[i]] = Free
      BY <1>7, <2>6, <2>8
    <3>2. ASSUME NEW i \in 1..k PROVE toVirtual'[nextReal'[L + i]] = Free
      <4>1. order[i] \in E /\ realId[order[i]] = tail[i] /\ tail[i] \in 0..(numReal - 1)
        BY <2>3, <2>5
      <4> QED BY <1>7, <2>6, <4>1
    <3> QED BY <2>7, <3>1, <3>2
  <2>12. ASSUME NEW r \in 0..(numReal - 1), toVirtual'[r] = Free
         PROVE  \E i \in DOMAIN nextReal' : nextReal'[i] = r
    <3>1. CASE toVirtual[r] = Free
      <4>1. PICK i \in 1..L : nextReal[i] = r
        BY <2>8, <3>1
      <4> QED BY <2>2, <2>6, <4>1
    <3>2. CASE toVirtual[r] # Free
      <4>1. PICK v \in E : realId[v] = r
        BY <1>7, <2>12, <3>2
      <4>2. PICK i \in 1..k : order[i] = v
        BY <2>4
      <4>3. nextReal'[L + i] = r /\ L + i \in DOMAIN nextReal'
        BY <2>2, <2>5, <2>6, <4>1, <4>2
      <4> QED BY <4>3
    <3> QED BY <3>1, <3>2
  <2>13. \A r \in 0..(numReal - 1) : toVirtual'[r] # Free => realId[toVirtual'[r]] = r
    BY <1>9 DEF PhysicalIdsConsistent
  <2>14. PhysicalIdsConsistent'
    BY <1>1, <2>10, <2>11, <2>12, <2>13 DEF PhysicalIdsConsistent
  <2> QED BY <1>5, <1>8, <1>10, <2>6, <2>14
<1> QED BY <1>2, <1>11, <1>12

LEMMA RunTaskStep ==
    ASSUME IndInv, RunTask
    PROVE  IndInv'
<1> USE DEF IndInv
<1>1. /\ HeadTask \in Task /\ ~Blocked(HeadTask) /\ CountsSuffice(HeadTask)
      /\ Execute(HeadTask)
      /\ UNCHANGED <<inputVars, numReal, realId, bar, batches, queue, phase>>
      /\ progressed' = TRUE /\ head' = [head EXCEPT ![queue] = @ + 1]
  BY HeadTaskIsTask DEF RunTask, Advance
<1>2. multiDone' \subseteq DOMAIN fn.multi
  <2>1. PICK entry \in Registered : multiDone' = multiDone \cup entry
    BY DEF RunTask
  <2>2. entry \subseteq DOMAIN fn.multi
    BY DEF Registered
  <2> QED BY <2>1, <2>2 DEF TypeOK
<1>3. /\ toVirtual' \in [0..(numReal - 1) -> Barrier \cup {Free}]
      /\ nextReal' \in Seq(0..(numReal - 1))
      /\ producerCount' \in [Barrier -> Int] /\ consumerCount' \in [Barrier -> Int]
      /\ CountsNeverUnderflow' /\ PhysicalIdsConsistent' /\ BarrierKeptUntilConsumed'
  <2> HIDE DEF IndInv
  <2> QED BY <1>1, ExecuteStep
<1>4. /\ UNCHANGED <<fn, limit, legalize, numReal, realId>> /\ Barrier' = Barrier
  BY <1>1 DEF inputVars, Barrier
<1>5. TypeOK'
  BY <1>1, <1>2, <1>3, <1>4 DEF TypeOK
<1>6. /\ WellFormed(fn)' /\ (legalize => fn.dynamic)'
      /\ (~fn.dynamic => numReal = limit)'
      /\ (~fn.dynamic => \A v \in Barrier : realId[v] \in 0..(limit - 1))'
  BY <1>4 DEF WellFormed
<1> QED BY <1>3, <1>5, <1>6

-----------------------------------------------------------------------------
LEMMA RingAscends ==
    ASSUME NEW n \in Nat, NEW map
    PROVE  Ascending(FreeIds(n, map)) \in Ascents(FreeIds(n, map))
<1>1. IsFiniteSet(0..(n - 1)) /\ FreeIds(n, map) \in SUBSET (0..(n - 1))
  BY Ranges DEF FreeIds
<1>2. IsFiniteSet(FreeIds(n, map)) /\ FreeIds(n, map) \subseteq Int
  BY <1>1, FS_Subset
<1> QED BY <1>2, AscendingAscends

(* The ring after updateNextReal: as many places as the pool has ids.      *)
LEMMA RingRefilled ==
    ASSUME NEW n \in Nat, NEW map \in [0..(n - 1) -> Int], NEW ring \in Ascents(FreeIds(n, map))
    PROVE  /\ ring \in Seq(0..(n - 1))
           /\ \A i, j \in DOMAIN ring : ring[i] = ring[j] => i = j
           /\ \A i \in DOMAIN ring : map[ring[i]] = Free
           /\ \A r \in 0..(n - 1) : map[r] = Free => \E i \in DOMAIN ring : ring[i] = r
<1> DEFINE F == FreeIds(n, map)
           k == Cardinality(F)
<1>1. F = {r \in 0..(n - 1) : map[r] = Free}
  BY DEF FreeIds
<1>2. IsFiniteSet(F) /\ F \subseteq Int /\ F \subseteq 0..(n - 1)
  <2>1. IsFiniteSet(0..(n - 1))
    BY Ranges
  <2>2. F \in SUBSET (0..(n - 1))
    BY <1>1
  <2> QED BY <2>1, <2>2, FS_Subset
<1>3. ring \in Bijection(1..k, F) /\ k \in Nat
  BY <1>2, AscendingBijection
<1> HIDE DEF F, k
<1>4. /\ ring \in [1..k -> F]
      /\ \A i, j \in 1..k : ring[i] = ring[j] => i = j
      /\ \A r \in F : \E i \in 1..k : ring[i] = r
  BY <1>3 DEF Bijection, Injection, Surjection, IsInjective
<1>5. ring \in Seq(0..(n - 1))
  <2>1. ring \in [1..k -> 0..(n - 1)]
    BY <1>2, <1>4
  <2> QED BY <1>3, <2>1
<1> QED BY <1>1, <1>4, <1>5

LEMMA GrowStep ==
    ASSUME IndInv, Grow
    PROVE  IndInv'
<1> USE DEF IndInv
<1>1. /\ legalize /\ fn.dynamic /\ numReal' = numReal + 1
      /\ toVirtual' = [r \in 0..numReal |-> IF r = numReal THEN Free ELSE toVirtual[r]]
      /\ nextReal' = Ascending(FreeIds(numReal', toVirtual'))
      /\ progressed' = TRUE /\ phase' = "round"
      /\ UNCHANGED <<fn, limit, legalize, realId, producerCount, consumerCount, bar>>
      /\ UNCHANGED <<head, multiDone, batches, queue>>
  BY DEF Grow, RefillRing, inputVars, countVars
<1>2. /\ numReal \in Nat /\ numReal' \in Nat /\ numReal' - 1 = numReal /\ Barrier' = Barrier
      /\ toVirtual \in [0..(numReal - 1) -> Barrier \cup {Free}]
      /\ \A r \in 0..(numReal' - 1) : r = numReal \/ r \in 0..(numReal - 1)
      /\ numReal \in 0..(numReal' - 1) /\ 0..(numReal - 1) \subseteq 0..(numReal' - 1)
  BY <1>1 DEF TypeOK, Barrier
<1>3. toVirtual' \in [0..(numReal' - 1) -> Barrier \cup {Free}]
  BY <1>1, <1>2
<1>4. toVirtual' \in [0..(numReal' - 1) -> Int]
  BY <1>3 DEF Barrier, Free
<1>5. /\ nextReal' \in Seq(0..(numReal' - 1))
      /\ \A i, j \in DOMAIN nextReal' : nextReal'[i] = nextReal'[j] => i = j
      /\ \A i \in DOMAIN nextReal' : toVirtual'[nextReal'[i]] = Free
      /\ \A r \in 0..(numReal' - 1) :
            toVirtual'[r] = Free => \E i \in DOMAIN nextReal' : nextReal'[i] = r
  <2> DEFINE n == numReal'
             map == toVirtual'
             ring == nextReal'
  <2>1. n \in Nat /\ map \in [0..(n - 1) -> Int] /\ ring \in Ascents(FreeIds(n, map))
    BY <1>1, <1>2, <1>4, RingAscends
  <2> HIDE DEF n, map, ring
  <2>2. /\ ring \in Seq(0..(n - 1))
        /\ \A i, j \in DOMAIN ring : ring[i] = ring[j] => i = j
        /\ \A i \in DOMAIN ring : map[ring[i]] = Free
        /\ \A r \in 0..(n - 1) : map[r] = Free => \E i \in DOMAIN ring : ring[i] = r
    BY <2>1, RingRefilled
  <2> QED BY <2>2 DEF n, map, ring
<1>6. TypeOK'
  BY <1>1, <1>2, <1>3, <1>5 DEF TypeOK
<1>7. PhysicalIdsConsistent'
  <2>1. \A r \in 0..(numReal' - 1) : toVirtual'[r] # Free => realId'[toVirtual'[r]] = r
    BY <1>1, <1>2 DEF PhysicalIdsConsistent
  <2> QED BY <1>5, <2>1 DEF PhysicalIdsConsistent
<1>8. BarrierKeptUntilConsumed'
  <2>1. \A r \in 0..(numReal' - 1) : toVirtual'[r] < bar'
    <3>1. Free < bar
      BY DEF TypeOK, Free
    <3> QED BY <1>1, <1>2, <3>1 DEF BarrierKeptUntilConsumed
  <2>2. ASSUME NEW v \in Barrier, v < bar, consumerCount[v] > 0
        PROVE  realId[v] \in 0..(numReal' - 1) /\ toVirtual'[realId[v]] = v
    <3>1. realId[v] \in 0..(numReal - 1) /\ toVirtual[realId[v]] = v
      BY <2>2 DEF BarrierKeptUntilConsumed
    <3> QED BY <1>1, <1>2, <3>1
  <2>3. \A v \in Barrier : ~(v < bar) => (fn.dynamic => realId[v] = Free)
    BY DEF BarrierKeptUntilConsumed
  <2> QED BY <1>1, <1>2, <2>1, <2>2, <2>3 DEF BarrierKeptUntilConsumed
<1>9. CountsNeverUnderflow'
  BY <1>1, <1>2 DEF CountsNeverUnderflow
<1>10. WellFormed(fn)' /\ fn'.dynamic
  BY <1>1 DEF WellFormed
<1> QED BY <1>6, <1>7, <1>8, <1>9, <1>10

(* A barrier that the pool holds: the id it names holds it.                *)
HeldByPool(v) == realId[v] \in 0..(numReal - 1) /\ toVirtual[realId[v]] = v

(* The pool gives up exceeding free ids and closes the gaps: every barrier *)
(* it holds stays held, and an id is free afterwards only if one was kept. *)
LEMMA ShrinkStep ==
    ASSUME IndInv, Shrink
    PROVE  /\ IndInv'
           /\ \A v \in Barrier : HeldByPool(v) => HeldByPool(v)'
           /\ Active' \subseteq Active
           /\ FreeIds(numReal', toVirtual') # {} =>
                \E r \in FreeIds(numReal, toVirtual) :
                    r \notin Smallest(FreeIds(numReal, toVirtual), numReal - limit)
<1> USE DEF IndInv
<1> DEFINE removed == Smallest(FreeIds(numReal, toVirtual), numReal - limit)
           kept == (0..(numReal - 1)) \ removed
           k == Cardinality(kept)
<1>1. /\ legalize /\ fn.dynamic
      /\ numReal' = numReal - Cardinality(removed)
      /\ realId' = Renumbered(removed)
      /\ nextReal' = Ascending(FreeIds(numReal', toVirtual'))
      /\ phase' = "round"
      /\ UNCHANGED <<fn, limit, legalize, producerCount, consumerCount, bar>>
      /\ UNCHANGED <<head, multiDone, batches, queue, progressed>>
  BY DEF Shrink, RefillRing, inputVars, countVars
<1>2. PICK ids \in Ascents(kept) :
            toVirtual' = [i \in 0..(numReal' - 1) |-> toVirtual[ids[i + 1]]]
  <2>1. toVirtual' = [i \in 0..(numReal' - 1) |-> toVirtual[Ascending(kept)[i + 1]]]
    BY DEF Shrink
  <2>2. IsFiniteSet(0..(numReal - 1)) /\ kept \in SUBSET (0..(numReal - 1))
    BY Ranges DEF TypeOK
  <2>3. kept \subseteq Int
    OBVIOUS
  <2> HIDE DEF kept
  <2>4. IsFiniteSet(kept)
    BY <2>2, FS_Subset
  <2>5. Ascending(kept) \in Ascents(kept)
    BY <2>3, <2>4, AscendingAscends
  <2> QED BY <2>1, <2>5
<1>3. /\ removed \subseteq 0..(numReal - 1) /\ \A r \in removed : toVirtual[r] = Free
      /\ numReal \in Nat /\ Barrier' = Barrier
      /\ toVirtual \in [0..(numReal - 1) -> Barrier \cup {Free}]
  BY <1>1 DEF TypeOK, Barrier, Smallest, FreeIds
<1> HIDE DEF removed
<1>4. IsFiniteSet(kept) /\ kept \subseteq Int /\ numReal' = k /\ k \in Nat
  <2>1. IsFiniteSet(0..(numReal - 1)) /\ Cardinality(0..(numReal - 1)) = numReal
    BY <1>3, Ranges
  <2>2. (0..(numReal - 1)) \cap removed = removed
    BY <1>3
  <2>3. IsFiniteSet(kept) /\ k = numReal - Cardinality(removed)
    <3>1. /\ IsFiniteSet((0..(numReal - 1)) \ removed)
          /\ Cardinality((0..(numReal - 1)) \ removed) =
                Cardinality(0..(numReal - 1)) - Cardinality((0..(numReal - 1)) \cap removed)
      BY <2>1, FS_Difference
    <3> QED BY <2>1, <2>2, <3>1
  <2>4. k \in Nat
    BY <2>3, FS_CardinalityType
  <2>5. kept \subseteq Int
    OBVIOUS
  <2> QED BY <1>1, <2>3, <2>4, <2>5
<1>5. /\ ids \in [1..k -> kept]
      /\ \A i, j \in 1..k : ids[i] = ids[j] => i = j
      /\ \A r \in kept : \E i \in 1..k : ids[i] = r
  <2>1. ids \in Bijection(1..k, kept)
    BY <1>4, AscendingBijection
  <2> QED BY <2>1 DEF Bijection, Injection, Surjection, IsInjective
<1>6. \A i \in 0..(k - 1) : NewId(ids[i + 1], removed) = i
  <2>1. ASSUME NEW i \in 0..(k - 1) PROVE NewId(ids[i + 1], removed) = i
    <3>1. i + 1 \in 1..Cardinality((0..(numReal - 1)) \ removed) /\ (i + 1) - 1 = i
      BY <1>4
    <3>2. removed \in SUBSET (0..(numReal - 1))
      BY <1>3
    <3>3. NewId(ids[i + 1], removed) = (i + 1) - 1
      BY <1>3, <3>1, <3>2, NewIdIsPosition
    <3> QED BY <3>1, <3>3
  <2> QED BY <2>1
<1> HIDE DEF kept, k
<1>7. \A i \in 0..(k - 1) : /\ i + 1 \in 1..k /\ ids[i + 1] \in kept
                            /\ ids[i + 1] \in 0..(numReal - 1)
                            /\ toVirtual'[i] = toVirtual[ids[i + 1]]
  BY <1>2, <1>4, <1>5 DEF kept
<1>8. toVirtual' \in [0..(numReal' - 1) -> Barrier \cup {Free}]
  BY <1>2, <1>3, <1>4, <1>7
<1>9. ASSUME NEW i \in 0..(k - 1), toVirtual[ids[i + 1]] # Free
      PROVE  /\ toVirtual[ids[i + 1]] \in Barrier
             /\ realId'[toVirtual[ids[i + 1]]] = i
  <2> DEFINE r == ids[i + 1]
             v == toVirtual[r]
  <2>1. r \in 0..(numReal - 1) /\ v \in Barrier
    BY <1>3, <1>7, <1>9
  <2>2. \A x \in 0..(numReal - 1) : toVirtual[x] = v => x = r
    BY <1>9, <2>1 DEF PhysicalIdsConsistent
  <2>3. (CHOOSE x \in 0..(numReal - 1) : toVirtual[x] = v) = r
    BY <2>1, <2>2
  <2>4. realId'[v] = NewId(r, removed)
    BY <1>1, <2>1, <2>3 DEF Renumbered
  <2> QED BY <1>6, <2>1, <2>4
<1>10. \A v \in Barrier : ~(\E r \in 0..(numReal - 1) : toVirtual[r] = v) => realId'[v] = realId[v]
  BY <1>1 DEF Renumbered
(* Every held id is kept, so every mapped barrier is found again.          *)
<1>11. ASSUME NEW r \in 0..(numReal - 1), toVirtual[r] # Free
       PROVE  \E i \in 0..(k - 1) : ids[i + 1] = r
  <2>1. r \in kept
    BY <1>3, <1>11 DEF kept
  <2>2. PICK j \in 1..k : ids[j] = r
    BY <1>5, <2>1
  <2>3. j - 1 \in 0..(k - 1) /\ (j - 1) + 1 = j
    BY <1>4
  <2>4. ids[(j - 1) + 1] = r
    BY <2>2, <2>3
  <2> QED BY <2>3, <2>4
<1>12. realId' \in [Barrier -> Int]
  <2>1. \A v \in Barrier : realId'[v] \in Int
    <3>1. ASSUME NEW v \in Barrier, NEW r \in 0..(numReal - 1), toVirtual[r] = v
          PROVE  realId'[v] \in Int
      <4>1. v # Free
        BY DEF Barrier, Free
      <4>2. PICK i \in 0..(k - 1) : ids[i + 1] = r
        BY <1>11, <3>1, <4>1
      <4>3. realId'[v] = i
        BY <1>9, <3>1, <4>1, <4>2
      <4> QED BY <4>3
    <3>2. \A v \in Barrier : realId[v] \in Int
      BY DEF TypeOK
    <3> QED BY <1>10, <3>1, <3>2
  <2>2. realId' = [v \in Barrier |-> realId'[v]]
    BY <1>1 DEF Renumbered
  <2> QED BY <2>1, <2>2
<1>13. /\ nextReal' \in Seq(0..(numReal' - 1))
       /\ \A i, j \in DOMAIN nextReal' : nextReal'[i] = nextReal'[j] => i = j
       /\ \A i \in DOMAIN nextReal' : toVirtual'[nextReal'[i]] = Free
       /\ \A r \in 0..(numReal' - 1) :
             toVirtual'[r] = Free => \E i \in DOMAIN nextReal' : nextReal'[i] = r
  <2> DEFINE n == numReal'
             map == toVirtual'
             ring == nextReal'
  <2>1. n \in Nat /\ map \in [0..(n - 1) -> Int] /\ ring \in Ascents(FreeIds(n, map))
    BY <1>1, <1>4, <1>8, RingAscends DEF Barrier, Free
  <2> HIDE DEF n, map, ring
  <2>2. /\ ring \in Seq(0..(n - 1))
        /\ \A i, j \in DOMAIN ring : ring[i] = ring[j] => i = j
        /\ \A i \in DOMAIN ring : map[ring[i]] = Free
        /\ \A r \in 0..(n - 1) : map[r] = Free => \E i \in DOMAIN ring : ring[i] = r
    BY <2>1, RingRefilled
  <2> QED BY <2>2 DEF n, map, ring
<1>14. TypeOK'
  BY <1>1, <1>3, <1>4, <1>8, <1>12, <1>13 DEF TypeOK
<1>15. PhysicalIdsConsistent'
  <2>1. \A i \in 0..(numReal' - 1) : toVirtual'[i] # Free => realId'[toVirtual'[i]] = i
    BY <1>4, <1>7, <1>9
  <2> QED BY <1>13, <2>1 DEF PhysicalIdsConsistent
<1>16. ASSUME NEW v \in Barrier, HeldByPool(v)
       PROVE  realId'[v] \in 0..(numReal' - 1) /\ toVirtual'[realId'[v]] = v
  <2>1. realId[v] \in 0..(numReal - 1) /\ toVirtual[realId[v]] = v /\ v # Free
    BY <1>16 DEF HeldByPool, Barrier, Free
  <2>2. PICK i \in 0..(k - 1) : ids[i + 1] = realId[v]
    BY <1>11, <2>1
  <2>3. realId'[v] = i /\ toVirtual'[i] = v
    BY <1>7, <1>9, <2>1, <2>2
  <2> QED BY <1>4, <2>3
<1>17. BarrierKeptUntilConsumed'
  <2>1. \A i \in 0..(numReal' - 1) : toVirtual'[i] < bar
    BY <1>4, <1>7 DEF BarrierKeptUntilConsumed
  <2>2. ASSUME NEW v \in Barrier, v < bar, consumerCount[v] > 0
        PROVE  realId'[v] \in 0..(numReal' - 1) /\ toVirtual'[realId'[v]] = v
    BY <1>16, <2>2 DEF BarrierKeptUntilConsumed, HeldByPool
  <2>3. ASSUME NEW v \in Barrier, ~(v < bar), fn.dynamic
        PROVE  realId'[v] = Free
    <3>1. ~(\E r \in 0..(numReal - 1) : toVirtual[r] = v)
      BY <2>3 DEF BarrierKeptUntilConsumed
    <3> QED BY <1>10, <2>3, <3>1 DEF BarrierKeptUntilConsumed
  <2> QED BY <1>1, <1>3, <2>1, <2>2, <2>3 DEF BarrierKeptUntilConsumed
<1>18. CountsNeverUnderflow'
  BY <1>1, <1>3 DEF CountsNeverUnderflow
<1>19. WellFormed(fn)' /\ fn'.dynamic
  BY <1>1 DEF WellFormed
<1>20. Active' \subseteq Active
  BY <1>4, <1>7 DEF Active
<1>21. ASSUME NEW i \in FreeIds(numReal', toVirtual')
       PROVE  \E r \in FreeIds(numReal, toVirtual) : r \notin removed
  <2>1. i \in 0..(k - 1) /\ toVirtual'[i] = Free
    BY <1>4, <1>21 DEF FreeIds
  <2>2. ids[i + 1] \in kept /\ toVirtual[ids[i + 1]] = Free
    BY <1>7, <2>1
  <2> QED BY <2>2 DEF kept, FreeIds
<1>22. IndInv'
  BY <1>14, <1>15, <1>17, <1>18, <1>19
<1> HIDE DEF IndInv
<1>23. \A v \in Barrier : HeldByPool(v) => HeldByPool(v)'
  BY <1>16 DEF HeldByPool
<1> QED BY <1>20, <1>21, <1>22, <1>23 DEF removed

-----------------------------------------------------------------------------
LEMMA NextIndInv ==
    ASSUME IndInv, [Next]_vars
    PROVE  IndInv'
<1>1. CASE MapBarrier
  BY <1>1, MapBarrierStep
<1>2. CASE RunTask
  BY <1>2, RunTaskStep
<1>3. CASE Grow
  BY <1>3, GrowStep
<1>4. CASE Shrink
  BY <1>4, ShrinkStep
<1>5. CASE \/ StartRound \/ Finish \/ EndMapping \/ PassOverProcessedDma
           \/ RunFails \/ LeaveQueue \/ ThrowNotProgressed \/ SimulationBlocked
           \/ NextRound \/ UNCHANGED vars
  BY <1>5, ControlSteps
<1> QED BY <1>1, <1>2, <1>3, <1>4, <1>5 DEF Next, Returned

LEMMA SameFunction ==
    ASSUME [Next]_vars
    PROVE  UNCHANGED <<fn, limit>>
BY DEF Next, StartRound, Finish, MapBarrier, EndMapping, RunTask, PassOverProcessedDma, RunFails,
       LeaveQueue, Grow, Shrink, ThrowNotProgressed, SimulationBlocked, NextRound, Returned,
       Advance, inputVars, vars

(* All four parts hold in every state of every simulation.                 *)
THEOREM Invariance == Spec => []IndInv
<1>1. Init => IndInv
  BY InitIndInv
<1>2. IndInv /\ [Next]_vars => IndInv'
  BY NextIndInv
<1> QED BY <1>1, <1>2, PTL DEF Spec

(* The simulator's vectors, ids and cursors stay within their ranges, also *)
(* while legalization grows and shrinks the pool.                          *)
THEOREM TypeCorrect == Spec => []TypeOK
BY Invariance, PTL DEF IndInv

(* processSim never takes more slots from a counter than it holds, even    *)
(* when a DMA that sits in two FIFOs is simulated twice.                   *)
THEOREM NoUnderflow == Spec => []CountsNeverUnderflow
BY Invariance, PTL DEF IndInv

(* The ring holds exactly the free physical ids, each once, and a physical *)
(* id and the barrier it holds name each other: RingBuffer::push never     *)
(* overflows and no physical barrier serves two virtual ones.              *)
THEOREM IdsConsistent == Spec => []PhysicalIdsConsistent
BY Invariance, PTL DEF IndInv

(* A barrier with consumers to come keeps the physical id it was given:    *)
(* no task signals a barrier that was handed on.                           *)
THEOREM KeptUntilConsumed == Spec => []BarrierKeptUntilConsumed
BY Invariance, PTL DEF IndInv

-----------------------------------------------------------------------------
(* The batches of legalization.  A batch holds barriers that were mapped,  *)
(* and a barrier leaves the pool for good: no batch but the last one has   *)
(* a barrier that is still active.                                         *)
BatchInv ==
    /\ \A j \in DOMAIN batches : batches[j] \subseteq 0..(bar - 1)
    /\ \A j \in DOMAIN batches : j < Len(batches) => batches[j] \cap Active = {}
    /\ BatchesDisjoint

(* A step that activates no barrier but those still to be mapped keeps the *)
(* batches apart.                                                          *)
LEMMA BatchesKept ==
    ASSUME IndInv, BatchInv, batches' = batches, bar \in Int, bar' \in Int, bar <= bar',
           Active' \subseteq Active \cup {bar, Free}
    PROVE  BatchInv'
<1>1. \A j \in DOMAIN batches : batches[j] \subseteq 0..(bar - 1)
  BY DEF BatchInv
<1>2. \A j \in DOMAIN batches : batches'[j] \subseteq 0..(bar' - 1)
  BY <1>1
<1>3. \A j \in DOMAIN batches : bar \notin batches[j] /\ Free \notin batches[j]
  BY <1>1 DEF Free
<1>4. \A j \in DOMAIN batches : j < Len(batches) => batches'[j] \cap Active' = {}
  BY <1>3 DEF BatchInv
<1> QED BY <1>2, <1>4 DEF BatchInv, BatchesDisjoint

(* The active barriers join the last batch or start one.                   *)
LEMMA EndMappingKeepsBatches ==
    ASSUME IndInv, BatchInv, EndMapping
    PROVE  BatchInv'
<1> DEFINE L == Len(batches)
<1>1. /\ UNCHANGED <<toVirtual, numReal, bar>> /\ Active' = Active
      /\ batches' = batches \/ (batches' = ExtendedBatches /\ Free \notin Active)
  BY DEF EndMapping, physVars, Active
<1>2. /\ batches \in Seq(SUBSET (Barrier \cup {Free})) /\ L \in Nat /\ bar \in Int
      /\ DOMAIN batches = 1..L
  BY DEF IndInv, TypeOK
<1> HIDE DEF L
<1>3. CASE batches' = batches
  BY <1>1, <1>2, <1>3, BatchesKept
<1>4. CASE batches' = ExtendedBatches /\ Free \notin Active
  <2>1. Active \subseteq 0..(bar - 1)
    <3>1. \A r \in 0..(numReal - 1) : toVirtual[r] \in Nat \/ toVirtual[r] = Free
      BY DEF IndInv, TypeOK, Barrier
    <3>2. \A r \in 0..(numReal - 1) : toVirtual[r] < bar
      BY DEF IndInv, BarrierKeptUntilConsumed
    <3> QED BY <1>2, <1>4, <3>1, <3>2 DEF Active
  <2>2. /\ \A j \in 1..L : batches[j] \subseteq 0..(bar - 1)
        /\ \A j \in 1..L : j < L => batches[j] \cap Active = {}
        /\ \A i, j \in 1..L : i # j => batches[i] \cap batches[j] = {}
    BY <1>2 DEF BatchInv, BatchesDisjoint, L
  <2>3. CASE batches = <<>> \/ (Last(batches) # {} /\ Last(batches) \cap Active = {})
    <3>1. batches' = Append(batches, Active)
      BY <1>4, <2>3 DEF ExtendedBatches
    <3>2. /\ DOMAIN batches' = 1..(L + 1) /\ Len(batches') = L + 1
          /\ \A j \in 1..L : batches'[j] = batches[j]
          /\ batches'[L + 1] = Active
      BY <1>2, <3>1 DEF L
    <3>3. \A j \in 1..L : batches[j] \cap Active = {}
      <4>1. CASE batches = <<>>
        BY <1>2, <4>1 DEF L
      <4>2. CASE batches # <<>>
        <5>1. batches[L] \cap Active = {}
          BY <1>2, <2>3, <4>2 DEF Last, L
        <5>2. \A j \in 1..L : j = L \/ j < L
          BY <1>2
        <5> QED BY <2>2, <5>1, <5>2
      <4> QED BY <4>1, <4>2
    <3>4. \A j \in 1..(L + 1) : j = L + 1 \/ j \in 1..L
      BY <1>2
    <3>5. L + 1 \notin 1..L
      BY <1>2
    <3>6. \A j \in 1..(L + 1) : batches'[j] \subseteq 0..(bar - 1)
      BY <2>1, <2>2, <3>2, <3>4
    <3>7. \A j \in 1..(L + 1) : j < L + 1 => batches'[j] \cap Active = {}
      BY <3>2, <3>3, <3>4, <1>2
    <3>8. \A i, j \in 1..(L + 1) : i # j => batches'[i] \cap batches'[j] = {}
      BY <2>2, <3>2, <3>3, <3>4, <3>5
    <3> QED BY <1>1, <3>2, <3>6, <3>7, <3>8 DEF BatchInv, BatchesDisjoint
  <2>4. CASE ~(batches = <<>> \/ (Last(batches) # {} /\ Last(batches) \cap Active = {}))
    <3>1. batches' = [batches EXCEPT ![L] = @ \cup Active] /\ L \in 1..L
      BY <1>2, <1>4, <2>4 DEF ExtendedBatches, L
    <3>2. /\ DOMAIN batches' = 1..L /\ Len(batches') = L
          /\ \A j \in 1..L : batches'[j] = IF j = L THEN batches[L] \cup Active ELSE batches[j]
      BY <1>2, <3>1 DEF L
    <3>3. \A j \in 1..L : j # L => j < L
      BY <1>2
    <3>4. \A j \in 1..L : batches'[j] \subseteq 0..(bar - 1)
      BY <2>1, <2>2, <3>1, <3>2
    <3>5. \A j \in 1..L : j < L => batches'[j] \cap Active = {}
      BY <1>2, <2>2, <3>2
    <3>6. \A i, j \in 1..L : i # j => batches'[i] \cap batches'[j] = {}
      BY <2>2, <3>1, <3>2, <3>3
    <3> QED BY <1>1, <3>2, <3>4, <3>5, <3>6 DEF BatchInv, BatchesDisjoint
  <2> QED BY <2>3, <2>4
<1> QED BY <1>1, <1>3, <1>4

LEMMA NextKeepsBatches ==
    ASSUME IndInv, IndInv', BatchInv, [Next]_vars
    PROVE  BatchInv'
<1>1. bar \in Int /\ bar <= bar
  BY DEF IndInv, TypeOK
<1>2. CASE MapBarrier
  <2> DEFINE r == IF fn.dynamic THEN Head(nextReal) ELSE realId[bar]
  <2>1. /\ toVirtual' = [toVirtual EXCEPT ![r] = bar] /\ bar' = bar + 1
        /\ UNCHANGED <<numReal, batches>>
    BY <1>2 DEF MapBarrier
  <2>2. Active' \subseteq Active \cup {bar, Free}
    <3> HIDE DEF r
    <3> QED BY <2>1 DEF Active, IndInv, TypeOK
  <2> QED BY <1>1, <2>1, <2>2, BatchesKept
<1>3. CASE RunTask
  <2>1. toVirtual' = Vacated(Exhausted(HeadTask)) /\ UNCHANGED <<numReal, batches, bar>>
    BY <1>3 DEF RunTask, Execute, Advance
  <2>2. Active' \subseteq Active \cup {bar, Free}
    BY <2>1 DEF Active, Vacated
  <2> QED BY <1>1, <2>1, <2>2, BatchesKept
<1>4. CASE Grow
  <2>1. /\ toVirtual' = [r \in 0..numReal |-> IF r = numReal THEN Free ELSE toVirtual[r]]
        /\ numReal' = numReal + 1 /\ UNCHANGED <<batches, bar>> /\ numReal \in Nat
    BY <1>4 DEF Grow, IndInv, TypeOK
  <2>2. Active' \subseteq Active \cup {bar, Free}
    BY <2>1 DEF Active
  <2> QED BY <1>1, <2>1, <2>2, BatchesKept
<1>5. CASE Shrink
  <2>1. UNCHANGED <<batches, bar>>
    BY <1>5 DEF Shrink
  <2>2. Active' \subseteq Active
    BY <1>5, ShrinkStep
  <2> QED BY <1>1, <2>1, <2>2, BatchesKept
<1>6. CASE EndMapping
  BY <1>6, EndMappingKeepsBatches
<1>7. CASE \/ StartRound \/ Finish \/ PassOverProcessedDma \/ RunFails \/ LeaveQueue
           \/ ThrowNotProgressed \/ SimulationBlocked \/ NextRound \/ UNCHANGED vars
  <2>1. UNCHANGED <<batches, bar, toVirtual, numReal>>
    BY <1>7 DEF StartRound, Finish, PassOverProcessedDma, RunFails, LeaveQueue, Advance,
                ThrowNotProgressed, SimulationBlocked, NextRound, physVars, vars
  <2>2. Active' \subseteq Active
    BY <2>1 DEF Active
  <2> QED BY <1>1, <2>1, <2>2, BatchesKept
<1> QED BY <1>2, <1>3, <1>4, <1>5, <1>6, <1>7 DEF Next, Returned

(* No barrier is in two batches of _barrierBatchesToLegalize, so the pass  *)
(* that linearizes them batch by batch never ties a barrier twice.         *)
THEOREM BatchesStayDisjoint == Spec => []BatchesDisjoint
<1>1. Init => BatchInv
  <2>1. ASSUME Init PROVE batches = <<>>
    BY <2>1 DEF Init, Start
  <2> QED BY <2>1 DEF BatchInv, BatchesDisjoint
<1>2. IndInv /\ IndInv' /\ BatchInv /\ [Next]_vars => BatchInv'
  BY NextKeepsBatches
<1>3. BatchInv => BatchesDisjoint
  BY DEF BatchInv
<1> QED BY <1>1, <1>2, <1>3, Invariance, PTL DEF Spec

-----------------------------------------------------------------------------
(* What the theorems assume of the functions, next to WellFormed.          *)
NumberedByPort == \A f \in Programs : QueuedByPort(f) /\ CountsAddUp(f)

(* The execution invariant.  The counters are tied to the tasks in Done;   *)
(* a task is counted once because a DMA is marked as processed exactly     *)
(* when some FIFO has passed it; and a barrier with producers to come is   *)
(* held by the pool, as is one with consumers to come.                     *)
ExecInv ==
    /\ fn \in Programs
    /\ \A q \in Queue : head[q] <= Len(fn.fifo[q])
    /\ \A t \in DOMAIN fn.multi : t \in multiDone <=> t \in Done
    /\ CountsMatchPendingTasks
    /\ \A v \in Barrier : v < bar /\ producerCount[v] > 0 => HeldByPool(v)

-----------------------------------------------------------------------------
(* The tasks and their FIFOs.                                              *)

LEMMA FunctionFacts ==
    ASSUME NumberedByPort, IndInv, fn \in Programs
    PROVE  /\ WellFormed(fn) /\ QueuedByPort(fn) /\ CountsAddUp(fn)
           /\ fn.numTasks \in Nat /\ fn.numBarriers \in Nat
           /\ Task \subseteq Nat /\ IsFiniteSet(Task)
           /\ \A q \in Queue : /\ fn.fifo[q] \in Seq(Task)
                               /\ Len(fn.fifo[q]) \in Nat
                               /\ DOMAIN fn.fifo[q] = 1..Len(fn.fifo[q])
                               /\ \A i \in 1..Len(fn.fifo[q]) : fn.fifo[q][i] \in Task
           /\ \A t \in Task : /\ fn.wait[t] \subseteq Barrier /\ fn.update[t] \subseteq Barrier
                              /\ fn.count[t] \in Nat /\ fn.count[t] > 0
<1>1. WellFormed(fn) /\ QueuedByPort(fn) /\ CountsAddUp(fn)
  BY DEF NumberedByPort, IndInv
<1>2. fn.numTasks \in Nat /\ fn.numBarriers \in Nat
  BY <1>1 DEF WellFormed
<1>3. Task \subseteq Nat /\ IsFiniteSet(Task)
  BY <1>2, Ranges DEF Task
<1>4. \A q \in Queue : fn.fifo[q] \in Seq(Task)
  BY <1>1, Shape
<1>5. \A q \in Queue : /\ Len(fn.fifo[q]) \in Nat
                       /\ DOMAIN fn.fifo[q] = 1..Len(fn.fifo[q])
                       /\ \A i \in 1..Len(fn.fifo[q]) : fn.fifo[q][i] \in Task
  <2>1. ASSUME NEW q \in Queue, NEW s, s = fn.fifo[q]
        PROVE  Len(s) \in Nat /\ DOMAIN s = 1..Len(s) /\ \A i \in 1..Len(s) : s[i] \in Task
    BY <1>4, <2>1
  <2> QED BY <2>1
<1>6. \A t \in Task : /\ fn.wait[t] \subseteq Barrier /\ fn.update[t] \subseteq Barrier
                      /\ fn.count[t] \in Nat /\ fn.count[t] > 0
  BY <1>1, Shape
<1> QED BY <1>1, <1>2, <1>3, <1>4, <1>5, <1>6

LEMMA DoneTasks ==
    \A t : t \in Done <=> \E q \in Queue : \E i \in 1..head[q] : fn.fifo[q][i] = t
BY DEF Done

(* The FIFOs hold the tasks in ascending order, each once.                 *)
LEMMA FifoAscends ==
    ASSUME NumberedByPort, IndInv, fn \in Programs, NEW q \in Queue,
           NEW i \in 1..Len(fn.fifo[q]), NEW j \in 1..Len(fn.fifo[q]), i <= j
    PROVE  fn.fifo[q][i] <= fn.fifo[q][j] /\ (fn.fifo[q][i] = fn.fifo[q][j] => i = j)
<1>1. DOMAIN fn.fifo[q] = 1..Len(fn.fifo[q]) /\ Len(fn.fifo[q]) \in Nat
  BY FunctionFacts
<1>2. fn.fifo[q][i] \in Nat /\ fn.fifo[q][j] \in Nat
  BY FunctionFacts
<1>3. i < j => fn.fifo[q][i] < fn.fifo[q][j]
  BY <1>1, FunctionFacts DEF QueuedByPort
<1>4. i = j \/ i < j
  BY <1>1
<1> QED BY <1>2, <1>3, <1>4

(* A FIFO has at most as many places as there are tasks.                   *)
LEMMA FifoLength ==
    ASSUME NumberedByPort, IndInv, fn \in Programs, NEW q \in Queue
    PROVE  Len(fn.fifo[q]) <= fn.numTasks
<1> DEFINE L == Len(fn.fifo[q])
           g == [i \in 1..L |-> fn.fifo[q][i]]
<1>1. L \in Nat /\ fn.numTasks \in Nat /\ g \in [1..L -> Task]
  BY FunctionFacts
<1>2. IsFiniteSet(1..L) /\ Cardinality(1..L) = L
  BY <1>1, Ranges
<1>3. IsFiniteSet(Task) /\ Cardinality(Task) = fn.numTasks
  BY <1>1, Ranges DEF Task
<1>4. \A i, j \in 1..L : g[i] = g[j] => i = j
  <2>1. ASSUME NEW i \in 1..L, NEW j \in 1..L, g[i] = g[j] PROVE i = j
    <3>1. i <= j \/ j <= i
      BY <1>1
    <3> QED BY <2>1, <3>1, FifoAscends
  <2> QED BY <2>1
<1> HIDE DEF L, g
<1>5. ASSUME fn.numTasks < L PROVE FALSE
  <2>1. Cardinality(Task) < Cardinality(1..L)
    BY <1>2, <1>3, <1>5
  <2>2. \A f \in [1..L -> Task] : \E x, y \in 1..L : x # y /\ f[x] = f[y]
    BY <1>2, <1>3, <2>1, FS_PigeonHole, ZenonT(20)
  <2> QED BY <1>1, <1>4, <2>2
<1> QED BY <1>1, <1>5 DEF L

(* isDMATaskInMultiQueues and the status it finds: the head of a FIFO is   *)
(* passed over exactly when it has executed.                               *)
LEMMA HeadStatus ==
    ASSUME NumberedByPort, IndInv, ExecInv, HasHead, NEW entry \in Registered
    PROVE  /\ head[queue] + 1 \in 1..Len(fn.fifo[queue])
           /\ HeadTask \in Task
           /\ AlreadyProcessed(entry) <=> HeadTask \in Done
           /\ entry \subseteq {HeadTask}
           /\ HeadTask \in DOMAIN fn.multi => entry = {HeadTask}
<1> DEFINE h == head[queue]
           fifo == fn.fifo[queue]
           owners == IF queue < NumDma
                     THEN {t \in DOMAIN fn.multi : <<queue, h>> \in fn.multi[t]} ELSE {}
<1>1. queue \in Queue /\ h \in Nat /\ h < Len(fifo) /\ fn \in Programs
  BY DEF IndInv, TypeOK, ExecInv, HasHead
<1>2. Len(fifo) \in Nat /\ DOMAIN fifo = 1..Len(fifo)
  BY <1>1, FunctionFacts
<1>3. h + 1 \in 1..Len(fifo) /\ (h + 1) - 1 = h
  BY <1>1, <1>2
<1>4. HeadTask = fifo[h + 1] /\ HeadTask \in Task
  BY <1>1, <1>3, FunctionFacts DEF HeadTask
<1>5. \A t \in DOMAIN fn.multi :
          HeadTask = t <=> queue < NumDma /\ <<queue, h>> \in fn.multi[t]
  <2>1. \A t \in DOMAIN fn.multi :
            fifo[h + 1] = t <=> queue < NumDma /\ <<queue, (h + 1) - 1>> \in fn.multi[t]
    BY <1>1, <1>2, <1>3, FunctionFacts DEF QueuedByPort
  <2> QED BY <1>3, <1>4, <2>1
<1>6. entry = IF owners = {} THEN {} ELSE entry
  BY DEF Registered
<1>7. owners # {} => \E t \in owners : entry = {t}
  BY DEF Registered
<1>8. CASE HeadTask \in DOMAIN fn.multi
  <2>1. owners = {HeadTask}
    BY <1>5, <1>8
  <2>2. entry = {HeadTask}
    BY <1>7, <2>1
  <2>3. AlreadyProcessed(entry) <=> HeadTask \in Done
    BY <1>8, <2>2 DEF AlreadyProcessed, ExecInv
  <2> QED BY <1>3, <1>4, <2>2, <2>3
<1>9. CASE HeadTask \notin DOMAIN fn.multi
  <2>1. owners = {}
    BY <1>5, <1>9
  <2>2. entry = {}
    BY <1>6, <2>1
  <2>3. ASSUME HeadTask \in Done PROVE FALSE
    <3>1. PICK q \in Queue : \E i \in 1..head[q] : fn.fifo[q][i] = HeadTask
      BY <2>3, DoneTasks
    <3>2. PICK i \in 1..head[q] : fn.fifo[q][i] = HeadTask
      BY <3>1
    <3>3. i \in 1..Len(fn.fifo[q]) /\ i \in DOMAIN fn.fifo[q]
      <4>1. head[q] \in Nat /\ head[q] <= Len(fn.fifo[q]) /\ Len(fn.fifo[q]) \in Nat
        BY <1>1, FunctionFacts DEF ExecInv, IndInv, TypeOK
      <4>2. DOMAIN fn.fifo[q] = 1..Len(fn.fifo[q])
        BY <1>1, FunctionFacts
      <4>3. \A m \in Nat, n \in Nat : m <= n => \A x \in 1..m : x \in 1..n
        OBVIOUS
      <4>4. i \in 1..Len(fn.fifo[q])
        BY <4>1, <4>3
      <4> QED BY <4>2, <4>4
    <3>4. CASE q # queue
      <4>1. \A x \in DOMAIN fn.fifo[q] : \A y \in DOMAIN fn.fifo[queue] :
                fn.fifo[q][x] = fn.fifo[queue][y] => fn.fifo[queue][y] \in DOMAIN fn.multi
        BY <1>1, <3>4, FunctionFacts DEF QueuedByPort
      <4>2. h + 1 \in DOMAIN fn.fifo[queue]
        BY <1>2, <1>3
      <4>3. fn.fifo[q][i] = fn.fifo[queue][h + 1]
        BY <1>4, <3>2
      <4> QED BY <1>4, <1>9, <3>3, <4>1, <4>2, <4>3
    <3>5. CASE q = queue
      <4>1. i <= h + 1 /\ i # h + 1
        BY <1>1, <3>5
      <4> QED BY <1>1, <1>3, <1>4, <3>2, <3>3, <3>5, <4>1, FifoAscends
    <3> QED BY <3>4, <3>5
  <2> QED BY <1>3, <1>4, <1>9, <2>2, <2>3 DEF AlreadyProcessed
<1> QED BY <1>8, <1>9

(* A FIFO that moves on adds its head to the tasks done.                   *)
LEMMA AdvanceAddsHead ==
    ASSUME IndInv, UNCHANGED fn, head' = [head EXCEPT ![queue] = @ + 1]
    PROVE  Done' = Done \cup {HeadTask}
<1>1. queue \in Queue /\ head \in [Queue -> Nat]
  BY DEF IndInv, TypeOK
<1>2. \A q \in Queue : head'[q] = IF q = queue THEN head[queue] + 1 ELSE head[q]
  BY <1>1
<1>3. 1..(head[queue] + 1) = 1..head[queue] \cup {head[queue] + 1}
  BY <1>1
<1>4. ASSUME NEW t PROVE t \in Done' <=> t \in Done \/ t = HeadTask
  <2>1. t \in Done' <=> \E q \in Queue : \E i \in 1..head'[q] : fn.fifo[q][i] = t
    BY DEF Done
  <2>2. (\E i \in 1..head'[queue] : fn.fifo[queue][i] = t)
            <=> (\E i \in 1..head[queue] : fn.fifo[queue][i] = t) \/ t = HeadTask
    BY <1>1, <1>2, <1>3 DEF HeadTask
  <2>3. \A q \in Queue \ {queue} : head'[q] = head[q]
    BY <1>2
  <2> QED BY <1>1, <2>1, <2>2, <2>3, DoneTasks
<1> QED BY <1>4

-----------------------------------------------------------------------------
(* The counters as sums over tasks.                                        *)

(* Taking a task out of a set of tasks takes its slots out of the sum.     *)
LEMMA SlotsWithout ==
    ASSUME NumberedByPort, IndInv, fn \in Programs, NEW W \in SUBSET Task, NEW t \in Task
    PROVE  /\ SlotSum(fn, W) \in Nat
           /\ SlotSum(fn, W \ {t}) = IF t \in W THEN SlotSum(fn, W) - fn.count[t] ELSE SlotSum(fn, W)
           /\ t \in W => fn.count[t] <= SlotSum(fn, W)
<1>1. IsFiniteSet(W) /\ \A x \in W : fn.count[x] \in Nat
  BY FunctionFacts, FS_Subset
<1>2. \A x \in W : fn.count[x] \in Int
  BY <1>1
<1>3. \A S : SlotSum(fn, S) = SumFunctionOnSet(fn.count, S)
  BY DEF SlotSum, SumFunctionOnSet
<1>4. SumFunctionOnSet(fn.count, W) \in Nat
  BY <1>1, SumIsNat
<1>5. CASE t \in W
  <2>1. SumFunctionOnSet(fn.count, W) = fn.count[t] + SumFunctionOnSet(fn.count, W \ {t})
    BY <1>1, <1>2, <1>5, SumRemove
  <2>2. fn.count[t] <= SumFunctionOnSet(fn.count, W)
    BY <1>1, <1>5, SumCovers
  <2>3. IsFiniteSet(W \ {t}) /\ \A x \in W \ {t} : fn.count[x] \in Nat
    BY <1>1, FS_RemoveElement
  <2>4. SumFunctionOnSet(fn.count, W \ {t}) \in Nat
    BY <2>3, SumIsNat
  <2>5. fn.count[t] \in Nat
    BY <1>1, <1>5
  <2>6. \A a, b, c \in Int : a = b + c => c = a - b
    OBVIOUS
  <2>7. SumFunctionOnSet(fn.count, W \ {t}) = SumFunctionOnSet(fn.count, W) - fn.count[t]
    BY <1>4, <2>1, <2>4, <2>5, <2>6
  <2> QED BY <1>3, <1>4, <1>5, <2>2, <2>7
<1>6. CASE t \notin W
  <2>1. W \ {t} = W
    BY <1>6
  <2> QED BY <1>3, <1>4, <1>6, <2>1
<1> QED BY <1>5, <1>6

(* The tasks that still have to update, and to wait for, a barrier.        *)
Updaters(v) == {t \in Task \ Done : v \in fn.update[t]}
Waiters(v) == {t \in Task \ Done : v \in fn.wait[t]}

LEMMA CountersAreSums ==
    ASSUME ExecInv, NEW v \in Barrier
    PROVE  /\ producerCount[v] = SlotSum(fn, Updaters(v))
           /\ consumerCount[v] = SlotSum(fn, Waiters(v))
BY DEF ExecInv, CountsMatchPendingTasks, Updaters, Waiters

(* A counter covers every task still to come, and is zero without one.     *)
LEMMA CountersCoverTasks ==
    ASSUME NumberedByPort, IndInv, ExecInv, NEW v \in Barrier
    PROVE  /\ \A t \in Updaters(v) : fn.count[t] <= producerCount[v] /\ producerCount[v] > 0
           /\ \A t \in Waiters(v) : fn.count[t] <= consumerCount[v] /\ consumerCount[v] > 0
           /\ producerCount[v] # 0 => Updaters(v) # {}
<1>1. Updaters(v) \subseteq Task /\ Waiters(v) \subseteq Task /\ fn \in Programs
  BY DEF Updaters, Waiters, ExecInv
<1>2. ASSUME NEW W \in SUBSET Task, NEW n, n = SlotSum(fn, W), NEW t \in W
      PROVE  fn.count[t] <= n /\ n > 0
  <2>1. t \in Task /\ fn.count[t] <= n /\ n \in Nat
    BY <1>1, <1>2, SlotsWithout
  <2>2. fn.count[t] \in Nat /\ fn.count[t] > 0
    BY <1>1, <2>1, FunctionFacts
  <2> QED BY <2>1, <2>2
<1>3. ASSUME Updaters(v) = {} PROVE producerCount[v] = 0
  <2>1. producerCount[v] = SumFunctionOnSet(fn.count, {})
    BY <1>3, CountersAreSums DEF SlotSum, SumFunctionOnSet
  <2> QED BY <2>1, SumOfNone
<1> QED BY <1>1, <1>2, <1>3, CountersAreSums

(* A task whose barriers are all mapped waits only for tasks still to run. *)
LEMMA BlockedByTask ==
    ASSUME NumberedByPort, IndInv, ExecInv, NEW t \in Task, Blocked(t),
           \A v \in fn.wait[t] \cup fn.update[t] : IsBarrierMapped(v)
    PROVE  \E u \in Task \ Done : fn.update[u] \cap fn.wait[t] # {}
<1>1. PICK v \in fn.wait[t] : producerCount[v] > 0
  BY DEF Blocked
<1>2. v \in Barrier
  BY <1>1, FunctionFacts DEF ExecInv
<1>3. producerCount[v] # 0
  BY <1>1
<1>4. PICK u \in Updaters(v) : TRUE
  BY <1>2, <1>3, CountersCoverTasks
<1> QED BY <1>1, <1>4 DEF Updaters

(* A barrier that a task still to come uses is held by the pool once it is *)
(* mapped.                                                                 *)
LEMMA NeededBarrierHeld ==
    ASSUME NumberedByPort, IndInv, ExecInv, NEW v \in Barrier, v < bar,
           NEW t \in Task \ Done, v \in fn.wait[t] \cup fn.update[t]
    PROVE  HeldByPool(v) /\ IsBarrierMapped(v)
<1>1. CASE v \in fn.wait[t]
  <2>1. t \in Waiters(v)
    BY <1>1 DEF Waiters
  <2>2. consumerCount[v] > 0
    BY <2>1, CountersCoverTasks
  <2> QED BY <2>2 DEF IndInv, BarrierKeptUntilConsumed, HeldByPool, IsBarrierMapped
<1>2. CASE v \in fn.update[t]
  <2>1. t \in Updaters(v)
    BY <1>2 DEF Updaters
  <2>2. producerCount[v] > 0
    BY <2>1, CountersCoverTasks
  <2> QED BY <2>2 DEF ExecInv, HeldByPool, IsBarrierMapped
<1> QED BY <1>1, <1>2

-----------------------------------------------------------------------------
(* The steps keep the execution invariant.                                 *)

LEMMA InitExecInv ==
    ASSUME NumberedByPort, Init
    PROVE  ExecInv
<1>1. IndInv
  BY InitIndInv
<1>2. PICK f \in Programs, n \in Limits, mode \in Modes : Start(f, n, mode)
  BY DEF Init
<1>3. /\ fn = f /\ head = [q \in Queue |-> 0] /\ multiDone = {} /\ bar = 0
      /\ producerCount = fn.producers /\ consumerCount = fn.consumers
  BY <1>2 DEF Start
<1>4. fn \in Programs
  BY <1>3
<1>5. Done = {}
  BY <1>3 DEF Done
<1>6. \A q \in Queue : head[q] <= Len(fn.fifo[q])
  BY <1>1, <1>3, <1>4, FunctionFacts
<1>7. CountsMatchPendingTasks
  <2>1. \A v \in Barrier : /\ producerCount[v] = SlotSum(fn, Producers(fn, v))
                           /\ consumerCount[v] = SlotSum(fn, Consumers(fn, v))
    BY <1>1, <1>3, <1>4, FunctionFacts DEF CountsAddUp, Barrier
  <2>2. \A v : /\ Producers(fn, v) = {t \in Task \ Done : v \in fn.update[t]}
               /\ Consumers(fn, v) = {t \in Task \ Done : v \in fn.wait[t]}
    BY <1>5 DEF Producers, Consumers, Task
  <2> QED BY <2>1, <2>2 DEF CountsMatchPendingTasks
<1>8. \A v \in Barrier : ~(v < bar)
  BY <1>3 DEF Barrier
<1> QED BY <1>3, <1>4, <1>5, <1>6, <1>7, <1>8 DEF ExecInv

(* A step that moves no FIFO keeps the counters and the tasks done; it     *)
(* must keep hold of the barriers that have producers to come.             *)
LEMMA IdleStep ==
    ASSUME ExecInv, UNCHANGED <<fn, countVars, head, multiDone>>,
           \A v \in Barrier : v < bar' /\ producerCount[v] > 0 => HeldByPool(v)'
    PROVE  ExecInv' /\ Done' = Done
<1>1. UNCHANGED <<fn, producerCount, consumerCount, head, multiDone>>
  BY DEF countVars
<1>2. Done' = Done /\ Task' = Task /\ Barrier' = Barrier
  BY <1>1 DEF Done, Task, Barrier
<1>3. CountsMatchPendingTasks'
  BY <1>1, <1>2 DEF ExecInv, CountsMatchPendingTasks
<1>4. \A v \in Barrier' : v < bar' /\ producerCount'[v] > 0 => HeldByPool(v)'
  BY <1>1, <1>2
<1> QED BY <1>1, <1>2, <1>3, <1>4 DEF ExecInv

(* A FIFO passes over a DMA that has executed.                             *)
LEMMA PassOverStep ==
    ASSUME NumberedByPort, IndInv, ExecInv, PassOverProcessedDma
    PROVE  ExecInv' /\ HeadTask \in Done /\ Done' = Done
<1>1. PICK entry \in Registered : AlreadyProcessed(entry)
  BY DEF PassOverProcessedDma
<1>2. /\ HasHead /\ head' = [head EXCEPT ![queue] = @ + 1]
      /\ UNCHANGED <<fn, toVirtual, numReal, realId, producerCount, consumerCount, bar, multiDone>>
  BY DEF PassOverProcessedDma, Advance, inputVars, countVars
<1>3. HeadTask \in Done /\ head[queue] + 1 \in 1..Len(fn.fifo[queue])
  BY <1>1, <1>2, HeadStatus
<1>4. Done' = Done
  BY <1>2, <1>3, AdvanceAddsHead
<1>5. \A q \in Queue : head'[q] <= Len(fn.fifo[q])
  <2>1. head \in [Queue -> Nat] /\ queue \in Queue
    BY DEF IndInv, TypeOK
  <2>2. fn \in Programs /\ Len(fn.fifo[queue]) \in Nat
    BY <2>1, FunctionFacts DEF ExecInv
  <2> QED BY <1>2, <1>3, <2>1, <2>2 DEF ExecInv
<1>6. CountsMatchPendingTasks'
  BY <1>2, <1>4 DEF ExecInv, CountsMatchPendingTasks, Task, Barrier
<1>7. \A v \in Barrier' : v < bar' /\ producerCount'[v] > 0 => HeldByPool(v)'
  BY <1>2 DEF ExecInv, HeldByPool, Barrier
<1>8. \A t \in DOMAIN fn'.multi : t \in multiDone' <=> t \in Done'
  BY <1>2, <1>4 DEF ExecInv
<1> QED BY <1>2, <1>3, <1>4, <1>5, <1>6, <1>7, <1>8 DEF ExecInv

(* The head task runs for the first time, after the producers of the       *)
(* barriers it waits for.                                                  *)
LEMMA RunsOnce ==
    ASSUME NumberedByPort, IndInv, ExecInv, RunTask
    PROVE  /\ HeadTask \in Task \ Done /\ Done' = Done \cup {HeadTask}
           /\ \A v \in fn.wait[HeadTask] : Updaters(v) = {}
<1>1. PICK entry \in Registered :
        ~AlreadyProcessed(entry) /\ multiDone' = multiDone \cup entry
  BY DEF RunTask
<1>2. HasHead /\ UNCHANGED fn /\ head' = [head EXCEPT ![queue] = @ + 1] /\ ~Blocked(HeadTask)
  BY DEF RunTask, Advance, inputVars
<1>3. HeadTask \in Task /\ HeadTask \notin Done
  BY <1>1, <1>2, HeadStatus
<1>4. Done' = Done \cup {HeadTask}
  BY <1>2, AdvanceAddsHead
<1>5. ASSUME NEW v \in fn.wait[HeadTask] PROVE Updaters(v) = {}
  <2>1. v \in Barrier /\ ~(producerCount[v] > 0)
    BY <1>2, <1>3, FunctionFacts DEF Blocked, ExecInv
  <2> QED BY <2>1, CountersCoverTasks
<1> QED BY <1>3, <1>4, <1>5

LEMMA RunTaskExecutes ==
    ASSUME NumberedByPort, IndInv, ExecInv, RunTask
    PROVE  ExecInv'
<1> DEFINE t == HeadTask
           n == fn.count[t]
<1>1. PICK entry \in Registered :
        ~AlreadyProcessed(entry) /\ multiDone' = multiDone \cup entry
  BY DEF RunTask
<1>2. /\ HasHead /\ head' = [head EXCEPT ![queue] = @ + 1]
      /\ UNCHANGED <<fn, numReal, realId, bar>>
      /\ producerCount' = [v \in Barrier |->
                IF v \in fn.update[t] THEN producerCount[v] - n ELSE producerCount[v]]
      /\ consumerCount' = [v \in Barrier |->
                IF v \in fn.wait[t] THEN consumerCount[v] - n ELSE consumerCount[v]]
      /\ toVirtual' = Vacated(Exhausted(t))
  BY DEF RunTask, Advance, Execute, Minus, inputVars
<1>3. t \in Task \ Done /\ Done' = Done \cup {t} /\ \A v \in fn.wait[t] : Updaters(v) = {}
  BY RunsOnce
<1>4. /\ head[queue] + 1 \in 1..Len(fn.fifo[queue])
      /\ entry \subseteq {t} /\ (t \in DOMAIN fn.multi => entry = {t})
  BY <1>1, <1>2, HeadStatus
<1>5. fn \in Programs /\ Task' = Task /\ Barrier' = Barrier
  BY <1>2 DEF ExecInv, Task, Barrier
<1> HIDE DEF t
<1>6. \A q \in Queue : head'[q] <= Len(fn.fifo[q])
  <2>1. head \in [Queue -> Nat] /\ queue \in Queue
    BY DEF IndInv, TypeOK
  <2>2. Len(fn.fifo[queue]) \in Nat
    BY <1>5, <2>1, FunctionFacts
  <2> QED BY <1>2, <1>4, <2>1, <2>2 DEF ExecInv
<1>7. \A x \in DOMAIN fn.multi : x \in multiDone' <=> x \in Done'
  BY <1>1, <1>3, <1>4 DEF ExecInv
<1>8. \A v \in Barrier : Updaters(v)' = Updaters(v) \ {t} /\ Waiters(v)' = Waiters(v) \ {t}
  BY <1>2, <1>3, <1>5 DEF Updaters, Waiters
<1>9. ASSUME NEW v \in Barrier
      PROVE  /\ producerCount'[v] = SlotSum(fn, Updaters(v)')
             /\ consumerCount'[v] = SlotSum(fn, Waiters(v)')
  <2>1. Updaters(v) \in SUBSET Task /\ Waiters(v) \in SUBSET Task
    BY DEF Updaters, Waiters
  <2>2. /\ t \in Updaters(v) <=> v \in fn.update[t]
        /\ t \in Waiters(v) <=> v \in fn.wait[t]
    BY <1>3 DEF Updaters, Waiters
  <2>3. SlotSum(fn, Updaters(v) \ {t}) =
            IF t \in Updaters(v) THEN producerCount[v] - n ELSE producerCount[v]
    BY <1>3, <1>5, <2>1, SlotsWithout, CountersAreSums
  <2>4. SlotSum(fn, Waiters(v) \ {t}) =
            IF t \in Waiters(v) THEN consumerCount[v] - n ELSE consumerCount[v]
    BY <1>3, <1>5, <2>1, SlotsWithout, CountersAreSums
  <2> QED BY <1>2, <1>8, <2>2, <2>3, <2>4
<1>10. CountsMatchPendingTasks'
  <2>1. \A v \in Barrier :
          /\ producerCount'[v] = SlotSum(fn, {u \in Task \ Done' : v \in fn.update[u]})
          /\ consumerCount'[v] = SlotSum(fn, {u \in Task \ Done' : v \in fn.wait[u]})
    BY <1>2, <1>5, <1>9 DEF Updaters, Waiters
  <2> QED BY <1>2, <1>5, <2>1 DEF CountsMatchPendingTasks
(* The barriers that the task gives back have no producers left.           *)
<1>11. ASSUME NEW v \in Barrier, v < bar, producerCount'[v] > 0
       PROVE  HeldByPool(v)'
  <2>1. producerCount[v] > 0 /\ Updaters(v) # {}
    <3>1. n \in Nat /\ producerCount[v] \in Int
      BY <1>3, <1>5, FunctionFacts DEF IndInv, TypeOK
    <3>2. producerCount[v] > 0
      <4> HIDE DEF n
      <4> QED BY <1>2, <1>11, <3>1
    <3> QED BY <3>1, <3>2, CountersCoverTasks
  <2>2. HeldByPool(v)
    BY <1>11, <2>1 DEF ExecInv
  <2>3. \A w \in Exhausted(t) : w # v
    BY <1>3, <2>1 DEF Exhausted
  <2>4. ASSUME NEW w \in Exhausted(t) PROVE realId[w] # realId[v]
    <3>1. w \in fn.wait[t] /\ w \in Barrier /\ consumerCount[w] = n /\ n > 0
      BY <1>3, <1>5, FunctionFacts DEF Exhausted
    <3>2. w < bar
      <4>1. realId[w] \in 0..(numReal - 1)
        BY <3>1 DEF RunTask, Blocked, IsBarrierMapped, t
      <4>2. CASE fn.dynamic
        BY <3>1, <4>1, <4>2 DEF IndInv, BarrierKeptUntilConsumed, Free
      <4>3. CASE ~fn.dynamic
        <5>1. toVirtual[realId[w]] = w
          BY <3>1, <4>3 DEF RunTask, Blocked, IsBarrierMapped, t
        <5> QED BY <4>1, <5>1 DEF IndInv, BarrierKeptUntilConsumed
      <4> QED BY <4>2, <4>3
    <3>3. toVirtual[realId[w]] = w
      BY <3>1, <3>2 DEF IndInv, BarrierKeptUntilConsumed
    <3> QED BY <2>2, <2>3, <3>3 DEF HeldByPool
  <2>5. toVirtual'[realId[v]] = toVirtual[realId[v]]
    BY <1>2, <2>2, <2>4 DEF HeldByPool, Vacated
  <2> QED BY <1>2, <2>2, <2>5 DEF HeldByPool
<1> QED BY <1>2, <1>5, <1>6, <1>7, <1>10, <1>11 DEF ExecInv

LEMMA NextExecutes ==
    ASSUME NumberedByPort, IndInv, ExecInv, [Next]_vars
    PROVE  /\ ExecInv'
           /\ RunTask \/ Done' = Done
<1>1. bar \in Nat /\ Barrier \subseteq Int /\ numReal \in Nat /\ fn.numBarriers \in Nat
  BY FunctionFacts DEF IndInv, TypeOK, Barrier, ExecInv
<1>2. CASE RunTask
  BY <1>2, RunTaskExecutes
<1>3. CASE PassOverProcessedDma
  BY <1>3, PassOverStep
<1>4. CASE MapBarrier
  <2> DEFINE r == IF fn.dynamic THEN Head(nextReal) ELSE realId[bar]
  <2>1. /\ realId' = [realId EXCEPT ![bar] = r] /\ toVirtual' = [toVirtual EXCEPT ![r] = bar]
        /\ bar' = bar + 1 /\ bar < fn.numBarriers
        /\ UNCHANGED <<fn, numReal, countVars, head, multiDone>>
    BY <1>4 DEF MapBarrier, inputVars
  <2>2. r \in 0..(numReal - 1) /\ toVirtual[r] = Free
    <3>1. CASE fn.dynamic
      <4>1. nextReal # <<>> /\ nextReal \in Seq(0..(numReal - 1))
        BY <1>4, <3>1 DEF MapBarrier, HasBarriersToMap, IndInv, TypeOK
      <4>2. ASSUME NEW T, NEW s \in Seq(T), s # <<>>
            PROVE  1 \in DOMAIN s /\ Head(s) = s[1] /\ s[1] \in T
        BY <4>2
      <4>3. 1 \in DOMAIN nextReal /\ Head(nextReal) = nextReal[1] /\ nextReal[1] \in 0..(numReal - 1)
        BY <4>1, <4>2
      <4> QED BY <3>1, <4>3 DEF IndInv, PhysicalIdsConsistent
    <3>2. CASE ~fn.dynamic
      <4>1. bar \in Barrier
        BY <1>1, <2>1 DEF Barrier
      <4> QED BY <1>4, <3>2, <4>1 DEF MapBarrier, HasBarriersToMap, IndInv
    <3> QED BY <3>1, <3>2
  <2> HIDE DEF r
  <2>3. ASSUME NEW v \in Barrier, v < bar', producerCount[v] > 0
        PROVE  HeldByPool(v)'
    <3>1. toVirtual \in [0..(numReal - 1) -> Barrier \cup {Free}] /\ realId \in [Barrier -> Int]
      BY DEF IndInv, TypeOK
    <3>2. CASE v = bar
      BY <2>1, <2>2, <3>1, <3>2 DEF HeldByPool
    <3>3. CASE v # bar
      <4>1. v < bar
        BY <1>1, <2>1, <2>3, <3>3
      <4>2. HeldByPool(v) /\ v # Free
        BY <2>3, <4>1 DEF ExecInv, Barrier, Free
      <4> QED BY <2>1, <2>2, <3>1, <3>3, <4>2 DEF HeldByPool
    <3> QED BY <3>2, <3>3
  <2> QED BY <2>1, <2>3, IdleStep
<1>5. CASE Grow
  <2>1. /\ numReal' = numReal + 1
        /\ toVirtual' = [x \in 0..numReal |-> IF x = numReal THEN Free ELSE toVirtual[x]]
        /\ UNCHANGED <<fn, realId, countVars, bar, head, multiDone>>
    BY <1>5 DEF Grow, inputVars
  <2>2. ASSUME NEW v \in Barrier, HeldByPool(v) PROVE HeldByPool(v)'
    BY <1>1, <2>1, <2>2 DEF HeldByPool
  <2> QED BY <2>1, <2>2, IdleStep DEF ExecInv
<1>6. CASE Shrink
  <2>1. UNCHANGED <<fn, countVars, bar, head, multiDone>>
    BY <1>6 DEF Shrink, inputVars
  <2> QED BY <1>6, <2>1, ShrinkStep, IdleStep DEF ExecInv
<1>7. CASE \/ StartRound \/ Finish \/ EndMapping \/ RunFails \/ LeaveQueue
           \/ ThrowNotProgressed \/ SimulationBlocked \/ NextRound \/ UNCHANGED vars
  <2>1. UNCHANGED <<fn, physVars, countVars, bar, head, multiDone>>
    BY <1>7 DEF StartRound, Finish, EndMapping, RunFails, LeaveQueue, ThrowNotProgressed,
                SimulationBlocked, NextRound, inputVars, vars
  <2>2. \A v \in Barrier : HeldByPool(v) => HeldByPool(v)'
    BY <2>1 DEF HeldByPool, physVars
  <2> QED BY <2>1, <2>2, IdleStep DEF ExecInv
<1> QED BY <1>2, <1>3, <1>4, <1>5, <1>6, <1>7 DEF Next, Returned

LEMMA ExecutionInvariant ==
    ASSUME NumberedByPort
    PROVE  Spec => []ExecInv
<1>1. Init => ExecInv
  BY InitExecInv
<1>2. IndInv /\ ExecInv /\ [Next]_vars => ExecInv'
  BY NextExecutes
<1> QED BY <1>1, <1>2, Invariance, PTL DEF Spec

(* What is left in a barrier's counters is what the tasks still to run     *)
(* will take, DMAs that sit in several FIFOs counted once.                 *)
THEOREM CountsMatch ==
    ASSUME NumberedByPort
    PROVE  Spec => []CountsMatchPendingTasks
<1>1. ExecInv => CountsMatchPendingTasks
  BY DEF ExecInv
<1> QED BY <1>1, ExecutionInvariant, PTL

(* processSim takes any id in range for a mapped barrier: no task still to *)
(* run finds there an id that was handed on.                               *)
THEOREM NeededKeepsId ==
    ASSUME NumberedByPort
    PROVE  Spec => []NeededBarrierKeepsId
<1>1. IndInv /\ ExecInv => NeededBarrierKeepsId
  <2>1. ASSUME IndInv, ExecInv, NEW v \in 0..(bar - 1),
               NEW t \in Task \ Done, v \in fn.wait[t] \cup fn.update[t]
        PROVE  IsBarrierMapped(v) /\ toVirtual[realId[v]] = v
    <3>1. v \in Barrier /\ v < bar
      <4>1. fn.numBarriers \in Nat /\ bar \in 0..fn.numBarriers
        BY <2>1, FunctionFacts DEF IndInv, TypeOK, ExecInv
      <4> QED BY <4>1 DEF Barrier
    <3> QED BY <2>1, <3>1, NeededBarrierHeld DEF HeldByPool
  <2> QED BY <2>1 DEF NeededBarrierKeepsId
<1> QED BY <1>1, Invariance, ExecutionInvariant, PTL

(* A FIFO passes over a DMA without running it only when another one has   *)
(* run it.                                                                 *)
THEOREM SkippedWasProcessed ==
    ASSUME NumberedByPort
    PROVE  Spec => SkippedDmaWasProcessed
<1>1. IndInv /\ ExecInv /\ [Next]_vars => [PassOverProcessedDma => HeadTask \in Done]_vars
  BY PassOverStep
<1> QED BY <1>1, Invariance, ExecutionInvariant, PTL DEF Spec, SkippedDmaWasProcessed

(* Every simulation, whatever the pool, executes the function as the       *)
(* barriers promise: FIFO by FIFO, and no task before its producers.       *)
THEOREM ExecutionIsCorrect ==
    ASSUME NumberedByPort
    PROVE  Spec => ExecutionRefined
<1>1. Init => Execution!Init
  BY DEF Init, Start, Done, Execution!Init
<1>2. IndInv /\ ExecInv /\ [Next]_vars => [Execution!Next]_<<fn, Done>>
  <2>1. ASSUME IndInv, ExecInv, [Next]_vars, RunTask
        PROVE  Execution!Run(HeadTask)
    <3> DEFINE t == HeadTask
               i == head[queue] + 1
    <3>1. t \in Task \ Done /\ Done' = Done \cup {t} /\ \A v \in fn.wait[t] : Updaters(v) = {}
      BY <2>1, RunsOnce
    <3>2. HasHead /\ fn' = fn /\ queue \in Queue /\ head[queue] \in Nat /\ fn \in Programs
      BY <2>1 DEF RunTask, Advance, inputVars, IndInv, TypeOK, ExecInv
    <3>3. i \in 1..Len(fn.fifo[queue]) /\ fn.fifo[queue][i] = t
      <4>1. PICK entry \in Registered : TRUE
        BY <2>1 DEF RunTask
      <4> QED BY <2>1, <3>2, <4>1, HeadStatus DEF HeadTask
    <3>4. Execution!AtHead(t)
      <4>1. queue \in DOMAIN fn.fifo /\ i \in DOMAIN fn.fifo[queue]
        BY <2>1, <3>2, <3>3, FunctionFacts, Shape
      <4>2. i \in 1..fn.numTasks
        <5>1. /\ Len(fn.fifo[queue]) <= fn.numTasks
              /\ Len(fn.fifo[queue]) \in Nat /\ fn.numTasks \in Nat
          BY <2>1, <3>2, FifoLength, FunctionFacts
        <5> QED BY <3>2, <3>3, <5>1
      <4>3. \A j \in 1..(i - 1) : fn.fifo[queue][j] \in Done
        <5>1. 1..(i - 1) = 1..head[queue]
          BY <3>2
        <5> QED BY <3>2, <5>1, DoneTasks
      <4> QED BY <3>3, <4>1, <4>2, <4>3 DEF Execution!AtHead
    <3>5. \A u \in Task : fn.update[u] \cap fn.wait[t] # {} => u \in Done
      BY <3>1 DEF Updaters
    <3>6. Execution!Task = Task
      BY DEF Execution!Task, Task
    <3> QED BY <3>1, <3>2, <3>4, <3>5, <3>6 DEF Execution!Run, Execution!Precedes
  <2>2. ASSUME IndInv, ExecInv, [Next]_vars, ~RunTask
        PROVE  UNCHANGED <<fn, Done>>
    <3>1. Done' = Done
      BY <2>2, NextExecutes
    <3>2. fn' = fn
      BY <2>2, SameFunction
    <3> QED BY <3>1, <3>2
  <2>3. ASSUME IndInv, ExecInv, [Next]_vars, RunTask
        PROVE  Execution!Next
    <3>1. HeadTask \in Execution!Task
      <4>1. HeadTask \in Task
        BY <2>3, RunsOnce
      <4> QED BY <4>1 DEF Execution!Task, Task
    <3> QED BY <2>1, <2>3, <3>1 DEF Execution!Next
  <2> QED BY <2>2, <2>3
<1> QED BY <1>1, <1>2, Invariance, ExecutionInvariant, PTL
        DEF Spec, ExecutionRefined, Execution!Spec

-----------------------------------------------------------------------------
(* Rounds without progress.                                                *)

FifoHead(q) == fn.fifo[q][head[q] + 1]

(* The FIFOs that the current round has visited.                           *)
Visited == CASE phase = "run" -> 0..(queue - 1)
             [] phase = "adjust" -> Queue
             [] OTHER -> {}

(* A round without progress has found no barrier it could map and no task  *)
(* it could run: the FIFOs it has visited wait at their heads.             *)
RoundInv ==
    ~progressed =>
        /\ phase \in {"map", "run", "adjust"} => bar < fn.numBarriers \/ ~FifosDrained
        /\ phase \in {"run", "adjust"} /\ fn.dynamic /\ bar < fn.numBarriers => nextReal = <<>>
        /\ \A q \in Visited : head[q] < Len(fn.fifo[q]) =>
                Blocked(FifoHead(q)) /\ FifoHead(q) \notin Done

LEMMA NextRoundInv ==
    ASSUME NumberedByPort, IndInv, ExecInv, RoundInv, [Next]_vars
    PROVE  RoundInv'
<1>1. CASE MapBarrier \/ RunTask \/ PassOverProcessedDma \/ Grow
  <2>1. progressed' = TRUE
    BY <1>1 DEF MapBarrier, RunTask, PassOverProcessedDma, Grow, Advance
  <2> QED BY <2>1 DEF RoundInv
<1>2. CASE Finish \/ RunFails \/ Shrink \/ ThrowNotProgressed \/ SimulationBlocked \/ NextRound
  <2>1. phase' \in {"success", "failure", "throw", "round"}
    BY <1>2 DEF Finish, RunFails, Shrink, ThrowNotProgressed, SimulationBlocked, NextRound
  <2> QED BY <2>1 DEF RoundInv, Visited
<1>3. CASE StartRound
  <2>1. /\ bar < fn.numBarriers \/ ~FifosDrained
        /\ phase' = "map" /\ UNCHANGED <<fn, bar, head>>
    BY <1>3 DEF StartRound, inputVars
  <2> QED BY <2>1 DEF RoundInv, Visited, FifosDrained
<1>4. CASE EndMapping
  <2>1. /\ phase = "map" /\ ~(bar < fn.numBarriers /\ HasBarriersToMap)
        /\ phase' \in {"run", "throw"} /\ queue' = 0
        /\ UNCHANGED <<fn, nextReal, bar, head, progressed>>
    BY <1>4 DEF EndMapping, inputVars, physVars
  <2>2. Visited' = {}
    BY <2>1 DEF Visited
  <2>3. fn.dynamic /\ bar < fn.numBarriers => nextReal = <<>>
    BY <2>1 DEF HasBarriersToMap
  <2> QED BY <2>1, <2>2, <2>3 DEF RoundInv, FifosDrained
<1>5. CASE LeaveQueue
  <2>1. /\ phase = "run" /\ phase' \in {"run", "adjust"}
        /\ HasHead => Blocked(HeadTask) /\ \E entry \in Registered : ~AlreadyProcessed(entry)
        /\ IF queue = UPA THEN phase' = "adjust"
                          ELSE queue' = queue + 1 /\ phase' = "run"
        /\ UNCHANGED <<fn, realId, toVirtual, numReal, nextReal, producerCount, bar, head, progressed>>
    BY <1>5 DEF LeaveQueue, inputVars, physVars, countVars
  <2>2. queue \in Queue /\ NumDma \in Nat
    BY NumDmaAssumption DEF IndInv, TypeOK
  <2>3. Visited' \subseteq Visited \cup {queue}
    BY <2>1, <2>2 DEF Visited, Queue, UPA
  <2>4. ASSUME ~progressed, head[queue] < Len(fn.fifo[queue])
        PROVE  Blocked(FifoHead(queue)) /\ FifoHead(queue) \notin Done
    <3>1. PICK entry \in Registered : ~AlreadyProcessed(entry)
      BY <2>1, <2>4 DEF HasHead
    <3> QED BY <2>1, <2>4, <3>1, HeadStatus DEF HasHead, HeadTask, FifoHead
  <2>5. ~progressed => \A q \in Visited' : head[q] < Len(fn.fifo[q]) =>
                            Blocked(FifoHead(q)) /\ FifoHead(q) \notin Done
    BY <2>3, <2>4 DEF RoundInv
  <2>6. /\ \A t : Blocked(t)' <=> Blocked(t)
        /\ \A q : FifoHead(q)' = FifoHead(q)
        /\ Done' = Done /\ FifosDrained' = FifosDrained
    BY <2>1 DEF Blocked, IsBarrierMapped, FifoHead, Done, FifosDrained
  <2>7. ~progressed => (bar < fn.numBarriers \/ ~FifosDrained)
    BY <2>1 DEF RoundInv
  <2>8. ~progressed => (fn.dynamic /\ bar < fn.numBarriers => nextReal = <<>>)
    BY <2>1 DEF RoundInv
  <2> QED BY <2>1, <2>5, <2>6, <2>7, <2>8 DEF RoundInv
<1>6. CASE UNCHANGED vars
  <2>1. UNCHANGED <<fn, realId, toVirtual, numReal, nextReal, producerCount, bar, head, progressed, phase, queue>>
    BY <1>6 DEF vars, inputVars, physVars, countVars
  <2> QED BY <2>1 DEF RoundInv, Visited, Blocked, IsBarrierMapped, FifoHead, Done, FifosDrained
<1> QED BY <1>1, <1>2, <1>3, <1>4, <1>5, <1>6 DEF Next, Returned

(* A round of an ordered function that has mapped all barriers runs a      *)
(* task: the first task still to run is at the head of a FIFO, its         *)
(* barriers are held and its producers are done.                           *)
LEMMA StalledForBarriers ==
    ASSUME NumberedByPort, IndInv, ExecInv, RoundInv, OrderedFunction(fn),
           phase = "adjust", ~progressed
    PROVE  bar < fn.numBarriers
<1> SUFFICES ASSUME ~(bar < fn.numBarriers) PROVE FALSE
  OBVIOUS
<1>1. /\ fn \in Programs /\ ~FifosDrained /\ head \in [Queue -> Nat]
      /\ \A q \in Queue : head[q] < Len(fn.fifo[q]) =>
                Blocked(FifoHead(q)) /\ FifoHead(q) \notin Done
  BY DEF RoundInv, Visited, ExecInv, IndInv, TypeOK
<1>2. \A v \in Barrier : v < bar
  <2>1. bar \in Nat /\ fn.numBarriers \in Nat
    BY <1>1, FunctionFacts DEF IndInv, TypeOK
  <2> QED BY <2>1 DEF Barrier
<1>3. PICK p \in Queue : head[p] # Len(fn.fifo[p])
  BY <1>1 DEF FifosDrained
<1>4. \A q \in Queue : /\ head[q] \in Nat /\ Len(fn.fifo[q]) \in Nat
                       /\ head[q] <= Len(fn.fifo[q])
                       /\ head[q] < Len(fn.fifo[q]) => head[q] + 1 \in 1..Len(fn.fifo[q])
  BY <1>1, FunctionFacts DEF ExecInv
<1>5. FifoHead(p) \in Task \ Done
  <2>1. head[p] < Len(fn.fifo[p])
    BY <1>3, <1>4
  <2> QED BY <1>1, <1>4, <2>1, FunctionFacts DEF FifoHead
<1>6. Task \ Done \subseteq Nat /\ Task \ Done # {}
  BY <1>1, <1>5, FunctionFacts
<1>7. PICK t \in Task \ Done : \A u \in Task \ Done : t <= u
  BY <1>6, LeastNat
<1>8. PICK q \in Queue : \E i \in DOMAIN fn.fifo[q] : fn.fifo[q][i] = t
  BY <1>1, <1>7, FunctionFacts DEF QueuedByPort, Task
<1>9. PICK i \in 1..Len(fn.fifo[q]) : fn.fifo[q][i] = t
  BY <1>1, <1>8, FunctionFacts
<1>10. head[q] < Len(fn.fifo[q]) /\ head[q] + 1 <= i
  <2>1. i \notin 1..head[q]
    BY <1>7, <1>9, DoneTasks
  <2> QED BY <1>4, <2>1
<1>11. FifoHead(q) \in Task \ Done /\ FifoHead(q) <= t
  <2>1. head[q] + 1 \in 1..Len(fn.fifo[q])
    BY <1>4, <1>10
  <2>2. FifoHead(q) \in Task
    BY <1>1, <2>1, FunctionFacts DEF FifoHead
  <2>3. FifoHead(q) <= t
    BY <1>1, <1>9, <1>10, <2>1, FifoAscends DEF FifoHead
  <2> QED BY <1>1, <1>10, <2>2, <2>3
<1>12. FifoHead(q) = t
  BY <1>6, <1>7, <1>11
<1>13. Blocked(t)
  BY <1>1, <1>10, <1>12
<1>14. \A v \in fn.wait[t] \cup fn.update[t] : IsBarrierMapped(v)
  <2>1. ASSUME NEW v \in fn.wait[t] \cup fn.update[t] PROVE IsBarrierMapped(v)
    <3>1. v \in Barrier
      BY <1>1, <1>7, <2>1, FunctionFacts
    <3> QED BY <1>2, <1>7, <2>1, <3>1, NeededBarrierHeld
  <2> QED BY <2>1
<1>15. PICK u \in Task \ Done : fn.update[u] \cap fn.wait[t] # {}
  BY <1>7, <1>13, <1>14, BlockedByTask
<1>16. u < t
  BY <1>7, <1>15 DEF OrderedFunction, Task
<1> QED BY <1>6, <1>7, <1>15, <1>16

-----------------------------------------------------------------------------
(* The pool of legalization, and the pool that is large enough.            *)

(* Between two rounds a pool beyond the limit has no id to spare, but for  *)
(* the one that a barrier still to be mapped will take.                    *)
PoolInv ==
    /\ legalize /\ numReal > limit /\ phase \in {"round", "map"} =>
        \/ FreeIds(numReal, toVirtual) = {}
        \/ bar < fn.numBarriers /\ \E r : FreeIds(numReal, toVirtual) = {r}
    /\ phase # "throw"

(* The ring is empty exactly when no id is free.                           *)
LEMMA RingAndFreeIds ==
    ASSUME IndInv, fn.dynamic
    PROVE  nextReal = <<>> <=> FreeIds(numReal, toVirtual) = {}
<1>1. /\ nextReal \in Seq(0..(numReal - 1))
      /\ \A i \in DOMAIN nextReal : toVirtual[nextReal[i]] = Free
      /\ \A r \in 0..(numReal - 1) : toVirtual[r] = Free => \E i \in DOMAIN nextReal : nextReal[i] = r
  BY DEF IndInv, TypeOK, PhysicalIdsConsistent
<1>2. ASSUME NEW T, NEW s \in Seq(T)
      PROVE  (s # <<>> => 1 \in DOMAIN s /\ s[1] \in T) /\ (s = <<>> => DOMAIN s = {})
  BY <1>2
<1>3. ASSUME nextReal # <<>> PROVE FreeIds(numReal, toVirtual) # {}
  <2>1. 1 \in DOMAIN nextReal /\ nextReal[1] \in 0..(numReal - 1)
    BY <1>1, <1>2, <1>3
  <2> QED BY <1>1, <2>1 DEF FreeIds
<1>4. ASSUME nextReal = <<>> PROVE FreeIds(numReal, toVirtual) = {}
  <2>1. DOMAIN nextReal = {}
    BY <1>1, <1>2, <1>4
  <2> QED BY <1>1, <2>1 DEF FreeIds
<1> QED BY <1>3, <1>4

(* What Shrink leaves beyond the limit is in use.                          *)
LEMMA ShrinkKeepsNoSpare ==
    ASSUME IndInv, Shrink, numReal' > limit
    PROVE  FreeIds(numReal', toVirtual') = {}
<1> DEFINE free == FreeIds(numReal, toVirtual)
           k == numReal - limit
           removed == Smallest(free, k)
           below(r) == {x \in free : x < r}
<1>1. /\ numReal \in Nat /\ limit \in Nat /\ numReal > limit
      /\ numReal' = numReal - Cardinality(removed)
  BY LimitsAssumption DEF Shrink, IndInv, TypeOK
<1>2. k \in Nat /\ free \subseteq Nat /\ IsFiniteSet(free)
  <2>1. IsFiniteSet(0..(numReal - 1)) /\ free \in SUBSET (0..(numReal - 1))
    BY <1>1, Ranges DEF FreeIds
  <2> QED BY <1>1, <2>1, FS_Subset
<1>3. removed = {r \in free : Cardinality(below(r)) < k}
  BY DEF Smallest
<1>4. \A r : IsFiniteSet(below(r)) /\ Cardinality(below(r)) \in Nat
  <2>1. \A r : below(r) \in SUBSET free
    OBVIOUS
  <2>2. \A r : IsFiniteSet(below(r))
    BY <1>2, <2>1, FS_Subset
  <2> QED BY <2>2, FS_CardinalityType
<1> SUFFICES ASSUME FreeIds(numReal', toVirtual') # {} PROVE FALSE
  OBVIOUS
<1>5. free \ removed # {} /\ free \ removed \subseteq Nat
  <2>1. \E r \in free : r \notin removed
    BY ShrinkStep
  <2> QED BY <1>2, <2>1
<1> HIDE DEF free, k
<1>6. PICK r \in free \ removed : \A s \in free \ removed : r <= s
  <2> HIDE DEF removed
  <2> QED BY <1>5, LeastNat
<1>7. Cardinality(below(r)) >= k
  <2>1. ~(Cardinality(below(r)) < k)
    BY <1>3, <1>6
  <2> QED BY <1>2, <1>4, <2>1
<1>8. removed = below(r)
  <2>1. ASSUME NEW x \in free, x < r PROVE x \in removed
    <3> HIDE DEF removed
    <3>1. x \in Nat /\ r \in Nat /\ ~(r <= x)
      BY <1>2, <1>6, <2>1
    <3> QED BY <1>6, <2>1, <3>1
  <2>2. ASSUME NEW x \in removed PROVE x < r
    <3>1. x \in Nat /\ r \in Nat
      BY <1>2, <1>3, <1>6, <2>2
    <3>2. SUFFICES ASSUME ~(x < r) PROVE FALSE
      OBVIOUS
    <3>3. below(r) \subseteq below(x)
      <4>1. \A y \in free : y < r => y < x
        <5> HIDE DEF removed
        <5>1. \A y \in Nat : y < r => y < x
          BY <3>1, <3>2
        <5> QED BY <1>2, <5>1
      <4> QED BY <4>1
    <3>4. Cardinality(below(r)) <= Cardinality(below(x))
      BY <1>4, <3>3, FS_Subset
    <3>5. Cardinality(below(x)) < k
      BY <1>3, <2>2
    <3> HIDE DEF below
    <3> QED BY <1>2, <1>4, <1>7, <3>4, <3>5
  <2> QED BY <1>3, <2>1, <2>2
<1>9. numReal' <= limit
  <2>1. numReal' = numReal - Cardinality(below(r)) /\ Cardinality(below(r)) >= numReal - limit
    BY <1>1, <1>7, <1>8 DEF k
  <2> HIDE DEF below, removed
  <2> QED BY <1>1, <1>4, <2>1
<1> QED BY <1>1, <1>9

LEMMA NextPoolInv ==
    ASSUME NumberedByPort, IndInv, ExecInv, RoundInv, OrderedFunction(fn), PoolInv, [Next]_vars
    PROVE  PoolInv'
<1>1. /\ bar \in Int /\ numReal \in Nat /\ limit \in Nat
      /\ legalize => fn.dynamic
  BY LimitsAssumption DEF IndInv, TypeOK
<1>2. CASE StartRound \/ NextRound
  <2>1. /\ UNCHANGED <<fn, limit, legalize, numReal, toVirtual, bar>>
        /\ phase' \in {"round", "map"}
    BY <1>2 DEF StartRound, NextRound, inputVars, physVars
  <2>2. legalize /\ numReal > limit =>
            \/ FreeIds(numReal, toVirtual) = {}
            \/ bar < fn.numBarriers /\ \E r : FreeIds(numReal, toVirtual) = {r}
    BY <1>2 DEF StartRound, NextRound, PoolInv
  <2> QED BY <2>1, <2>2 DEF PoolInv
<1>3. CASE Finish \/ RunFails \/ SimulationBlocked \/ RunTask \/ PassOverProcessedDma \/ LeaveQueue
  <2>1. phase' \in {"success", "failure", "run", "adjust"}
    BY <1>3 DEF Finish, RunFails, SimulationBlocked, RunTask, PassOverProcessedDma, LeaveQueue
  <2> QED BY <2>1 DEF PoolInv
<1>4. CASE MapBarrier
  <2>1. /\ phase = "map" /\ phase' = "map" /\ UNCHANGED <<fn, limit, legalize, numReal>>
        /\ HasBarriersToMap
        /\ fn.dynamic => toVirtual' = [toVirtual EXCEPT ![Head(nextReal)] = bar]
    BY <1>4 DEF MapBarrier, inputVars
  <2>2. ASSUME legalize, numReal > limit PROVE FreeIds(numReal, toVirtual') = {}
    <3>1. nextReal # <<>> /\ fn.dynamic
      BY <1>1, <2>1, <2>2 DEF HasBarriersToMap
    <3>2. PICK r : FreeIds(numReal, toVirtual) = {r}
      BY <2>1, <2>2, <3>1, RingAndFreeIds DEF PoolInv
    <3>3. Head(nextReal) \in FreeIds(numReal, toVirtual)
      <4>1. ASSUME NEW T, NEW s \in Seq(T), s # <<>>
            PROVE  1 \in DOMAIN s /\ Head(s) = s[1] /\ s[1] \in T
        BY <4>1
      <4>2. nextReal \in Seq(0..(numReal - 1)) /\ \A i \in DOMAIN nextReal : toVirtual[nextReal[i]] = Free
        BY <3>1 DEF IndInv, TypeOK, PhysicalIdsConsistent
      <4> QED BY <3>1, <4>1, <4>2 DEF FreeIds
    <3>4. \A x \in 0..(numReal - 1) :
              toVirtual'[x] = IF x = Head(nextReal) THEN bar ELSE toVirtual[x]
      BY <2>1, <3>1 DEF IndInv, TypeOK
    <3>5. bar # Free
      BY DEF IndInv, TypeOK, Free
    <3> QED BY <3>2, <3>3, <3>4, <3>5 DEF FreeIds
  <2> QED BY <2>1, <2>2 DEF PoolInv
<1>5. CASE EndMapping
  <2>1. /\ phase = "map" /\ ~(bar < fn.numBarriers /\ HasBarriersToMap)
        /\ IF ~(legalize /\ numReal > limit) THEN phase' = "run"
           ELSE IF Free \in Active THEN phase' = "throw" ELSE phase' = "run"
    BY <1>5 DEF EndMapping
  <2>2. ASSUME legalize, numReal > limit, Free \in Active PROVE FALSE
    <3>1. FreeIds(numReal, toVirtual) # {} /\ fn.dynamic
      BY <1>1, <2>2 DEF Active, FreeIds
    <3>2. bar < fn.numBarriers
      BY <2>1, <2>2, <3>1 DEF PoolInv
    <3> QED BY <2>1, <3>1, <3>2, RingAndFreeIds DEF HasBarriersToMap
  <2> QED BY <2>1, <2>2 DEF PoolInv
<1>6. CASE Grow
  <2>1. /\ phase = "adjust" /\ ~progressed /\ FreeIds(numReal, toVirtual) = {}
        /\ phase' = "round" /\ UNCHANGED <<fn, bar>> /\ numReal' = numReal + 1
        /\ toVirtual' = [r \in 0..numReal |-> IF r = numReal THEN Free ELSE toVirtual[r]]
    BY <1>6 DEF Grow, inputVars
  <2>2. bar < fn.numBarriers
    BY <2>1, StalledForBarriers
  <2>3. FreeIds(numReal', toVirtual') = {numReal}
    BY <1>1, <2>1 DEF FreeIds
  <2> QED BY <2>1, <2>2, <2>3 DEF PoolInv
<1>7. CASE Shrink
  <2>1. phase' = "round" /\ UNCHANGED limit
    BY <1>7 DEF Shrink, inputVars
  <2>2. numReal' > limit => FreeIds(numReal', toVirtual') = {}
    BY <1>7, ShrinkKeepsNoSpare
  <2> QED BY <2>1, <2>2 DEF PoolInv
<1>8. CASE ThrowNotProgressed
  <2>1. phase = "adjust" /\ ~progressed /\ legalize /\ FreeIds(numReal, toVirtual) # {}
    BY <1>8 DEF ThrowNotProgressed
  <2>2. bar < fn.numBarriers
    BY <2>1, StalledForBarriers
  <2>3. nextReal = <<>> /\ fn.dynamic
    BY <1>1, <2>1, <2>2 DEF RoundInv
  <2> QED BY <2>1, <2>3, RingAndFreeIds
<1>9. CASE UNCHANGED vars
  BY <1>9 DEF vars, inputVars, physVars, PoolInv
<1> QED BY <1>2, <1>3, <1>4, <1>5, <1>6, <1>7, <1>8, <1>9 DEF Next, Returned

LEMMA ProgressInvariant ==
    ASSUME NumberedByPort
    PROVE  Spec => []RoundInv /\ [](OrderedFunction(fn) => PoolInv)
<1>1. Init => RoundInv /\ PoolInv
  <2>1. ASSUME Init PROVE phase = "round" /\ ~(numReal > limit)
    <3>1. limit \in Limits /\ numReal = limit /\ phase = "round"
      BY <2>1 DEF Init, Start
    <3> QED BY <3>1, LimitsAssumption
  <2> QED BY <2>1 DEF RoundInv, PoolInv, Visited
<1>2. IndInv /\ ExecInv /\ RoundInv /\ [Next]_vars => RoundInv'
  BY NextRoundInv
<1>3. [Next]_vars => fn' = fn
  BY SameFunction
<1>4. /\ IndInv /\ ExecInv /\ RoundInv /\ (OrderedFunction(fn) => PoolInv) /\ [Next]_vars
      => (OrderedFunction(fn) => PoolInv)'
  <2>1. ASSUME IndInv, ExecInv, RoundInv, OrderedFunction(fn) => PoolInv, [Next]_vars,
               OrderedFunction(fn)'
        PROVE  PoolInv'
    <3>1. OrderedFunction(fn)
      BY <1>3, <2>1 DEF OrderedFunction
    <3> QED BY <2>1, <3>1, NextPoolInv
  <2> QED BY <2>1
<1> QED BY <1>1, <1>2, <1>4, Invariance, ExecutionInvariant, PTL DEF Spec

(* Legalization of an ordered function meets neither of its internal       *)
(* errors: an invented barrier is taken in the next round, and a round     *)
(* without progress waits for a barrier, never for a task.                 *)
THEOREM LegalizationSucceeds ==
    ASSUME NumberedByPort
    PROVE  Spec => []LegalizationNeverThrows
<1>1. (OrderedFunction(fn) => PoolInv) => LegalizationNeverThrows
  BY DEF PoolInv, LegalizationNeverThrows
<1> QED BY <1>1, ProgressInvariant, PTL

-----------------------------------------------------------------------------
(* A pool with an id for every virtual barrier.                            *)

(* The pool has an id for a barrier that is still to be mapped.            *)
LEMMA EnoughIds ==
    ASSUME NumberedByPort, IndInv, fn \in Programs, fn.dynamic,
           numReal >= fn.numBarriers, bar < fn.numBarriers
    PROVE  nextReal # <<>>
<1> SUFFICES ASSUME nextReal = <<>> PROVE FALSE
  OBVIOUS
<1>1. /\ bar \in Nat /\ numReal \in Nat /\ fn.numBarriers \in Nat
      /\ toVirtual \in [0..(numReal - 1) -> Barrier \cup {Free}]
  BY FunctionFacts DEF IndInv, TypeOK
<1>2. \A r \in 0..(numReal - 1) : toVirtual[r] # Free
  BY RingAndFreeIds DEF FreeIds
<1>3. \A r \in 0..(numReal - 1) : toVirtual[r] \in 0..(bar - 1) /\ realId[toVirtual[r]] = r
  <2>1. \A r \in 0..(numReal - 1) : toVirtual[r] \in Barrier /\ toVirtual[r] < bar
    BY <1>1, <1>2 DEF IndInv, BarrierKeptUntilConsumed
  <2>2. \A r \in 0..(numReal - 1) : realId[toVirtual[r]] = r
    BY <1>2 DEF IndInv, PhysicalIdsConsistent
  <2> QED BY <1>1, <2>1, <2>2 DEF Barrier
<1>4. toVirtual \in [0..(numReal - 1) -> 0..(bar - 1)]
  BY <1>1, <1>3
<1>5. /\ IsFiniteSet(0..(numReal - 1)) /\ Cardinality(0..(numReal - 1)) = numReal
      /\ IsFiniteSet(0..(bar - 1)) /\ Cardinality(0..(bar - 1)) = bar
  BY <1>1, Ranges
<1>6. Cardinality(0..(bar - 1)) < Cardinality(0..(numReal - 1))
  BY <1>1, <1>5
<1>7. \A f \in [0..(numReal - 1) -> 0..(bar - 1)] :
          \E x, y \in 0..(numReal - 1) : x # y /\ f[x] = f[y]
  BY <1>5, <1>6, FS_PigeonHole
<1>8. PICK x \in 0..(numReal - 1), y \in 0..(numReal - 1) : x # y /\ toVirtual[x] = toVirtual[y]
  BY <1>4, <1>7
<1> QED BY <1>3, <1>8

(* With enough barriers the pool never grows, no batch is collected and    *)
(* nothing fails.                                                          *)
EnoughInv ==
    OrderedFunction(fn) /\ fn.dynamic /\ limit >= fn.numBarriers =>
        /\ numReal = limit
        /\ batches = <<>>
        /\ phase \notin {"failure", "throw"}

LEMMA NextEnough ==
    ASSUME NumberedByPort, IndInv, ExecInv, RoundInv, OrderedFunction(fn) => PoolInv',
           EnoughInv, [Next]_vars
    PROVE  EnoughInv'
<1>1. UNCHANGED <<fn, limit>>
  BY SameFunction
<1> SUFFICES ASSUME OrderedFunction(fn), fn.dynamic, limit >= fn.numBarriers
             PROVE  numReal' = limit /\ batches' = <<>> /\ phase' # "failure" /\ phase' # "throw"
  BY <1>1 DEF EnoughInv, OrderedFunction
<1>2. /\ numReal = limit /\ batches = <<>> /\ phase # "failure" /\ phase' # "throw"
      /\ limit \in Nat /\ fn \in Programs
  BY LimitsAssumption DEF EnoughInv, PoolInv, IndInv, TypeOK, ExecInv
<1>3. ~(numReal > limit)
  BY <1>2
(* The counters cover a task that runs for the first time.                 *)
<1>4. ~RunFails
  <2> SUFFICES ASSUME RunFails PROVE FALSE
    OBVIOUS
  <2>1. PICK entry \in Registered : ~AlreadyProcessed(entry)
    BY DEF RunFails
  <2>2. HasHead /\ ~CountsSuffice(HeadTask)
    BY DEF RunFails
  <2>3. HeadTask \in Task \ Done
    BY <2>1, <2>2, HeadStatus
  <2>4. fn.wait[HeadTask] \subseteq Barrier /\ fn.update[HeadTask] \subseteq Barrier
    BY <1>2, <2>3, FunctionFacts
  <2>5. /\ \A v \in fn.wait[HeadTask] : HeadTask \in Waiters(v)
        /\ \A v \in fn.update[HeadTask] : HeadTask \in Updaters(v)
    BY <2>3 DEF Waiters, Updaters
  <2>6. /\ \A v \in fn.wait[HeadTask] : fn.count[HeadTask] <= consumerCount[v]
        /\ \A v \in fn.update[HeadTask] : fn.count[HeadTask] <= producerCount[v]
    BY <2>4, <2>5, CountersCoverTasks
  <2>7. fn.count[HeadTask] \in Int /\ \A v \in Barrier : consumerCount[v] \in Int /\ producerCount[v] \in Int
    BY <1>2, <2>3, FunctionFacts DEF IndInv, TypeOK
  <2>8. \A a, b \in Int : a <= b => b >= a
    OBVIOUS
  <2> QED BY <2>2, <2>4, <2>6, <2>7, <2>8 DEF CountsSuffice
(* A round without progress waits for a barrier, which the pool has.       *)
<1>5. phase = "adjust" => progressed
  <2> SUFFICES ASSUME phase = "adjust", ~progressed PROVE FALSE
    OBVIOUS
  <2>1. bar < fn.numBarriers
    BY StalledForBarriers
  <2>2. nextReal = <<>>
    BY <2>1 DEF RoundInv
  <2> QED BY <1>2, <2>1, <2>2, EnoughIds
<1>6. ~Grow /\ ~SimulationBlocked /\ ~ThrowNotProgressed /\ ~Shrink
  BY <1>3, <1>5 DEF Grow, SimulationBlocked, ThrowNotProgressed, Shrink
<1>7. CASE EndMapping
  BY <1>2, <1>3, <1>7 DEF EndMapping, physVars
<1>8. CASE Finish
  BY <1>2, <1>8 DEF Finish, physVars
<1>9. CASE StartRound \/ MapBarrier \/ RunTask \/ PassOverProcessedDma \/ LeaveQueue \/ NextRound
  <2>1. UNCHANGED <<numReal, batches>>
    BY <1>9 DEF StartRound, MapBarrier, RunTask, PassOverProcessedDma, LeaveQueue, NextRound,
                Advance, physVars
  <2>2. phase' \in {"round", "map", "run", "adjust"}
    BY <1>9 DEF StartRound, MapBarrier, RunTask, PassOverProcessedDma, LeaveQueue, NextRound
  <2> QED BY <1>2, <2>1, <2>2
<1>10. CASE UNCHANGED vars
  BY <1>2, <1>10 DEF vars, physVars
<1> QED BY <1>4, <1>6, <1>7, <1>8, <1>9, <1>10 DEF Next, Returned

(* An ordered function that has a physical barrier for every virtual one   *)
(* is never reported as blocked, whatever its FIFOs.                       *)
THEOREM EnoughBarriers ==
    ASSUME NumberedByPort
    PROVE  Spec => []EnoughBarriersSuffice
<1>1. Init => EnoughInv
  BY DEF Init, Start, EnoughInv
<1>2. [Next]_vars => fn' = fn
  BY SameFunction
<1>3. /\ IndInv /\ ExecInv /\ RoundInv /\ (OrderedFunction(fn) => PoolInv)'
      /\ EnoughInv /\ [Next]_vars
      => EnoughInv'
  <2>1. ASSUME [Next]_vars, (OrderedFunction(fn) => PoolInv)'
        PROVE  OrderedFunction(fn) => PoolInv'
    BY <1>2, <2>1 DEF OrderedFunction
  <2> QED BY <2>1, NextEnough
<1>4. EnoughInv => EnoughBarriersSuffice
  BY DEF EnoughInv, EnoughBarriersSuffice
<1> QED BY <1>1, <1>3, <1>4, Invariance, ExecutionInvariant, ProgressInvariant, PTL DEF Spec
=============================================================================
