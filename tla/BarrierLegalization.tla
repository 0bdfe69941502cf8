------------------------ MODULE BarrierLegalization ------------------------
(***************************************************************************)
(* The first two passes of the barrier legalization pipeline.              *)
(*                                                                         *)
(* SplitExceedingVariantCountBarriers replaces a barrier that has more     *)
(* producer slots, or more consumer slots, than half of the slots of a     *)
(* physical barrier.  SatisfyOneWaitBarrierPerTask then gives every task   *)
(* that waits for several barriers one barrier instead: the union of their *)
(* producers where it fits the slots, else a chain of batches of them.     *)
(*                                                                         *)
(* The sets of the code iterate in the order of insertion, which goes back *)
(* to the order of the operands in the IR; where it matters the model      *)
(* takes any order.                                                        *)
(***************************************************************************)
EXTENDS BarrierMaps

CONSTANT Functions   \* records: maps (see BarrierMaps), slots per task, maxVariantCount

(* What BarrierInfo builds from the IR; a barrier that tasks wait for has  *)
(* producers, and they stand before the tasks that wait.                   *)
ASSUME FunctionsAssumption ==
    \A f \in Functions :
        /\ BuiltMaps(f.maps)
        /\ f.slots \in [TaskOf(f.maps) -> Nat]
        /\ f.maxVariantCount \in Nat
        /\ \A v \in BarrierOf(f.maps) :
                /\ f.maps.cons[v] # {} => f.maps.prod[v] # {}
                /\ \A t \in f.maps.prod[v], u \in f.maps.cons[v] : t < u

VARIABLES
    fn,         \* the function as it enters the pipeline
    stage,      \* "verify", "producers", "consumers", "oneWait", "done" or "thrown"
    info,       \* the BarrierInfo of the current pass
    order,      \* the barriers as they stand in the IR
    walk,       \* what the current walk has still to visit
    modifiedIR  \* safeRunOnFunc's flag in SatisfyOneWaitBarrierPerTask

vars == <<fn, stage, info, order, walk, modifiedIR>>

Task == TaskOf(fn.maps)
Available == fn.maxVariantCount \div 2

(* getProducerSlotCount, getConsumerSlotCount and the sum in               *)
(* canMergeBarriersForTasks.                                               *)
SlotsUsed(S) == SumFunctionOnSet(fn.slots, S)
MutantFits(S) == Cardinality(S) <= Available

Fits(S) == SlotsUsed(S) <= Available

Init ==
    /\ fn \in Functions
    /\ stage = "verify"
    /\ info = fn.maps
    /\ order = Identity(fn.maps.num)
    /\ walk = <<>>
    /\ modifiedIR = FALSE

-----------------------------------------------------------------------------
(* createLegalVariantBatches: tasks in program order; a task that does not *)
(* fit opens a new batch.                                                  *)
MutantLegalVariantBatches(tasks) ==
    FoldLeft(LAMBDA batches, t :
                IF SlotsUsed(Last(batches)) + fn.slots[t] <= Available
                THEN Front(batches) \o <<Last(batches) \cup {t}>>
                ELSE Append(Front(batches), {t}),
             <<{}>>, Ascending(tasks))

LegalVariantBatches(tasks) ==
    FoldLeft(LAMBDA batches, t :
                IF SlotsUsed(Last(batches)) + fn.slots[t] <= Available
                THEN Front(batches) \o <<Last(batches) \cup {t}>>
                ELSE Append(batches, {t}),
             <<{}>>, Ascending(tasks))

Verify ==
    /\ stage = "verify"
    /\ IF \E t \in Task : fn.slots[t] > Available
       THEN stage' = "thrown" /\ UNCHANGED walk
       ELSE stage' = "producers" /\ walk' = order
    /\ UNCHANGED <<fn, info, order, modifiedIR>>

(* One barrier per batch, built before the barrier v, which is reset.      *)
Replaced(v, links) ==
    LET at == CHOOSE i \in DOMAIN order : order[i] = v
    IN  /\ info' = ResetBarrier(AddLinkedBarriers(info, links), v)
        /\ order' = SubSeq(order, 1, at - 1)
                    \o [i \in 1..Len(links) |-> info.num + i - 1]
                    \o SubSeq(order, at, Len(order))

SplitBarrierProducers ==
    /\ stage = "producers"
    /\ walk # <<>>
    /\ LET v == Head(walk)
           batches == LegalVariantBatches(info.prod[v])
       IN  IF Fits(info.prod[v])
           THEN UNCHANGED <<info, order>>
           ELSE Replaced(v, [i \in DOMAIN batches |-> <<batches[i], info.cons[v]>>])
    /\ walk' = Tail(walk)
    /\ UNCHANGED <<fn, stage, modifiedIR>>

SplitBarrierConsumers ==
    /\ stage = "consumers"
    /\ walk # <<>>
    /\ LET v == Head(walk)
           batches == LegalVariantBatches(info.cons[v])
       IN  IF Fits(info.cons[v])
           THEN UNCHANGED <<info, order>>
           ELSE Replaced(v, [i \in DOMAIN batches |-> <<info.prod[v], batches[i]>>])
    /\ walk' = Tail(walk)
    /\ UNCHANGED <<fn, stage, modifiedIR>>

StartSplitOfConsumers ==
    /\ stage = "producers"
    /\ walk = <<>>
    /\ stage' = "consumers"
    /\ walk' = order
    /\ UNCHANGED <<fn, info, order, modifiedIR>>

(* updateIR, removal of the barriers without use, and the BarrierInfo that *)
(* the next pass builds from the IR.                                       *)
StartOneWait ==
    /\ stage = "consumers"
    /\ walk = <<>>
    /\ stage' = "oneWait"
    /\ info' = Rebuilt(info, order)
    /\ order' = Identity(info'.num)
    /\ walk' = Ascending(Task)
    /\ UNCHANGED <<fn, modifiedIR>>

-----------------------------------------------------------------------------
(* createProducerBatches: one batch per wait barrier, neighbours joined    *)
(* where they fit, as long as every barrier's producers follow those of    *)
(* the barrier before; <<>> otherwise.  The last producer seen starts at   *)
(* zero, and producer 0 is let through.                                    *)
First(S) == CHOOSE t \in S : \A u \in S : t <= u
Latest(S) == CHOOSE t \in S : \A u \in S : u <= t

MutantOutOfOrder(lastUser, firstUser) == FALSE

OutOfOrder(lastUser, firstUser) == firstUser > 0 /\ lastUser >= firstUser

JoinedBatch(batches, P) ==
    IF Fits(Last(batches) \cup P)
    THEN Front(batches) \o <<Last(batches) \cup P>>
    ELSE Append(batches, P)

ProducerBatches(waits) ==
    LET prod(i) == info.prod[waits[i]]
        lastUser(i) == IF i = 1 THEN 0 ELSE Latest(prod(i - 1))
    IN  IF \E i \in DOMAIN waits : OutOfOrder(lastUser(i), First(prod(i))) THEN <<>>
        ELSE FoldLeft(LAMBDA batches, v : JoinedBatch(batches, info.prod[v]), <<{}>>, waits)

(* linearizeLegalParallelProducers: a barrier from each batch to the next  *)
(* one, the task itself last; the last barrier is built first.             *)
Chained(t, batches) ==
    LET n == Len(batches)
        next(i) == IF i = n THEN {t} ELSE batches[i + 1]
    IN  AddLinkedBarriers(info, [k \in 1..n |-> <<batches[n + 1 - k], next(n + 1 - k)>>])

(* unlinkTaskFromParallelBarriers: the task leaves the barriers, and those *)
(* that only it waited for are reset.                                      *)
Unlinked(b, t, waits) ==
    LET reset == {v \in waits : b.cons[v] = {t}}
    IN  Maps(b.num,
             [b.wait EXCEPT ![t] = @ \ waits],
             [u \in TaskOf(b) |-> b.update[u] \ reset],
             [v \in BarrierOf(b) |-> IF v \in reset THEN {} ELSE b.prod[v]],
             Leave(b.cons, waits, t))

(* The orders in which a set may iterate.  The surjections are there for   *)
(* the proofs: they do not see the definitions of module TLC.              *)
Orders(S) ==
    LET ascending == Ascending(S)
    IN  {[i \in DOMAIN ascending |-> p[ascending[i]]] : p \in Permutations(S) \cap Surjection(S, S)}

(* ensureTaskDrivenBySingleBarrier.                                        *)
EnsureTaskDrivenBySingleBarrier(t) ==
    LET producers == Parents(info, t)
        linearized == {IF ProducerBatches(w) # <<>> THEN ProducerBatches(w)
                       ELSE LegalVariantBatches(producers) : w \in Orders(info.wait[t])}
    IN  \E batches \in IF Fits(producers) THEN {<<producers>>} ELSE linearized :
        \E chained \in {Chained(t, batches)} :
            info' = Unlinked(chained, t, info.wait[t])

SatisfyOneWaitBarrier ==
    /\ stage = "oneWait"
    /\ walk # <<>>
    /\ LET t == Head(walk)
       IN  IF Cardinality(info.wait[t]) < 2
           THEN UNCHANGED <<info, modifiedIR>>
           ELSE EnsureTaskDrivenBySingleBarrier(t) /\ modifiedIR' = TRUE
    /\ walk' = Tail(walk)
    /\ UNCHANGED <<fn, stage, order>>

(* orderBarriers, updateIR and postProcessBarrierOps, if anything changed. *)
FinishOneWait ==
    /\ stage = "oneWait"
    /\ walk = <<>>
    /\ stage' = "done"
    /\ IF ~modifiedIR THEN UNCHANGED <<info, order>>
       ELSE /\ info' = Rebuilt(info, BarrierOrder(info))
            /\ order' = Identity(info'.num)
    /\ UNCHANGED <<fn, walk, modifiedIR>>

Returned == stage \in {"done", "thrown"} /\ UNCHANGED vars

Next ==
    \/ Verify
    \/ SplitBarrierProducers
    \/ StartSplitOfConsumers
    \/ SplitBarrierConsumers
    \/ StartOneWait
    \/ SatisfyOneWaitBarrier
    \/ FinishOneWait
    \/ Returned

Spec == Init /\ [][Next]_vars
-----------------------------------------------------------------------------
(* Splitting changes the barriers, not the order of the tasks; making      *)
(* every task wait for one barrier may add to the order and takes nothing  *)
(* away, at no step of the walk.                                           *)
OrderKept ==
    LET before == RunsAfter(fn.maps)
        now == RunsAfter(info)
    IN  \A t \in Task : IF stage = "oneWait" \/ stage = "done"
                        THEN before[t] \subseteq now[t]
                        ELSE before[t] = now[t]

(* From the end of the split on no barrier has more producer or consumer   *)
(* slots than it may have, whatever the second pass merges and chains.     *)
SlotsRespected ==
    stage \in {"oneWait", "done"} =>
        \A v \in BarrierOf(info) :
            /\ SlotsUsed(info.prod[v]) <= Available
            /\ SlotsUsed(info.cons[v]) <= Available

(* A task never waits for a task that comes later, or for itself: the      *)
(* comment of createProducerBatches calls it the order constraint.         *)
ConsumersFollowProducers ==
    \A v \in BarrierOf(info) : \A t \in info.prod[v], u \in info.cons[v] : t < u

(* The description of the second pass: "single barrier drives each task".  *)
(* A chain drives tasks by one barrier more that the walk has passed.      *)
SingleWaitBarrier == stage = "done" => \A t \in Task : Cardinality(info.wait[t]) <= 1

(* The first task of a function: createProducerBatches lets it through at  *)
(* any place, so the order of the tasks holds where the tasks that wait    *)
(* for it wait for one set of producers, and that fits.                    *)
FirstTaskAlone(f) ==
    \A v \in BarrierOf(f.maps) : 0 \in f.maps.prod[v] =>
        /\ SumFunctionOnSet(f.slots, f.maps.prod[v]) <= f.maxVariantCount \div 2
        /\ \A w \in BarrierOf(f.maps) :
                f.maps.cons[v] \cap f.maps.cons[w] # {} => f.maps.prod[w] = f.maps.prod[v]
=============================================================================
