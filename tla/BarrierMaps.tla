---------------------------- MODULE BarrierMaps ----------------------------
(***************************************************************************)
(* The data of vpux::BarrierInfo and its operations, as functions from one *)
(* value to the next.  The class keeps the relation "task waits for        *)
(* barrier" twice, by task and by barrier, and likewise "task updates      *)
(* barrier"; every edit has to change both sides.                          *)
(*                                                                         *)
(* A value b is a record: num barriers 0..num-1, the functions wait and    *)
(* update from tasks to sets of barriers (_taskWaitBarriers,               *)
(* _taskUpdateBarriers) and prod and cons from barriers to sets of tasks   *)
(* (_barrierProducerMap, _barrierConsumerMap).  Tasks are 0..n-1 in        *)
(* program order.                                                          *)
(***************************************************************************)
EXTENDS Listing, Integers, FiniteSets, Sequences, SequencesExt

TaskOf(b) == DOMAIN b.wait
BarrierOf(b) == 0..(b.num - 1)

Maps(num, wait, update, prod, cons) ==
    [num |-> num, wait |-> wait, update |-> update, prod |-> prod, cons |-> cons]

(* buildBarrierMaps: n tasks with their wait and update operands over m    *)
(* barriers.                                                               *)
Build(n, m, waits, updates) ==
    Maps(m,
         [t \in 0..(n - 1) |-> waits[t]],
         [t \in 0..(n - 1) |-> updates[t]],
         [v \in 0..(m - 1) |-> {t \in 0..(n - 1) : v \in updates[t]}],
         [v \in 0..(m - 1) |-> {t \in 0..(n - 1) : v \in waits[t]}])

(* The maps as buildBarrierMaps leaves them.                               *)
BuiltMaps(b) ==
    LET n == Cardinality(TaskOf(b))
    IN  /\ IsFiniteSet(TaskOf(b))
        /\ b.num \in Nat
        /\ b.wait \in [0..(n - 1) -> SUBSET BarrierOf(b)]
        /\ b.update \in [0..(n - 1) -> SUBSET BarrierOf(b)]
        /\ b = Build(n, b.num, b.wait, b.update)

With(f, x, S) == [f EXCEPT ![x] = @ \cup S]
Without(f, x, S) == [f EXCEPT ![x] = @ \ S]

(* Add or remove x in f[y] for every y of S.                               *)
Join(f, S, x) == [y \in DOMAIN f |-> f[y] \cup (IF y \in S THEN {x} ELSE {})]
Leave(f, S, x) == [y \in DOMAIN f |-> f[y] \ (IF y \in S THEN {x} ELSE {})]

AddConsumers(b, v, S) ==
    Maps(b.num, Join(b.wait, S, v), b.update, b.prod, With(b.cons, v, S))
AddProducers(b, v, S) ==
    Maps(b.num, b.wait, Join(b.update, S, v), With(b.prod, v, S), b.cons)
RemoveConsumers(b, v, S) ==
    Maps(b.num, Leave(b.wait, S, v), b.update, b.prod, Without(b.cons, v, S))
RemoveProducers(b, v, S) ==
    Maps(b.num, b.wait, Leave(b.update, S, v), Without(b.prod, v, S), b.cons)

(* The barrier gets the index that follows the last one.                   *)
AddNewBarrier(b) ==
    LET extended(f) == [v \in 0..b.num |-> IF v = b.num THEN {} ELSE f[v]]
    IN  Maps(b.num + 1, b.wait, b.update, extended(b.prod), extended(b.cons))

(* Every caller adds barriers together with their producers and consumers: *)
(* links[i] is a pair of them.                                             *)
AddLinkedBarriers(b, links) ==
    LET n == b.num + Len(links)
        joined(f, k) ==
            [t \in DOMAIN f |-> f[t] \cup {v \in b.num..(n - 1) : t \in links[v - b.num + 1][k]}]
        extended(f, k) ==
            [v \in 0..(n - 1) |-> IF v < b.num THEN f[v] ELSE links[v - b.num + 1][k]]
    IN  Maps(n, joined(b.wait, 2), joined(b.update, 1), extended(b.prod, 1), extended(b.cons, 2))

SetWaitBarriers(b, t, S) ==
    Maps(b.num, [b.wait EXCEPT ![t] = S], b.update,
         b.prod, Join(Leave(b.cons, b.wait[t], t), S, t))
SetUpdateBarriers(b, t, S) ==
    Maps(b.num, b.wait, [b.update EXCEPT ![t] = S],
         Join(Leave(b.prod, b.update[t], t), S, t), b.cons)

MutantResetBarrier(b, v) ==
    Maps(b.num, Leave(b.wait, b.prod[v], v), Leave(b.update, b.prod[v], v),
         [b.prod EXCEPT ![v] = {}], [b.cons EXCEPT ![v] = {}])

ResetBarrier(b, v) ==
    Maps(b.num, Leave(b.wait, b.cons[v], v), Leave(b.update, b.prod[v], v),
         [b.prod EXCEPT ![v] = {}], [b.cons EXCEPT ![v] = {}])

Unused(b, v) == b.prod[v] = {} /\ b.cons[v] = {}

-----------------------------------------------------------------------------
(* optimizeBarriers.                                                       *)

(* The tasks that a task's update barriers drive, and those that drive it. *)
Children(b, t) == UNION {b.cons[v] : v \in b.update[t]}
Parents(b, t) == UNION {b.prod[v] : v \in b.wait[t]}

(* First loop, from the last task down: the barriers a task updates itself *)
(* or through its children.  A child that comes earlier in the program has *)
(* not been treated yet.                                                   *)
UpdateClosure(b) ==
    LET c[t \in TaskOf(b)] ==
            b.update[t] \cup
            UNION {IF u > t THEN c[u] ELSE b.update[u] : u \in Children(b, t)}
    IN  c

MutantReducedUpdates(b) ==
    LET closure == UpdateClosure(b)
    IN  [t \in TaskOf(b) |-> closure[t] \ UNION {closure[u] : u \in Children(b, t) \cup Parents(b, t)}]

(* Second loop, from the first task up: a barrier that a child updates too *)
(* is dropped.                                                             *)
ReducedUpdates(b) ==
    LET closure == UpdateClosure(b)
        r[t \in TaskOf(b)] ==
            closure[t] \ UNION {IF u < t THEN r[u] ELSE closure[u] : u \in Children(b, t)}
    IN  r

ReduceProducers(b) ==
    LET r == ReducedUpdates(b)
    IN  Maps(b.num, b.wait, [t \in TaskOf(b) |-> {v \in BarrierOf(b) : v \in r[t]}],
             [v \in BarrierOf(b) |-> {t \in TaskOf(b) : v \in r[t]}], b.cons)

MutantMergeSameProducers(b) == b

(* Barriers with the same producers: the first one takes the consumers and *)
(* the others are reset.  A barrier that has no producers when the loop    *)
(* comes to it, because it never had or because it was reset, takes the    *)
(* consumers of those that never had.                                      *)
MergeSameProducers(b) ==
    LET same(v) == {w \in BarrierOf(b) : b.prod[w] = b.prod[v]}
        first(S) == CHOOSE v \in S : \A w \in S : v <= w
        spare == {v \in BarrierOf(b) : b.prod[v] = {} \/ \E w \in same(v) : w < v}
        leader(v) == IF b.prod[v] = {} THEN first(spare) ELSE first(same(v))
        ledBy(w, S) == \E v \in S : leader(v) = w
    IN  Maps(b.num,
             [t \in TaskOf(b) |-> {w \in BarrierOf(b) : ledBy(w, b.wait[t])}],
             [t \in TaskOf(b) |-> b.update[t] \ spare],
             [v \in BarrierOf(b) |-> IF v \in spare THEN {} ELSE b.prod[v]],
             [w \in BarrierOf(b) |-> {t \in TaskOf(b) : ledBy(w, b.wait[t])}])

(* The same two loops for the wait barriers, in the opposite directions.   *)
WaitClosure(b) ==
    LET c[t \in TaskOf(b)] ==
            b.wait[t] \cup
            UNION {IF u < t THEN c[u] ELSE b.wait[u] : u \in Parents(b, t)}
    IN  c

ReducedWaits(b) ==
    LET closure == WaitClosure(b)
        r[t \in TaskOf(b)] ==
            closure[t] \ UNION {IF u > t THEN r[u] ELSE closure[u] : u \in Parents(b, t)}
    IN  r

ReduceConsumers(b) ==
    LET r == ReducedWaits(b)
    IN  Maps(b.num, [t \in TaskOf(b) |-> {v \in BarrierOf(b) : v \in r[t]}], b.update,
             b.prod, [v \in BarrierOf(b) |-> {t \in TaskOf(b) : v \in r[t]}])

OptimizeBarriers(b) == ReduceConsumers(MergeSameProducers(ReduceProducers(b)))

-----------------------------------------------------------------------------
MutantTaskControlMap(b, old) == [t \in TaskOf(b) |-> old[t] \cup Children(b, t)]

(* buildTaskControllMap(false): which task controls which through barriers.*)
(* The map is never cleared: a rebuild adds to what it holds.              *)
TaskControlMap(b, old) ==
    LET direct == [t \in TaskOf(b) |-> old[t] \cup Children(b, t)]
        c[t \in TaskOf(b)] ==
            direct[t] \cup UNION {IF u > t THEN c[u] ELSE direct[u] : u \in Children(b, t)}
    IN  c

ControlPathExistsBetween(map, t, u) == u \in map[t] \/ t \in map[u]

(* orderBarriers: a barrier stands before its first user; of two with the  *)
(* same first user the lower index comes first.  Unused barriers go to the *)
(* end, the last index first.                                              *)
FirstUserOf(b, v) ==
    CHOOSE t \in b.prod[v] \cup b.cons[v] : \A u \in b.prod[v] \cup b.cons[v] : t <= u

StandsBefore(b, v, w) ==
    IF Unused(b, v) THEN Unused(b, w) /\ v > w
    ELSE \/ Unused(b, w)
         \/ FirstUserOf(b, v) < FirstUserOf(b, w)
         \/ FirstUserOf(b, v) = FirstUserOf(b, w) /\ v < w

Identity(n) == [i \in 1..n |-> i - 1]

(* orderBarriers moves the barriers one by one.                            *)
BarrierOrder(b) ==
    Listed([v \in BarrierOf(b) |-> {w \in BarrierOf(b) : StandsBefore(b, w, v)}])

(* The maps of the barriers listed in order, renumbered from zero: what    *)
(* the next reader of the IR gets after updateIR.                          *)
Renumber(b, order) ==
    LET at(v) == {i \in DOMAIN order : order[i] = v}
        new(S) == UNION {{i - 1 : i \in at(v)} : v \in S}
        n == Cardinality(DOMAIN order)
    IN  Maps(n,
             [t \in TaskOf(b) |-> new(b.wait[t])],
             [t \in TaskOf(b) |-> new(b.update[t])],
             [i \in 0..(n - 1) |-> b.prod[order[i + 1]]],
             [i \in 0..(n - 1) |-> b.cons[order[i + 1]]])

(* postProcessBarrierOps erases the barriers without use.                  *)
Rebuilt(b, inIR) ==
    LET used == Ascending({i \in DOMAIN inIR : ~Unused(b, inIR[i])})
    IN  Renumber(b, [i \in DOMAIN used |-> inIR[used[i]]])

-----------------------------------------------------------------------------
(* The tasks that run after a task because of barriers; consumers stand    *)
(* behind producers.                                                       *)
RunsAfter(b) ==
    LET r[t \in TaskOf(b)] == Children(b, t) \cup UNION {r[u] : u \in Children(b, t)}
    IN  r

(* The two sides of both relations agree, and nothing refers to a barrier  *)
(* or a task that does not exist.                                          *)
MapsAgree(b) ==
    /\ DOMAIN b.prod = BarrierOf(b)
    /\ DOMAIN b.cons = BarrierOf(b)
    /\ DOMAIN b.update = TaskOf(b)
    /\ \A t \in TaskOf(b) : b.wait[t] \subseteq BarrierOf(b) /\ b.update[t] \subseteq BarrierOf(b)
    /\ \A v \in BarrierOf(b) : b.prod[v] \subseteq TaskOf(b) /\ b.cons[v] \subseteq TaskOf(b)
    /\ \A t \in TaskOf(b), v \in BarrierOf(b) :
            /\ v \in b.wait[t] <=> t \in b.cons[v]
            /\ v \in b.update[t] <=> t \in b.prod[v]
=============================================================================
