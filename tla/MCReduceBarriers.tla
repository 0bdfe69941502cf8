-------------------------- MODULE MCReduceBarriers --------------------------
(* Small functions for the reduction of active barriers, as the passes     *)
(* before mean to leave them: every task waits for at most one barrier,    *)
(* and the barriers stand in the order of their first users.               *)
EXTENDS ReduceBarriers

CONSTANTS NumTasks,
          MaxProducers,     \* of a barrier
          MaxRoots,         \* tasks that wait for nothing
          Sharing,          \* subset of BOOLEAN: may tasks share a wait barrier
          OneFifo           \* all tasks on one DMA FIFO, or on DMA and DPU in turn

MCTask == 0..(NumTasks - 1)

(* For each task the tasks that it waits for.                              *)
Parentage ==
    LET all == FoldLeft(LAMBDA S, t : {Append(s, P) : s \in S,
                           P \in {Q \in SUBSET (0..(t - 1)) : Cardinality(Q) <= MaxProducers}},
                        {<<>>}, Identity(NumTasks))
    IN  {s \in all : Cardinality({i \in DOMAIN s : s[i] = {}}) <= MaxRoots}

(* Tasks with the same producers wait for one barrier, or each for its own. *)
MCMaps(parents, shared) ==
    LET own(t) == IF shared
                  THEN CHOOSE u \in MCTask : /\ parents[u + 1] = parents[t + 1]
                                             /\ \A x \in 0..(u - 1) : parents[x + 1] # parents[t + 1]
                  ELSE t
        maps == Build(NumTasks, NumTasks,
                      [t \in MCTask |-> IF parents[t + 1] = {} THEN {} ELSE {own(t)}],
                      [t \in MCTask |-> {own(u) : u \in {x \in MCTask : t \in parents[x + 1]}}])
    IN  Rebuilt(maps, BarrierOrder(maps))

MCFunctions ==
    { [maps |-> maps,
       executor |-> [t \in MCTask |-> IF OneFifo \/ t % 2 = 0 THEN "DMA_NN" ELSE "NCE"],
       ports |-> [t \in MCTask |-> IF OneFifo \/ t % 2 = 0 THEN {0} ELSE {}],
       channel |-> [t \in MCTask |-> 0],
       count |-> [t \in MCTask |-> 1]] :
      maps \in {MCMaps(parents, shared) : parents \in Parentage, shared \in Sharing} }
=============================================================================
