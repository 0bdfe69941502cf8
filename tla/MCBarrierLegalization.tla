----------------------- MODULE MCBarrierLegalization -----------------------
(* Every function of a few tasks whose producers stand before consumers.   *)
EXTENDS BarrierLegalization

CONSTANTS NumTasks, NumBarriers,
          MaxVariantCounts,  \* slots of a physical barrier
          Variants,          \* slots of the task in the middle; the others use one
          Common             \* producers of every barrier

MCTask == 0..(NumTasks - 1)

(* The producers and the consumers of a barrier, among the tasks from the  *)
(* first one that uses barriers on.                                        *)
Linked(first) == SUBSET (first..(NumTasks - 1)) \ {{}}
Ends(first) ==
    {e \in Linked(first) \X Linked(first) : Common \subseteq e[1] /\ \A t \in e[1], u \in e[2] : t < u}

(* The order of the barriers shows only in the order of the wait barriers, *)
(* which is taken at random anyway.                                        *)
Rank(e) == NumTasks * First(e[1]) + Latest(e[2])
OrderedEnds(first, n) ==
    {e \in [0..(n - 1) -> Ends(first)] : \A v \in 1..(n - 1) : Rank(e[v - 1]) <= Rank(e[v])}

MCMaps(ends) ==
    Build(NumTasks, Cardinality(DOMAIN ends),
          [t \in MCTask |-> {v \in DOMAIN ends : t \in ends[v][2]}],
          [t \in MCTask |-> {v \in DOMAIN ends : t \in ends[v][1]}])

FunctionsOf(first, n) ==
    { [maps |-> MCMaps(ends), maxVariantCount |-> m,
       slots |-> [t \in MCTask |-> IF t = NumTasks \div 2 THEN k ELSE 1]] :
      ends \in OrderedEnds(first, n), m \in MaxVariantCounts, k \in Variants }

MCFunctions == FunctionsOf(0, NumBarriers)

(* The first task has no barriers, or one barrier less is left for the     *)
(* functions where it may have some.                                       *)
MCLegalFunctions ==
    FunctionsOf(1, NumBarriers) \cup {f \in FunctionsOf(0, NumBarriers - 1) : FirstTaskAlone(f)}
=============================================================================
