------------------------------ MODULE Listing ------------------------------
(***************************************************************************)
(* A finite set as the sequence that a sort, or a walk from the front of   *)
(* an ordered container to its end, makes of it.                           *)
(***************************************************************************)
EXTENDS Integers, FiniteSets

(* below[x] are the elements that stand before x.                          *)
Listed(below) ==
    [i \in 1..Cardinality(DOMAIN below) |->
        CHOOSE x \in DOMAIN below : Cardinality(below[x]) = i - 1]

(* The numbers of S in ascending order.                                    *)
Ascending(S) == Listed([x \in S |-> {y \in S : y < x}])
=============================================================================
