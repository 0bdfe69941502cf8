---------------------------- MODULE MCLinearScan ----------------------------
(* Four ranges of different sizes and alignments, one with a fixed         *)
(* address, in lists of one or two.                                        *)
EXTENDS LinearScan

CONSTANTS r1, r2, r3, r4

MCRange == {r1, r2, r3, r4}
MCSize == (r1 :> 1) @@ (r2 :> 2) @@ (r3 :> 3) @@ (r4 :> 2)
MCAlignment == (r1 :> 4) @@ (r2 :> 2) @@ (r3 :> 1) @@ (r4 :> 1)
MCFixed == [r \in MCRange |-> IF r = r4 THEN 3 ELSE InvalidAddress]
MCWeight == (r1 :> 1) @@ (r2 :> 2) @@ (r3 :> 2) @@ (r4 :> 3)
MCBatches ==
    {<<r>> : r \in MCRange} \cup
    {<<r1, r2>>, <<r2, r1>>, <<r3, r1>>, <<r2, r3>>, <<r4, r3>>, <<r1, r4>>}
=============================================================================
