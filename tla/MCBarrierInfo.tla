--------------------------- MODULE MCBarrierInfo ---------------------------
(* The operations of BarrierInfo on a few tasks and barriers.              *)
EXTENDS BarrierInfo
=============================================================================
