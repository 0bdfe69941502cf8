------------------------- MODULE MCPhysicalBarriers -------------------------
(* The small functions of MCBarrierSimulator, from assignment to device.   *)
EXTENDS MCBarrierSimulator, PhysicalBarriers

(* What the proofs assume of platform and functions.                       *)
ASSUME WholePoolAssumption == Limits = {Available}
ASSUME EveryTaskQueuedAssumption ==
    \A f \in Programs : \A t \in 0..(f.numTasks - 1) :
        \E q \in DOMAIN f.fifo : \E i \in DOMAIN f.fifo[q] : f.fifo[q][i] = t
=============================================================================
