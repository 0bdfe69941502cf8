---------------------------- MODULE AsyncProgram ----------------------------
(***************************************************************************)
(* A function as the memory scheduler sees it: async.execute operations,   *)
(* numbered in the order of the IR, and the root buffers of the managed    *)
(* memory (CMX) they read and write.  An operation runs on an executor: a  *)
(* DMA, the NCE or the SHAVEs.  A program is a record:                     *)
(*   exec[o]    executor of operation o                                    *)
(*   uses[o]    operations whose results are operands of o                 *)
(*   reads[o]   buffers o reads                                            *)
(*   writes[o]  buffers of the results of o, in their order; one that o    *)
(*              also reads is updated in place                             *)
(*   cost[o]    cycles                                                     *)
(*   size[b], spill[b]   size of buffer b and cycles of a DMA that moves it *)
(*   parts      buffers each of whose writers writes a part                *)
(*   concat     buffers used by a ConcatView                               *)
(*   ports      number of DMA ports                                        *)
(***************************************************************************)
EXTENDS Integers, Sequences, FiniteSets, SequencesExt, FiniteSetsExt

VARIABLE prog

Ops == DOMAIN prog.exec
Buffers == DOMAIN prog.size
Writes(o) == ToSet(prog.writes[o])
UsedBuffers(o) == prog.reads[o] \cup Writes(o)
Writers(b) == {o \in Ops : b \in Writes(o)}

isComputeExecutor(o) == prog.exec[o] # "DMA"

(* "Operations moving data to CMX are considered data ops."                *)
isDataOp(o) == prog.exec[o] = "DMA" /\ prog.reads[o] = {} /\ prog.writes[o] # <<>>

(* The operands, and the operation before it on the same compute executor: *)
(* "Follow IR order of compute tasks".                                     *)
OpDeps(o) ==
    prog.uses[o] \cup
    {p \in Ops : /\ p < o /\ isComputeExecutor(o) /\ prog.exec[p] = prog.exec[o]
                 /\ \A q \in (p + 1)..(o - 1) : prog.exec[q] # prog.exec[o]}
ConsumerOps(o) == {c \in Ops : o \in OpDeps(c)}
OutDegree(o) == Cardinality(ConsumerOps(o))

Ancestors[o \in Nat] == OpDeps(o) \cup UNION {Ancestors[p] : p \in OpDeps(o)}

(* Operations o and p of which one writes what the other one uses, other   *)
(* than two parts.                                                         *)
Conflict(p, o) ==
    \E b \in UsedBuffers(p) \cap UsedBuffers(o) :
        /\ b \in Writes(p) \cup Writes(o)
        /\ ~(b \in prog.parts /\ b \in Writes(p) \cap Writes(o))

(* What the passes before guarantee: operands come first, operations that  *)
(* conflict depend on each other, an operation waits directly for the last *)
(* writer of what it reads, data operations own their one buffer and are   *)
(* consumed, and there is something to compute.                            *)
WellFormed ==
    /\ \A o \in Ops :
        /\ prog.uses[o] \subseteq 1..(o - 1)
        /\ UsedBuffers(o) # {}
        /\ \A b \in prog.reads[o] :
            \E w \in prog.uses[o] \cap Writers(b) : \A v \in Writers(b) : v <= w \/ v >= o
        /\ \A p \in 1..(o - 1) : Conflict(p, o) => p \in Ancestors[o]
        /\ isDataOp(o) => OutDegree(o) > 0 /\ \A b \in Writes(o) : b \notin prog.parts
    /\ \A b \in Buffers : Writers(b) # {}
    /\ \E o \in Ops : isComputeExecutor(o)
=============================================================================
