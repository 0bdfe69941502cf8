----------------------------- MODULE MemoryMap -----------------------------
(* What an allocator of one contiguous memory promises: blocks are handed  *)
(* out one at a time, each apart from all others and inside the memory,    *)
(* and are given back whole.                                               *)
EXTENDS Integers

CONSTANTS TotalSize,    \* the size of the memory
          Reserved      \* blocks that are never given back

VARIABLE blocks         \* the blocks that are in use, [addr, size] each

Apart(b, c) == b.addr + b.size <= c.addr \/ c.addr + c.size <= b.addr

Fits(b, S) == /\ b.addr >= 0 /\ b.size > 0 /\ b.addr + b.size <= TotalSize
              /\ \A c \in S : Apart(b, c)

Init == blocks = Reserved

Take == \E addr, size \in 0..TotalSize :
            LET b == [addr |-> addr, size |-> size]
            IN  Fits(b, blocks) /\ blocks' = blocks \cup {b}

GiveBack == \E b \in blocks \ Reserved : blocks' = blocks \ {b}

Spec == Init /\ [][Take \/ GiveBack]_blocks
=============================================================================
