--------------------------- MODULE TaskExecution ---------------------------
(***************************************************************************)
(* What the barriers of a VPURT function promise, without any barrier:     *)
(* every executor takes the tasks of its FIFO one after the other, and a   *)
(* task that waits for a barrier starts after all the tasks that update    *)
(* that barrier.  A task that sits in several FIFOs starts when one of     *)
(* them reaches it.                                                        *)
(***************************************************************************)
EXTENDS Integers, Sequences

VARIABLES
    fn,     \* the function: numTasks, fifo, wait, update
    done    \* the tasks that have executed

Task == 0..(fn.numTasks - 1)

Precedes(u, t) == fn.update[u] \cap fn.wait[t] # {}

AtHead(t) ==
    \E q \in DOMAIN fn.fifo, i \in 1..fn.numTasks :
        /\ i \in DOMAIN fn.fifo[q]
        /\ fn.fifo[q][i] = t
        /\ \A j \in 1..(i - 1) : fn.fifo[q][j] \in done

Init == done = {}

Run(t) ==
    /\ t \notin done
    /\ AtHead(t)
    /\ \A u \in Task : Precedes(u, t) => u \in done
    /\ done' = done \cup {t}
    /\ UNCHANGED fn

Next == \E t \in Task : Run(t)

Spec == Init /\ [][Next]_<<fn, done>>
=============================================================================
