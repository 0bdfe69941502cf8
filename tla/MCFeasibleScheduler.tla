------------------------ MODULE MCFeasibleScheduler ------------------------
(***************************************************************************)
(* Families of programs, shaped like those of the tests of the pass        *)
(* (feasible_allocation.mlir): weights and activations loaded before and   *)
(* between compute operations, results copied out, SHAVE operations, an    *)
(* operation with two results, parts of a buffer written by two            *)
(* operations, and more buffers than barriers allow to prefetch.           *)
(***************************************************************************)
EXTENDS FeasibleScheduler

Program(exec, uses, reads, writes, cost, size, spill, parts, concat, ports) ==
    [exec |-> exec, uses |-> uses, reads |-> reads, writes |-> writes, cost |-> cost,
     size |-> size, spill |-> spill, parts |-> parts, concat |-> concat, ports |-> ports]

(* Operations use the last results they read.                              *)
UsesOf(reads, writes) ==
    [o \in DOMAIN reads |->
        {p \in 1..(o - 1) : \E b \in ToSet(writes[p]) \cap reads[o] :
            \A q \in (p + 1)..(o - 1) : b \notin ToSet(writes[q])}]

Simple(exec, reads, writes, cost, size, ports) ==
    Program(exec, UsesOf(reads, writes), reads, writes, cost, size, size, {}, {}, ports)

(* @Spilling: results that are used again late.                            *)
Weights ==
    {Simple(<<"DMA", "NCE", "DMA", "NCE", "NCE", "DMA">>,
            <<{}, {1}, {}, {2, 3}, {4} \cup S, {5} \cup T>>,
            << <<1>>, <<2>>, <<3>>, <<4>>, <<5>>, <<>> >>,
            cost, size, ports) :
        S \in SUBSET {1, 2, 3}, T \in SUBSET {2}, size \in [1..5 -> 1..2],
        cost \in {<<1, 1, 1, 1, 1, 1>>, <<2, 1, 3, 2, 1, 1>>}, ports \in 1..2}

(* @PipelineShaveAct: a result in the way is moved.                        *)
Shaves ==
    {Simple(<<"DMA", "SHV", "NCE", "DMA", "NCE", "DMA">>,
            <<{}, {1}, {1, 2}, {}, {3, 4} \cup S, {5}>>,
            << <<1>>, <<2>>, <<3>>, <<4>>, <<5>>, <<>> >>,
            cost, size, ports) :
        S \in SUBSET {2}, size \in [1..5 -> 1..2],
        cost \in {<<1, 2, 1, 2, 1, 1>>, <<1, 1, 3, 2, 1, 4>>}, ports \in 1..2}

(* @SpillingOpWith2Outputs                                                 *)
TwoResults ==
    {Simple(<<"DMA", "NCE", "NCE", "NCE", "NCE", "NCE", "DMA">>,
            <<{}, {1}, {1, 3}, {3}, {1, 3} \cup S, {2}, {7}>>,
            << <<1>>, <<2, 3>>, <<4>>, <<5>>, <<6, 7>>, <<8>>, <<>> >>,
            <<3, 2, 1, 2, 2, 2, 1>>, size, 1) :
        S \in SUBSET {4}, size \in {s \in [1..8 -> 1..2] : s[8] = 1 /\ s[5] = 1}}

(* @SpillingOfSubViewBuffer                                                *)
SubViews ==
    {[Simple(<<"DMA", "NCE", "NCE", "DMA", "NCE", "NCE", "DMA">>,
             <<{}, {1}, {1}, {}, {1}, {2, 3, 4}, {5}>>,
             << <<1>>, <<2>>, <<2>>, <<3>>, <<4>>, <<5>>, <<>> >>,
             <<1, 1, 1, 2, 1, 1, 1>>, size, ports)
        EXCEPT !.parts = {2}, !.concat = C, !.uses[6] = {2, 3, 4, 5}] :
        C \in {{}, {2}}, size \in [1..5 -> 1..2], ports \in 1..2}

(* Activations that are copied out behind loads.                           *)
CopiesOut ==
    {Simple(<<"DMA", "DMA", "SHV", "SHV", "DMA", "SHV", "DMA">>,
            <<{}, {1}, {1}, {2}, {}, {3, 4}, {3}>>,
            << <<1>>, <<>>, <<2>>, <<3>>, <<4>>, <<5>>, <<>> >>,
            <<1, copy, 1, 2, 2, 3, 1>>, size, ports) :
        copy \in {1, 4}, size \in [1..5 -> 1..2], ports \in 1..2}

(* Many small buffers: the limit of the prefetched operations matters.     *)
Loads ==
    {Simple(<<"DMA", "NCE", "DMA", "DMA", "NCE", "DMA">>,
            <<{}, {1}, {}, {}, {2, 3, 4}, {2}>>,
            << <<1>>, <<2>>, <<3>>, <<4>>, <<5>>, <<>> >>,
            <<1, wait, 3, 3, 2, 6>>, size, ports) :
        wait \in {2, 9}, size \in [1..5 -> 1..2], ports \in 1..2}

MCPrograms == Weights \cup Shaves \cup TwoResults \cup SubViews \cup CopiesOut \cup Loads

(* A sum that is written over one of its operands, and must then make room. *)
InPlace ==
    {Simple(<<"DMA", "NCE", "NCE", "DMA", "NCE", "DMA", "NCE", "DMA">>,
            <<{}, {1}, {2}, {}, {3, 4}, {}, {3, 5}, {6}>>,
            << <<1>>, <<2>>, <<3>>, <<4>>, <<3>>, <<5>>, <<6>>, <<>> >>,
            <<1, 1, 1, 1, 1, 1, 1, 1>>, size, 1) :
        size \in [1..6 -> 1..2]}

(* A copy to DDR on the second DMA port outlasts the operations behind it. *)
StillRunning ==
    {Program(<<"DMA", "DMA", "DMA", "DMA", "DMA", "NCE", "NCE", "DMA">>,
             <<{}, {}, {}, {2}, {}, {1}, {3, 5, 6}, {7}>>,
             <<{}, {}, {}, {2}, {}, {1}, {3, 4, 5}, {5}>>,
             << <<1>>, <<2>>, <<3>>, <<>>, <<4>>, <<5>>, <<5>>, <<>> >>,
             <<2, 2, 2, 4, 3, 1, 2, 7>>, size, size, {}, {}, 2) : size \in {<<1, 3, 2, 2, 1>>}}
=============================================================================
