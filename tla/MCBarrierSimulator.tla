------------------------- MODULE MCBarrierSimulator -------------------------
(* Small functions for the barrier simulator, in families named by the     *)
(* constant Patterns:                                                      *)
(* "ordered": a DMA FIFO and the NCE, producers before consumers.          *)
(* "any": a DMA FIFO and SHAVE_UPA, one or two barriers, cyclic ones       *)
(*    included.                                                            *)
(* "pairs": one DMA FIFO, or DMA and DPU in turn; barriers of one producer *)
(*    and at most one consumer.                                            *)
(* "chain": the same barriers, two DMA FIFOs and the DPU in turn.          *)
(* "multi": DMAs on port 1 or on both ports, the first one on both, so     *)
(*    that the FIFOs are numbered like the ports.                          *)
(* "channels": DMAs of one port on two channels, and the NCE.              *)
(* "port1": the first DMA is on port 1, so that they are not.              *)
(* "twice": one of these, in which a DMA on both ports is met twice and a  *)
(*    task in front of it waits for it: the simulation fails.              *)
EXTENDS BarrierSimulator

CONSTANTS Variants, Patterns

MCTask(p) ==
    0..((CASE p = "chain" -> 5 [] p \in {"ordered", "pairs"} -> 4 [] OTHER -> 3) - 1)
MCBarrier(p) ==
    0..((CASE p = "pairs" -> 4 [] p = "chain" -> 3 [] OTHER -> 2) - 1)

(* The executor, ports, channel and slot count of a task.                  *)
Dma(ports, channel) ==
    [executor |-> "DMA_NN", ports |-> ports, channel |-> channel, count |-> 1]
DmaOn(ports) == Dma(ports, 0)
Nce == [executor |-> "NCE", ports |-> {}, channel |-> 0, count |-> Variants]
Shave(kind) == [executor |-> kind, ports |-> {}, channel |-> 0, count |-> 1]

(* ends[v]: the producers and the consumers of the barrier v.              *)
Function(units, ends) ==
    [ numTasks    |-> Cardinality(DOMAIN units),
      numBarriers |-> Cardinality(DOMAIN ends),
      dynamic     |-> TRUE,
      realId      |-> [v \in DOMAIN ends |-> -1],
      executor    |-> [t \in DOMAIN units |-> units[t].executor],
      ports       |-> [t \in DOMAIN units |-> units[t].ports],
      channel     |-> [t \in DOMAIN units |-> units[t].channel],
      count       |-> [t \in DOMAIN units |-> units[t].count],
      wait        |-> [t \in DOMAIN units |-> {v \in DOMAIN ends : t \in ends[v][2]}],
      update      |-> [t \in DOMAIN units |-> {v \in DOMAIN ends : t \in ends[v][1]}] ]

(* Producers and consumers of a barrier, in program order or not.          *)
AnyEnds(T) == {e \in (SUBSET T \ {{}}) \X SUBSET T : e[1] \cap e[2] = {}}
OrderedEnds(T) == {e \in AnyEnds(T) : \A t \in e[1], u \in e[2] : t < u}
Pairs(T) == {e \in OrderedEnds(T) : Cardinality(e[1]) = 1 /\ Cardinality(e[2]) <= 1}

FirstUse(e) == CHOOSE t \in e[1] \cup e[2] : \A u \in e[1] \cup e[2] : t <= u

(* orderBarriers: virtual ids follow the first use.                        *)
OrderedBarriers(B, S) ==
    {e \in [B -> S] : \A v \in B \ {0} : FirstUse(e[v - 1]) <= FirstUse(e[v])}

EndsOf(p) ==
    LET T == MCTask(p)
        B == MCBarrier(p)
    IN  CASE p = "any" -> [B -> AnyEnds(T)] \cup [{0} -> AnyEnds(T)]
          [] p = "twice" -> [{0} -> {<<{2}, {0}>>}]
          [] p \in {"pairs", "chain"} -> OrderedBarriers(B, Pairs(T))
          [] OTHER -> OrderedBarriers(B, OrderedEnds(T))

UnitsOf(p) ==
    LET T == MCTask(p)
        StartingWith(first, S) == {u \in [T -> S] : u[0] = first}
    IN  CASE p = "ordered" -> StartingWith(DmaOn({0}), {DmaOn({0}), Nce})
          [] p = "any" -> StartingWith(DmaOn({0}), {DmaOn({0}), Shave("SHAVE_UPA")})
          [] p = "pairs" ->
                {[t \in T |-> DmaOn({0})],
                 [t \in T |-> IF t % 2 = 0 THEN DmaOn({0}) ELSE Nce]}
          [] p = "chain" ->
                {[t \in T |-> CASE t % 3 = 0 -> DmaOn({0})
                                 [] t % 3 = 1 -> Nce
                                 [] OTHER -> DmaOn({1})]}
          [] p = "multi" ->
                StartingWith(DmaOn({0, 1}), {DmaOn({1}), DmaOn({0, 1}), Shave("SHAVE_ACT")})
          [] p = "twice" ->
                {[t \in T |-> CASE t = 0 -> Shave("SHAVE_UPA")
                                 [] t = 1 -> DmaOn({1})
                                 [] OTHER -> DmaOn({0, 1})]}
          [] p = "channels" ->
                StartingWith(Dma({0}, 1), {Dma({0}, 0), Dma({0}, 1), Nce})
          [] p = "port1" ->
                StartingWith(DmaOn({1}), {DmaOn({0}), DmaOn({1}), DmaOn({0, 1})})

FunctionsOf(p) == {Function(units, ends) : units \in UnitsOf(p), ends \in EndsOf(p)}

(* The parsed functions of a family.  The filter keeps them all: TLC sorts *)
(* a set it filters, and takes the union of sorted sets without comparing  *)
(* every pair of functions.                                                *)
ProgramsOf(p) == {f \in {Parse(g) : g \in FunctionsOf(p)} : TRUE}

MCPrograms == FoldSet(LAMBDA p, S : ProgramsOf(p) \cup S, {}, Patterns)

(* What the proofs assume of the functions, in all families but the two    *)
(* whose first DMA is on port 1.                                           *)
ASSUME NumberedAssumption ==
    \A p \in Patterns \ {"port1", "twice"} : \A f \in ProgramsOf(p) : QueuedByPort(f) /\ CountsAddUp(f)
=============================================================================
