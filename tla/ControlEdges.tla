---------------------------- MODULE ControlEdges ----------------------------
(***************************************************************************)
(* What FeasibleAllocation makes of a schedule: insertSpillCopyOps turns   *)
(* spills into operations of their own, FeasibleMemorySchedulerControlEdges *)
(* orders operations that share memory, and AsyncDepsInfo reduces the      *)
(* dependencies.  Operations are named by their index in the schedule,     *)
(* which is the order of the IR afterwards; deps[i] is the set of          *)
(* operations i waits for.                                                 *)
(***************************************************************************)
EXTENDS ScheduleSpilling

(* The memory an operation reads and writes.                               *)
InRanges(s, address, i) ==
    {CopyRange(s, b, CopyAt(s, i, b), address) :
        b \in CASE s[i].type = "WRITE" -> {s[i].buf} [] s[i].type = "READ" -> {} [] OTHER -> prog.reads[s[i].op]}
OutRanges(s, address, i) ==
    {CopyRange(s, b, CopyAt(s, i, b), address) :
        b \in CASE s[i].type = "READ" -> {s[i].buf} [] s[i].type = "WRITE" -> {} [] OTHER -> Writes(s[i].op)}

-----------------------------------------------------------------------------
(* insertSpillCopyOps: a WRITE waits for the operation whose result it     *)
(* saves, or for the READ that brought it back; a READ waits for the last  *)
(* WRITE; and who uses the buffer after a READ waits for the READ.         *)
IndexOf(s, o) == CHOOSE i \in DOMAIN s : isOriginal(s[i]) /\ s[i].op = o

LastWrite(s, j) == Max({i \in 1..(j - 1) : s[i].type = "WRITE" /\ s[i].buf = s[j].buf})

ReadBefore(s, j) == {i \in 1..(j - 1) : s[i].type = "READ" /\ s[i].op = s[j].op /\ s[i].buf = s[j].buf}

SpillDeps(s) ==
    [i \in DOMAIN s |->
        CASE s[i].type = "READ" -> {LastWrite(s, i)}
          [] s[i].type = "WRITE" -> {IF ReadBefore(s, i) # {} THEN Max(ReadBefore(s, i)) ELSE IndexOf(s, s[i].op)}
          [] OTHER -> {IndexOf(s, p) : p \in OpDeps(s[i].op)}
                      \cup ({CopyAt(s, i, b) : b \in UsedBuffers(s[i].op)} \ {0})]

-----------------------------------------------------------------------------
(* insertMemoryControlEdges.  The interval tree is a map from the units of *)
(* memory to their producer (0 for none) and its consumers.                *)

Units(ranges) == UNION {r.begin..(r.end - 1) : r \in ranges}
Unused == [producer |-> 0, consumers |-> {}]

(* processNextInterval: a consumer waits for the producer; a new producer  *)
(* waits for the consumers, or for the producer if there are none.         *)
Consume(tree, i, units) ==
    [tree EXCEPT !.edges = @ \cup {<<tree.at[a].producer, i>> : a \in {u \in units : tree.at[u].producer # 0}},
                 !.at = [a \in DOMAIN @ |->
                            IF a \notin units THEN @[a]
                            ELSE IF @[a].producer = 0 THEN [producer |-> i, consumers |-> {}]
                            ELSE [@[a] EXCEPT !.consumers = @ \cup {i}]]]

MutantProduce(tree, i, units) ==
    [tree EXCEPT !.edges = @ \cup {<<tree.at[a].producer, i>> : a \in {u \in units : tree.at[u].producer # 0}},
                 !.at = [a \in DOMAIN @ |-> IF a \in units THEN [producer |-> i, consumers |-> {}] ELSE @[a]]]
Produce(tree, i, units) ==
    LET before(a) == IF tree.at[a].consumers # {} THEN tree.at[a].consumers ELSE {tree.at[a].producer} \ {0}
    IN  [tree EXCEPT !.edges = @ \cup UNION {{<<p, i>> : p \in before(a)} : a \in units},
                     !.at = [a \in DOMAIN @ |-> IF a \in units THEN [producer |-> i, consumers |-> {}] ELSE @[a]]]

ControlEdgeSet(s, address, size) ==
    FoldLeft(LAMBDA tree, i : Produce(Consume(tree, i, Units(InRanges(s, address, i))), i, Units(OutRanges(s, address, i))),
             [edges |-> {}, at |-> [a \in 0..(size - 1) |-> Unused]],
             [i \in DOMAIN s |-> i]).edges

(* updateControlEdgesInDepsInfo: "If there is cycle overlap then scheduler *)
(* assumed operations can coexist and there is no need for memory control  *)
(* edge"; the source of such an edge is passed on to the next edges.       *)
Coexist(s, i, j) == s[j].begin < s[i].end /\ s[j].end > s[i].begin

MemoryDeps(s, edges) ==
    LET proper == {e \in edges : e[1] # e[2]}
        dropped == {e \in proper : Coexist(s, e[1], e[2])}
    IN  [j \in DOMAIN s |->
            {e[1] : e \in {x \in proper \ dropped : x[2] = j}}
            \cup {d[1] : d \in {x \in dropped : <<x[2], j>> \in proper}}]

(* insertScheduleOrderDepsForExecutor, for a single DMA port.              *)
NextDMAs(s, i) ==
    LET later == {j \in DOMAIN s : Executor(s[j]) = "DMA" /\ s[j].begin > s[i].begin}
    IN  {j \in later : \A k \in later : s[j].begin <= s[k].begin}
OrderDeps(s) ==
    [j \in DOMAIN s |->
        {i \in DOMAIN s : prog.ports = 1 /\ Executor(s[i]) = "DMA" /\ j \in NextDMAs(s, i)}]

ScheduledDeps(s, address, size) ==
    LET memory == MemoryDeps(s, ControlEdgeSet(s, address, size))
    IN  [i \in DOMAIN s |-> SpillDeps(s)[i] \cup memory[i] \cup OrderDeps(s)[i]]

-----------------------------------------------------------------------------
(* optimizeDepsMap: "we can remove A from C deps list, since it will be    *)
(* implicit dependency taken from B".                                      *)
Closure(deps) ==
    LET closure[i \in DOMAIN deps] == deps[i] \cup UNION {closure[d] : d \in deps[i]} IN closure

MutantOptimizeDepsMap(deps) ==
    [i \in DOMAIN deps |->
        FoldLeft(LAMBDA cur, d : cur \ deps[d], deps[i], Ascending(deps[i]))]

optimizeDepsMap(deps) ==
    LET closure == Closure(deps)
    IN  [i \in DOMAIN deps |->
            FoldLeft(LAMBDA cur, d : IF d \in cur THEN cur \ closure[d] ELSE cur, deps[i], Ascending(deps[i]))]

-----------------------------------------------------------------------------
(* Operations that touch the same memory, one of them writing, are ordered *)
(* as in the schedule; only writers of parts of a buffer may meet.         *)
MayMeet(s, i, j) ==
    /\ isOriginal(s[i]) /\ isOriginal(s[j])
    /\ Writes(s[i].op) \cap Writes(s[j].op) \cap prog.parts # {}

Shares(s, address, i, j) ==
    LET ins(k) == Units(InRanges(s, address, k))
        outs(k) == Units(OutRanges(s, address, k))
    IN  outs(i) \cap (ins(j) \cup outs(j)) # {} \/ ins(i) \cap outs(j) # {}

MemoryOrdered(s, address, deps) ==
    LET closure == Closure(deps)
    IN  \A j \in DOMAIN s : \A i \in 1..(j - 1) :
            Shares(s, address, i, j) => i \in closure[j] \/ MayMeet(s, i, j)
=============================================================================
