------------------------- MODULE FeasibleScheduler -------------------------
(***************************************************************************)
(* FeasibleMemoryScheduler in the FeasibleAllocation pass: places the      *)
(* operations of a program in time and their buffers in memory.  A         *)
(* compute operation starts when its buffers and those of the data         *)
(* operations it needs fit; when nothing fits, a buffer is spilled to DDR  *)
(* and brought back before its next use.  The pass schedules twice: the    *)
(* second time data operations are prefetched behind earlier compute       *)
(* operations.  Then spills are optimized.                                 *)
(*                                                                         *)
(* The heaps are sets: the order of their elements only decides the order  *)
(* in which the schedule is collected, and the schedule is sorted at the   *)
(* end.  A buffer has a live range of the linear scan exactly while the    *)
(* handler has it marked as alive, except inside the start of an           *)
(* operation.                                                              *)
(***************************************************************************)
EXTENDS ControlEdges

CONSTANTS
    Programs,       \* the programs that are compiled
    TotalSize,      \* size of the managed memory
    BarrierCount    \* _barrierPerCluster * _nceClusterCount

VARIABLES
    pass,           \* 1, and 2 for the schedule with prefetching
    stage,
    fault,          \* the exception that has ended the compilation
    gaps, address, alive,   \* _scan: its gaps, and its handler
    users,          \* _liveRangeInfo: operations that still have to use a buffer
    writer,         \* _opIdxWritingToBuffer, 0 for none
    released,       \* operations that have reduced the in-degree of their consumers
    table,          \* _opOutputTable
    outputs,        \* _outputOps
    pipelines,      \* _executorPipelines
    begin, ended,   \* _cycleBeginHeap, _cycleEndHeap
    scheduled,      \* _scheduledOps
    levels,         \* _dataOpLevels
    plan, prefetch, \* the prefetch schedule, and what is left of it
    todo,           \* ready operations the round has not looked at
    cur,            \* locals of scheduleComputeOp
    schedule,       \* the result, sorted
    deps            \* dependencies of its operations, in the end

memVars == <<gaps, address, alive>>
opVars == <<users, writer, released, table, outputs>>
timeVars == <<pipelines, begin, ended, scheduled>>
planVars == <<levels, plan, prefetch>>
result == <<schedule, deps>>
vars == <<prog, pass, stage, fault, memVars, opVars, timeVars, planVars, todo, cur, result>>

Pipelines == [DMA |-> [p \in 1..prog.ports |-> 1], NCE |-> <<1>>, SHV |-> <<1>>]
NotScheduled == [state |-> "NONE", consumers |-> 0, spilled |-> {}]
Active(o) == [state |-> "ACTIVE", consumers |-> OutDegree(o), spilled |-> {}]

(* A data operation that becomes ready releases its consumers at once.     *)
RECURSIVE WithReadyDataOps(_)
WithReadyDataOps(S) ==
    LET ready == {d \in Ops \ S : isDataOp(d) /\ OpDeps(d) \subseteq S}
    IN  IF ready = {} THEN S ELSE WithReadyDataOps(S \cup ready)

OutputOps == {o \in Ops : ConsumerOps(o) = {}}

-----------------------------------------------------------------------------
(* The linear scan (module LinearScan) from the bottom, without spills.    *)

RECURSIVE Place(_, _, _)
Place(g, placed, bufs) ==
    IF bufs = <<>> THEN [ok |-> TRUE, gaps |-> g, placed |-> placed]
    ELSE LET b == Head(bufs)
             found == chooseMinimalGap(g, prog.size[b], 1, "Up")
         IN  IF found = {} THEN [ok |-> FALSE, gaps |-> g, placed |-> placed]
             ELSE LET pos == CHOOSE i \in found : TRUE
                      addr == getAddrFromGap(g[pos], prog.size[b], 1, "Up")
                  IN  Place(useGap(g, pos, addr, prog.size[b]), [placed EXCEPT ![b] = addr], Tail(bufs))

RECURSIVE Freed(_, _)
Freed(g, bufs) ==
    IF bufs = {} THEN g
    ELSE LET b == Min(bufs) IN Freed(free(g, address[b], prog.size[b]), bufs \ {b})

(* _bufferLevels: the level of the last compute operation of the plan that *)
(* uses the buffer.                                                        *)
LevelOf(b) == Max({0} \cup {plan[i].level : i \in {j \in DOMAIN plan : b \in UsedBuffers(plan[j].op)}})

(* sortUsedBuffers: out-degree of the writers, level, size, position.      *)
SortKey(b) ==
    <<-FoldSet(LAMBDA o, sum : OutDegree(o) + sum, 0, Writers(b)), LevelOf(b), -prog.size[b], b>>
Precedes(k, l) == \E i \in DOMAIN k : k[i] < l[i] /\ \A j \in 1..(i - 1) : k[j] = l[j]
sortUsedBuffers(S) ==
    LET key == [b \in S |-> SortKey(b)]
    IN  [n \in 1..Cardinality(S) |->
            CHOOSE b \in S : Cardinality({c \in S : Precedes(key[c], key[b])}) = n - 1]

canAlloc(S) == Place(gaps, address, sortUsedBuffers(S)).ok

-----------------------------------------------------------------------------
(* Time.                                                                   *)

EarliestPort ==
    CHOOSE p \in 1..prog.ports :
        /\ \A q \in 1..prog.ports : pipelines.DMA[p] <= pipelines.DMA[q]
        /\ \A q \in 1..(p - 1) : pipelines.DMA[p] < pipelines.DMA[q]
PortOf(o) == IF prog.exec[o] = "DMA" THEN EarliestPort ELSE 1

(* getOperationEndCycle: of the operation and of its spills.               *)
MutantEndCycles(S) == {e.end : e \in {x \in scheduled : x.op \in S}}
EndCycles(S) == {e.end : e \in {x \in begin \cup scheduled : x.op \in S}}

(* getUsedBuffers: eraseUser forgets the buffers of an operation that is   *)
(* over.                                                                   *)
StillUsed(o) == {b \in UsedBuffers(o) : o \in users[b]}

(* getCurrentCycleAndExecutorInstanceMask: the executor and the operands.  *)
CurrentCycle(o) == Max({pipelines[prog.exec[o]][PortOf(o)]} \cup EndCycles(OpDeps(o)))

(* getEarliestComputeBeginCycle: also whoever wrote the used buffers last. *)
EarliestBegin(o) ==
    Max({CurrentCycle(o)} \cup EndCycles({writer[b] : b \in StillUsed(o)}))

Aligned(cycle) ==
    [x \in DOMAIN pipelines |-> [p \in DOMAIN pipelines[x] |->
        IF pipelines[x][p] < cycle THEN cycle ELSE pipelines[x][p]]]

Element(o, type, port, from, cost, b) ==
    [op |-> o, type |-> type, port |-> port, begin |-> from, end |-> from + cost, buf |-> b]

-----------------------------------------------------------------------------
(* What an operation needs.                                                *)

NonAlive(o) == StillUsed(o) \ alive

Demand(o) ==
    {d \in OpDeps(o) : \/ table[d].state = "NONE"
                       \/ table[d].state = "SPILLED" /\ \E b \in NonAlive(o) : writer[b] = d}
Needed(o) == NonAlive(o) \cup UNION {NonAlive(d) : d \in Demand(o)}

ReadyWith(S) == {o \in Ops : ~isDataOp(o) /\ OpDeps(o) \subseteq S /\ table[o].state = "NONE"}

(* isReadyComputeOperationSchedulable: "preserve order of NCE".            *)
Schedulable(o) ==
    /\ prefetch # <<>> /\ isComputeExecutor(o) => Head(prefetch).op = o
    /\ canAlloc(Needed(o))

-----------------------------------------------------------------------------
(* scheduleComputeOp, with its callees, is a sequence of steps.            *)

Idle0 == [op |-> 0, needed |-> {}, reads |-> {}, inputs |-> {}, from |-> 0,
          queue |-> {}, tried |-> {}, count |-> 0, limit |-> 0, until |-> 0, spill |-> 0, late |-> {}]

FSInit ==
    /\ prog \in Programs /\ WellFormed
    /\ pass = 1 /\ stage = "loop" /\ fault = "none"
    /\ gaps = <<Gap(0, TotalSize)>> /\ alive = {}
    /\ address = [b \in Buffers |-> InvalidAddress]
    /\ users = [b \in Buffers |-> {o \in Ops : b \in UsedBuffers(o)}]
    /\ writer = [b \in Buffers |-> 0]
    /\ released = WithReadyDataOps({})
    /\ table = [o \in Ops |-> NotScheduled]
    /\ outputs = OutputOps
    /\ pipelines = Pipelines
    /\ begin = {} /\ ended = {} /\ scheduled = {}
    /\ levels = [o \in Ops |-> 0]
    /\ plan = <<>> /\ prefetch = <<>>
    /\ todo = {} /\ cur = Idle0 /\ schedule = <<>> /\ deps = <<>>

(* populateScheduledOps: with the addresses of this moment.                *)
Entry(e) ==
    LET ranges(S) == {MemRange(b, address[b]) : b \in S}
    IN  [op |-> e.op, type |-> e.type, port |-> e.port, begin |-> e.begin, end |-> e.end, buf |-> e.buf,
         ins |-> ranges(CASE e.type = "WRITE" -> {e.buf} [] e.type = "READ" -> {} [] OTHER -> prog.reads[e.op]),
         outs |-> ranges(CASE e.type = "READ" -> {e.buf} [] e.type = "WRITE" -> {} [] OTHER -> Writes(e.op))]

PoppedBefore(f, e) ==
    LET key(x) == <<x.begin, IF x.type = "PREFETCHED" THEN 1 ELSE 0, x.op>>
    IN  Precedes(key(f), key(e))

(* schedulingLoop empties the begin heap before anything else, unless an   *)
(* element is the last output; a spill write gives up the address of its   *)
(* buffer.                                                                 *)
PopFromCycleBeginHeap ==
    /\ stage = "loop" /\ outputs # {} /\ begin # {}
    /\ \E popped \in {{e \in begin : ~(outputs \subseteq {f.op : f \in {x \in begin : PoppedBefore(x, e)}})}} :
        /\ scheduled' = scheduled \cup {Entry(e) : e \in popped}
        /\ ended' = ended \cup popped
        /\ begin' = begin \ popped
        /\ outputs' = outputs \ {e.op : e \in popped}
        /\ address' = [b \in Buffers |->
                IF \E e \in popped : e.type = "WRITE" /\ e.buf = b THEN InvalidAddress ELSE address[b]]
    /\ UNCHANGED <<prog, pass, stage, fault, gaps, alive, users, writer, released, table, pipelines,
                   planVars, todo, cur, result>>

(* decrementConsumers, n times.                                            *)
Consumed(entry, n) ==
    CASE entry.state = "ACTIVE" /\ n >= entry.consumers /\ n > 0 -> [entry EXCEPT !.state = "CONSUMED", !.consumers = 0]
      [] entry.state = "ACTIVE" /\ n < entry.consumers -> [entry EXCEPT !.consumers = @ - n]
      [] OTHER -> entry

(* unscheduleAllCompletingOps: buffers without further users die, and      *)
(* operations become ready.                                                *)
UnscheduleAllCompletingOps ==
    /\ stage = "loop" /\ outputs # {} /\ begin = {}
    /\ \E over \in {{e.op : e \in {x \in ended : isOriginal(x)}}} :
        /\ users' = [b \in Buffers |-> users[b] \ over]
        /\ \E dead \in {{b \in alive : users[b] # {} /\ users[b] \subseteq over}} :
            alive' = alive \ dead /\ gaps' = Freed(gaps, dead)
        /\ \E S \in {WithReadyDataOps(released \cup {o \in over : ~isDataOp(o)})} :
            released' = S /\ todo' = ReadyWith(S)
    /\ table' = [d \in Ops |->
                    Consumed(table[d], Cardinality({e \in ended : e.type # "WRITE" /\ d \in OpDeps(e.op)}))]
    /\ ended' = {}
    /\ stage' = "ready"
    /\ UNCHANGED <<prog, pass, fault, address, writer, outputs, pipelines, begin, scheduled,
                   planVars, cur, result>>

(* scheduleAllPossibleReadyOpsAndUpdate looks at the ready operations in   *)
(* the order of the IR.                                                    *)
Postpone ==
    /\ stage = "ready" /\ todo # {}
    /\ ~Schedulable(Min(todo))
    /\ todo' = todo \ {Min(todo)}
    /\ UNCHANGED <<prog, pass, stage, fault, memVars, opVars, timeVars, planVars, cur, result>>

(* scheduleComputeOp and allocateBuffersAndInputOps: buffers of the        *)
(* operation that were written before have been spilled.                   *)
ScheduleComputeOp ==
    /\ stage = "ready" /\ todo # {}
    /\ \E o \in {Min(todo)} :
        /\ Schedulable(o)
        /\ \E reads \in {{b \in NonAlive(o) : writer[b] # 0}} :
            cur' = [Idle0 EXCEPT !.op = o, !.needed = Needed(o), !.reads = reads,
                                 !.inputs = Demand(o) \ {writer[b] : b \in reads}]
        /\ alive' = alive \cup Needed(o)
        /\ table' = [table EXCEPT ![o] = Active(o)]
        /\ todo' = todo \ {o}
    /\ stage' = "inputs"
    /\ UNCHANGED <<prog, pass, fault, gaps, address, users, writer, released, outputs, timeVars,
                   planVars, result>>

OutputIdx(o, b) == CHOOSE i \in DOMAIN prog.writes[o] : prog.writes[o][i] = b

(* A DMA element at the earliest port.                                     *)
PushDMA(o, type, from, cost, b) ==
    \E p \in {EarliestPort} :
        /\ begin' = begin \cup {Element(o, type, p, from, cost, b)}
        /\ pipelines' = [pipelines EXCEPT !.DMA[p] = from + cost]

(* scheduleSpilledOpBuffer                                                 *)
SpillRead(o, b) ==
    /\ PushDMA(o, "READ", pipelines.DMA[EarliestPort], prog.spill[b], b)
    /\ writer' = [writer EXCEPT ![b] = o]
    /\ table' = [table EXCEPT ![o].state = "ACTIVE", ![o].spilled = @ \ {OutputIdx(o, b)}]

(* scheduleInputOpForComputeOp and schedulePrefetchOp                      *)
DataOp(d, type) ==
    /\ PushDMA(d, type, EarliestBegin(d), prog.cost[d], 0)
    /\ writer' = [b \in Buffers |-> IF b \in Writes(d) THEN d ELSE writer[b]]
    /\ table' = [table EXCEPT ![d] = Active(d)]

ReadSpilledBuffer ==
    /\ stage = "inputs" /\ cur.reads # {}
    /\ \E b \in {Min(cur.reads)} :
        /\ SpillRead(writer[b], b)
        /\ cur' = [cur EXCEPT !.reads = @ \ {b}]
    /\ UNCHANGED <<prog, pass, stage, fault, memVars, users, released, outputs, ended, scheduled,
                   planVars, todo, result>>

(* In the order of a hash set.                                             *)
ScheduleInputOp ==
    /\ stage = "inputs" /\ cur.reads = {}
    /\ \E d \in cur.inputs :
        /\ DataOp(d, "ORIGINAL")
        /\ cur' = [cur EXCEPT !.inputs = @ \ {d}]
    /\ UNCHANGED <<prog, pass, stage, fault, memVars, users, released, outputs, ended, scheduled,
                   planVars, todo, result>>

-----------------------------------------------------------------------------
(* allocatePrefetchOps: data operations and spilled buffers linked to the  *)
(* compute operation are loaded behind it.                                 *)

Key(e) == <<e.level, -e.outDegree, e.op>>
WithEntries(S, new) == S \cup {e \in new : \A f \in S : Key(f) # Key(e)}

(* The buffers an entry of the prefetch set would load.                    *)
Target(e) == IF e.buf = 0 THEN NonAlive(e.op) ELSE {e.buf} \ alive

(* The entries of the plan that come before the next activation spill.     *)
BeforeSpill ==
    {i \in DOMAIN prefetch : \A j \in 1..i : ~prefetch[j].spill}

(* The limit is an unsigned difference: below zero there is no limit.      *)
BeginPrefetch ==
    /\ stage = "inputs" /\ cur.reads = {} /\ cur.inputs = {}
    /\ \E from \in {EarliestBegin(cur.op)} :
        IF prefetch # <<>> /\ Head(prefetch).op = cur.op /\ Head(prefetch).dataOps # {}
        THEN /\ cur' = [cur EXCEPT
                    !.from = from, !.queue = Head(prefetch).dataOps, !.tried = cur.needed,
                    !.limit = BarrierCount - Cardinality(cur.needed) - 2,
                    !.until = from + prog.cost[cur.op]
                        + FoldSet(LAMBDA i, sum : prog.cost[prefetch[i].op] + sum, 0, BeforeSpill),
                    !.spill = IF Cardinality(BeforeSpill) < Len(prefetch)
                              THEN prefetch[Cardinality(BeforeSpill) + 1].level ELSE Len(plan)]
             /\ UNCHANGED prefetch
        ELSE /\ cur' = [cur EXCEPT !.from = from]
             /\ prefetch' = IF prefetch = <<>> \/ Head(prefetch).op = cur.op THEN prefetch
                            ELSE [prefetch EXCEPT ![1].dataOps =
                                    {e \in @ : IF e.buf = 0 THEN NonAlive(e.op) # {}
                                               ELSE e.buf \notin cur.needed}]
    /\ stage' = "prefetch"
    /\ UNCHANGED <<prog, pass, fault, memVars, opVars, timeVars, levels, plan, todo, result>>

(* One entry: a data operation that was loaded before, or a spilled        *)
(* buffer, is read back; others are loaded for the first time.             *)
DelaysSpill(e, cost) ==
    /\ cur.spill < Len(plan)
    /\ pipelines.DMA[EarliestPort] + cost > cur.until
    /\ cur.spill + 1 < e.level

FirstOf(S) == CHOOSE e \in S : \A f \in S \ {e} : Precedes(Key(e), Key(f))

MutantPrefetched(e, target, tried) ==
    [cur EXCEPT !.queue = @ \ {e}, !.tried = tried, !.count = @ + 1]
Prefetched(e, target, tried) ==
    [cur EXCEPT !.queue = @ \ {e}, !.tried = tried, !.needed = @ \cup target, !.count = @ + 1]

PrefetchOne ==
    /\ stage = "prefetch" /\ cur.queue # {}
    /\ \E e \in {FirstOf(cur.queue)} : \E target \in {Target(e)} :
        /\ levels' = [levels EXCEPT ![e.op] = e.level]
        /\ IF target = {} \/ ~(OpDeps(e.op) \subseteq released)
           THEN /\ cur' = [cur EXCEPT !.queue = @ \ {e}]
                /\ UNCHANGED <<alive, writer, table, begin, pipelines>>
           ELSE \E b \in target : \E tried \in {cur.tried \cup target} :
                LET loaded == writer[b] # 0
                    cost == IF loaded THEN prog.spill[b] ELSE prog.cost[e.op]
                IN  IF (cur.limit >= 0 /\ cur.count > cur.limit) \/ DelaysSpill(e, cost) \/ ~canAlloc(tried)
                    THEN /\ cur' = [cur EXCEPT !.queue = @ \ {e}, !.tried = tried, !.late = @ \cup {e}]
                         /\ UNCHANGED <<alive, writer, table, begin, pipelines>>
                    ELSE /\ cur' = Prefetched(e, target, tried)
                         /\ alive' = alive \cup target
                         /\ IF loaded THEN SpillRead(writer[b], b) ELSE DataOp(e.op, "PREFETCHED")
    /\ UNCHANGED <<prog, pass, stage, fault, gaps, address, users, released, outputs, ended, scheduled,
                   plan, prefetch, todo, result>>

(* The rest of scheduleComputeOp.  Entries that were not prefetched move   *)
(* to the next compute operation of the plan.                              *)
PlanWithout(o) ==
    IF prefetch = <<>> \/ Head(prefetch).op # o THEN prefetch
    ELSE LET rest == Tail(prefetch)
         IN  IF rest = <<>> THEN <<>>
             ELSE [rest EXCEPT ![1].dataOps = WithEntries(@, cur.late)]

FinishComputeOp ==
    /\ stage = "prefetch" /\ cur.queue = {}
    /\ \E o \in {cur.op} : \E p \in {PortOf(o)} : \E from \in {Max({cur.from, CurrentCycle(o)})} :
       \E placement \in {Place(gaps, address, sortUsedBuffers(cur.needed))} :
        IF placement.ok
        THEN /\ gaps' = placement.gaps /\ address' = placement.placed
             /\ begin' = begin \cup {Element(o, "ORIGINAL", p, from, prog.cost[o], 0)}
             /\ pipelines' = [pipelines EXCEPT ![prog.exec[o]][p] = from + prog.cost[o]]
             /\ writer' = [b \in Buffers |-> IF b \in Writes(o) THEN o ELSE writer[b]]
             /\ prefetch' = PlanWithout(o)
             /\ stage' = "ready"
             /\ UNCHANGED fault
        ELSE /\ stage' = "failed" /\ fault' = "Failed to statically allocate"
             /\ UNCHANGED <<gaps, address, begin, pipelines, writer, prefetch>>
    /\ cur' = Idle0
    /\ UNCHANGED <<prog, pass, alive, users, released, table, outputs, ended, scheduled, levels, plan,
                   todo, result>>

MutantEndRound ==
    /\ stage = "ready" /\ todo = {}
    /\ pipelines' = Aligned(Max({0} \cup {e.end : e \in {x \in begin : isOriginal(x) /\ ~isDataOp(x.op)}}))
    /\ stage' = IF begin = {} /\ pass = 1 THEN "evict" ELSE "loop"
    /\ UNCHANGED <<prog, pass, fault, memVars, opVars, begin, ended, scheduled, planVars, todo, cur, result>>
(* The pipelines wait for the compute operations of the round.             *)
EndRound ==
    /\ stage = "ready" /\ todo = {}
    /\ pipelines' = Aligned(Max({0} \cup {e.end : e \in {x \in begin : isOriginal(x) /\ ~isDataOp(x.op)}}))
    /\ stage' = IF begin = {} THEN "evict" ELSE "loop"
    /\ UNCHANGED <<prog, pass, fault, memVars, opVars, begin, ended, scheduled, planVars, todo, cur, result>>

-----------------------------------------------------------------------------
(* forceScheduleActiveOpEviction                                           *)

(* evictionPriority *)
Priority(b) ==
    IF b \in prog.concat THEN 0
    ELSE IF \A o \in ReadyWith(released) : o \notin users[b] THEN 4
    ELSE IF isDataOp(writer[b]) THEN 3
    ELSE 2

(* chooseCandidateForEviction *)
Candidate ==
    LET key(b) == <<-Priority(b), prog.size[b], writer[b], -OutputIdx(writer[b], b)>>
        top == {b \in alive : \A c \in alive : levels[writer[c]] <= levels[writer[b]]}
    IN  CHOOSE b \in top : \A c \in top \ {b} : Precedes(key(b), key(c))

MutantCanEvict(o, b) == table[o].state = "ACTIVE"
(* evictActiveOp: the operation is active, or this is another one of its   *)
(* results.                                                                *)
CanEvict(o, b) ==
    IF OutputIdx(o, b) # 1 \/ table[o].spilled # {} THEN OutputIdx(o, b) \notin table[o].spilled
    ELSE table[o].state = "ACTIVE"

Outstanding(entry) ==
    IF entry.state = "NONE" THEN entry
    ELSE [entry EXCEPT !.state = IF entry.consumers = 0 THEN "SPILLED" ELSE @, !.consumers = @ + 1]

Fail(message) == stage' = "failed" /\ fault' = message

ForceScheduleActiveOpEviction ==
    /\ stage = "evict"
    /\ IF alive = {}
       THEN /\ Fail("cannot schedule anything and there is no buffer to spill")
            /\ UNCHANGED <<memVars, opVars, timeVars, planVars>>
       ELSE \E b \in {Candidate} : \E o \in {writer[b]} :
            IF ~CanEvict(o, b)
            THEN /\ Fail("Attempt to evict a non active operation")
                 /\ UNCHANGED <<memVars, opVars, timeVars, planVars>>
            ELSE
            /\ table' = [q \in Ops |->
                    IF q = o THEN [state |-> "SPILLED", consumers |-> table[o].consumers + 1,
                                   spilled |-> IF OutputIdx(o, b) # 1 \/ table[o].spilled # {}
                                               THEN table[o].spilled \cup {OutputIdx(o, b)} ELSE {}]
                    ELSE IF q \in OpDeps(o) THEN Outstanding(table[q])
                    ELSE table[q]]
            /\ prefetch' = IF prefetch = <<>> THEN <<>>
                           ELSE [prefetch EXCEPT ![1].dataOps = WithEntries(@,
                                    {[op |-> o, level |-> LevelOf(b), outDegree |-> OutDegree(o), buf |-> b]})]
            /\ alive' = alive \ {b} /\ gaps' = Freed(gaps, {b})
            /\ \E p \in {EarliestPort} : \E from \in {Max({pipelines.DMA[p]} \cup EndCycles({o}))} :
                /\ begin' = {Element(o, "WRITE", p, from, prog.spill[b], b)}
                /\ pipelines' = Aligned(from + prog.spill[b])
            /\ stage' = "loop"
            /\ UNCHANGED <<fault, address, users, writer, released, outputs, ended, scheduled, levels, plan>>
    /\ UNCHANGED <<prog, pass, todo, cur, result>>

-----------------------------------------------------------------------------
(* FeasibleAllocation                                                      *)

Sorted(S) ==
    LET key(e) == <<e.begin, e.end, e.op, e.buf>>
        before(e) == {f \in S : Precedes(key(f), key(e))}
    IN  [n \in 1..Cardinality(S) |-> CHOOSE e \in S : Cardinality(before(e)) = n - 1]

GenerateSchedule ==
    /\ stage = "loop" /\ outputs = {}
    /\ schedule' = Sorted(scheduled)
    /\ stage' = "sorted"
    /\ UNCHANGED <<prog, pass, fault, memVars, opVars, timeVars, planVars, todo, cur, deps>>

(* The level of an operation is the number of compute operations before    *)
(* it; levels end where an activation is copied out.                       *)
isComputeAt(i) == isOriginal(schedule[i]) /\ isComputeExecutor(schedule[i].op)
LevelIn(i) == Cardinality({j \in 1..(i - 1) : isComputeAt(j)})
isCopyOutAt(i) == isOriginal(schedule[i]) /\ prog.exec[schedule[i].op] = "DMA" /\ ~isDataOp(schedule[i].op)

Candidates ==
    {i \in DOMAIN schedule : /\ isOriginal(schedule[i]) /\ isDataOp(schedule[i].op)
                             /\ OpDeps(schedule[i].op) = {}
                             /\ LevelIn(i) > 0
                             /\ \E j \in i..Len(schedule) : isComputeAt(j)}

(* generatePrefetchEdgesFromOverlap links a data operation to the compute  *)
(* operations during which an optimal pipeline would start it; which ones  *)
(* that are depends on the cycles it computes and is left open.            *)
Link(n, spills) ==
    {{}} \cup {{l} : l \in 0..(n - 1)} \cup {{l, l + 1} : l \in {k \in 0..(n - 2) : k \notin spills}}

SecondPass ==
    /\ stage = "sorted" /\ pass = 1
    /\ \E computes \in {Ascending({i \in DOMAIN schedule : isComputeAt(i)})} :
       \E spills \in {{LevelIn(i) - 1 : i \in {j \in DOMAIN schedule : isCopyOutAt(j)}}} :
       \E links \in [Candidates -> SUBSET (0..(Len(computes) - 1))] :
        /\ \A i \in Candidates : links[i] \in Link(LevelIn(i), spills)
        /\ plan' = [n \in DOMAIN computes |->
                [op |-> schedule[computes[n]].op, level |-> n - 1, spill |-> (n - 1) \in spills,
                 dataOps |-> {[op |-> schedule[i].op, level |-> LevelIn(i), outDegree |-> 0, buf |-> 0] :
                                i \in {j \in Candidates : (n - 1) \in links[j]}}]]
        /\ prefetch' = plan'
    /\ pass' = 2 /\ stage' = "loop"
    /\ gaps' = <<Gap(0, TotalSize)>> /\ alive' = {}
    /\ address' = [b \in Buffers |-> InvalidAddress]
    /\ users' = [b \in Buffers |-> {o \in Ops : b \in UsedBuffers(o)}]
    /\ writer' = [b \in Buffers |-> 0]
    /\ released' = WithReadyDataOps({})
    /\ table' = [o \in Ops |-> NotScheduled]
    /\ outputs' = OutputOps
    /\ pipelines' = Pipelines
    /\ begin' = {} /\ ended' = {} /\ scheduled' = {}
    /\ levels' = [o \in Ops |-> 0]
    /\ schedule' = <<>>
    /\ UNCHANGED <<prog, fault, todo, cur, deps>>

Optimize ==
    /\ stage = "sorted" /\ pass = 2
    /\ schedule' = removeRedundantSpillWrites(removeComputeOpRelocationSpills(optimizeDataOpsSpills(schedule)))
    /\ stage' = "optimized"
    /\ UNCHANGED <<prog, pass, fault, memVars, opVars, timeVars, planVars, todo, cur, deps>>

(* insertSpillCopyOps, insertMemoryControlEdges and the order of the DMAs. *)
InsertDependencies ==
    /\ stage = "optimized"
    /\ deps' = ScheduledDeps(schedule, address, TotalSize)
    /\ stage' = "linked"
    /\ UNCHANGED <<prog, pass, fault, memVars, opVars, timeVars, planVars, todo, cur, schedule>>

(* The OptimizeAsyncDeps pass behind it.                                   *)
OptimizeAsyncDeps ==
    /\ stage = "linked"
    /\ deps' = optimizeDepsMap(deps)
    /\ stage' = "done"
    /\ UNCHANGED <<prog, pass, fault, memVars, opVars, timeVars, planVars, todo, cur, schedule>>

Ended == stage \in {"done", "failed"} /\ UNCHANGED vars

FSNext ==
    \/ PopFromCycleBeginHeap \/ UnscheduleAllCompletingOps
    \/ Postpone \/ ScheduleComputeOp \/ ReadSpilledBuffer \/ ScheduleInputOp
    \/ BeginPrefetch \/ PrefetchOne \/ FinishComputeOp \/ EndRound
    \/ ForceScheduleActiveOpEviction
    \/ GenerateSchedule \/ SecondPass \/ Optimize
    \/ InsertDependencies \/ OptimizeAsyncDeps \/ Ended

(* The pass runs until it ends: WF_vars(FSNext), as some step that changes  *)
(* the state is enabled until then.                                        *)
KeepsRunning == []<>(stage \in {"done", "failed"}) \/ []<><<TRUE>>_vars

FSSpec == FSInit /\ [][FSNext]_vars /\ KeepsRunning

-----------------------------------------------------------------------------

(* The scheduler's tables stay in their ranges; consumers of an operation   *)
(* are counted down by completions and up by evictions.                    *)
FSTypeOK ==
    /\ pass \in {1, 2}
    /\ stage \in {"loop", "ready", "inputs", "prefetch", "evict", "sorted", "optimized",
                 "linked", "done", "failed"}
    /\ alive \subseteq Buffers
    /\ \A b \in Buffers : users[b] \subseteq Ops /\ writer[b] \in Ops \cup {0} /\ address[b] >= InvalidAddress
    /\ released \subseteq Ops /\ outputs \subseteq OutputOps /\ todo \subseteq Ops
    /\ \A o \in Ops : /\ table[o].state \in {"NONE", "ACTIVE", "SPILLED", "CONSUMED"}
                      /\ table[o].consumers \in 0..(2 * Cardinality(Ops))
                      /\ table[o].spilled \subseteq 1..Len(prog.writes[o])
    /\ \A e \in begin \cup ended \cup scheduled : e.op \in Ops /\ e.begin < e.end
    /\ stage = "failed" <=> fault # "none"

(* Between two operations the live ranges of the linear scan are apart and *)
(* the gaps are the rest of the memory, over spills (freed by the scan, the *)
(* address forgotten when the write is popped), read backs and prefetches. *)
LiveMemoryAccounted ==
    stage \in {"loop", "ready", "evict"} =>
        LET gapUnits(i) == gaps[i].begin..(gaps[i].end - 1)
            bufUnits(b) == address[b]..(address[b] + prog.size[b] - 1)
        IN  /\ \A b \in alive : bufUnits(b) \subseteq 0..(TotalSize - 1)
            /\ \A b, c \in alive : b # c => bufUnits(b) \cap bufUnits(c) = {}
            /\ UNION {gapUnits(i) : i \in DOMAIN gaps} = (0..(TotalSize - 1)) \ UNION {bufUnits(b) : b \in alive}

(* generateSchedule, with and without prefetching: the operations run once, *)
(* in the order of the data; an executor does one thing at a time; a read  *)
(* back restores what was saved; and buffers needed at the same time are   *)
(* apart.                                                                  *)
ScheduleDelivers == stage = "sorted" => Delivers(schedule, address)

(* The same of the schedule after optimizeDataOpsSpills,                   *)
(* removeComputeOpRelocationSpills and removeRedundantSpillWrites: "In     *)
(* other cases there might be a clash in terms of buffer ranges".          *)
OptimizedScheduleDelivers == stage = "optimized" => Delivers(schedule, address)

(* The dependencies that insertMemoryControlEdges and insertSpillCopyOps   *)
(* write, and what optimizeDepsMap leaves of them, order every two         *)
(* operations that touch the same memory as the schedule does: the run     *)
(* time knows only them, not the cycles.                                   *)
SharedMemoryOrdered == stage \in {"linked", "done"} => MemoryOrdered(schedule, address, deps)

(* OptimizeAsyncDeps removes only what is implied by what it leaves, and   *)
(* all of that.                                                            *)
KeepsOrder == stage = "linked" /\ stage' = "done" =>
    /\ Closure(deps') = Closure(deps)
    /\ \A i \in DOMAIN deps' : \A d, c \in deps'[i] : d \notin Closure(deps')[c]
ReductionKeepsOrder == [][KeepsOrder]_vars

(* A program none of whose operations alone is too big is compiled, however *)
(* much has to be spilled and prefetched: no exception of the scheduler    *)
(* ("Scheduler failure", "Attempt to evict a non active operation",        *)
(* "Failed to statically allocate") is reached.                            *)
Fits == \A o \in Ops : FoldSet(LAMBDA b, sum : prog.size[b] + sum, 0, UsedBuffers(o)) <= TotalSize
NeverFails == Fits => stage # "failed"

(* schedulingLoop ends: evictions do not go in circles.                    *)
SchedulerEnds == <>(stage \in {"done", "failed"})
=============================================================================
