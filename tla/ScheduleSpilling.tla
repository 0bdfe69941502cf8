-------------------------- MODULE ScheduleSpilling --------------------------
(***************************************************************************)
(* FeasibleMemorySchedulerSpilling: the optimizations of a finished        *)
(* schedule, and what it means that a schedule can be executed.            *)
(*                                                                         *)
(* A schedule is a sequence of entries in ascending order of their begin.  *)
(* An entry is an original operation, or a spill (READ, WRITE) of buf, the *)
(* result of op; ins and outs are the ranges of memory it was given.       *)
(***************************************************************************)
EXTENDS Listing, AsyncProgram, Partitioner

OriginalTypes == {"ORIGINAL", "PREFETCHED"}
isOriginal(e) == e.type \in OriginalTypes
Executor(e) == IF isOriginal(e) THEN prog.exec[e.op] ELSE "DMA"

MemRange(b, addr) == [buf |-> b, begin |-> addr, end |-> addr + prog.size[b]]
Overlapping(r, t) == intersects(r.begin, r.end - r.begin, t.begin, t.end - t.begin)

(* The entries of s at the indices that are not in removed.                *)
Without(s, removed) ==
    LET kept == Ascending(DOMAIN s \ removed)
    IN  [k \in DOMAIN kept |-> s[kept[k]]]

-----------------------------------------------------------------------------
(* optimizeDataOpsSpills: the buffer of a data operation that is spilled   *)
(* before anybody has used it was loaded for nothing.                      *)

SpillTree(s, d) == Ascending({i \in DOMAIN s : s[i].op = d})

Idle(s, b, i, j) ==
    \A k \in (i + 1)..(j - 1) :
        \A o \in {s[k].op} \cup prog.uses[s[k].op] : b \notin Writes(o)

IdlePair(s, d, m) ==
    LET t == SpillTree(s, d)
    IN  /\ 2 * m <= Len(t)
        /\ Idle(s, prog.writes[d][1], t[2 * m - 1], t[2 * m])

(* The pairs of a load and the next spill between which nothing happens go; *)
(* if the original is among them, the first load that stays is original.   *)
optimizeDataOpsSpills(s) ==
    LET spilled == {d \in Ops : /\ isDataOp(d) /\ Len(prog.writes[d]) = 1
                                /\ \E i \in DOMAIN s : s[i].op = d /\ ~isOriginal(s[i])}
        pairs(d) == {m \in 1..Len(s) : IdlePair(s, d, m)}
        first(d) == CHOOSE m \in 1..(Len(s) + 1) : m \notin pairs(d) /\ 1..(m - 1) \subseteq pairs(d)
        promoted == {SpillTree(s, d)[2 * first(d) - 1] : d \in spilled}
        removed == UNION {UNION {{SpillTree(s, d)[2 * m - 1], SpillTree(s, d)[2 * m]} : m \in pairs(d)} : d \in spilled}
    IN  Without([i \in DOMAIN s |->
                    IF i \in promoted THEN [s[i] EXCEPT !.type = s[SpillTree(s, s[i].op)[1]].type]
                    ELSE s[i]],
                removed)

-----------------------------------------------------------------------------
(* removeComputeOpRelocationSpills: "COMPUTEOP -> SPILL_WRITE -> SPILL_READ *)
(* sequence must happen immediately one after the other".  The result goes *)
(* where the READ would have put it, if that memory is not in use.         *)

Before(s, w) == {i \in 1..(w - 1) : s[i].begin < s[w].begin}
After(s, w) == {i \in (w + 1)..Len(s) : s[i].begin > s[w].begin}
PrevTime(s, w) == {i \in Before(s, w) : \A j \in Before(s, w) : s[j].begin <= s[i].begin}
NextTime(s, w) == {i \in After(s, w) : \A j \in After(s, w) : s[i].begin <= s[j].begin}

Origs(s, w) == {i \in PrevTime(s, w) : s[i].op = s[w].op /\ isOriginal(s[i])}
Reads(s, w) == {i \in NextTime(s, w) : s[i].op = s[w].op}

MutantRangeUsed(s, w, orig, read, r) ==
    \E i \in orig..(read - 1) :
        i # w /\ i # orig /\ \E t \in s[i].ins \cup s[i].outs : Overlapping(t, r)
RangeUsed(s, w, orig, read, r) ==
    \E i \in Min(PrevTime(s, w))..(read - 1) :
        /\ i # w
        /\ \E t \in s[i].ins \cup {u \in s[i].outs : i = orig => u.buf # r.buf} : Overlapping(t, r)

(* A schedule of the WRITEs from index w on, and the indices to remove.    *)
RECURSIVE Relocated(_, _, _)
Relocated(s, w, removed) ==
    IF w > Len(s) THEN Without(s, removed)
    ELSE LET candidate == /\ s[w].type = "WRITE" /\ ~isDataOp(s[w].op)
                          /\ Len(prog.writes[s[w].op]) = 1
                          /\ Origs(s, w) # {} /\ Reads(s, w) # {}
             orig == Min(Origs(s, w))
             read == Min(Reads(s, w))
             range == CHOOSE r \in s[read].outs : TRUE
         IN  IF /\ candidate
                /\ ~RangeUsed(s, w, orig, read, range)
                /\ range.buf \notin prog.parts
             THEN Relocated([s EXCEPT ![orig].outs =
                                {IF u.buf = range.buf THEN range ELSE u : u \in @}],
                            w + 1, removed \cup {w, read})
             ELSE Relocated(s, w + 1, removed)

removeComputeOpRelocationSpills(s) == Relocated(s, 1, {})

(* removeRedundantSpillWrites: the same buffer of the same operation is    *)
(* in DDR already.                                                         *)
removeRedundantSpillWrites(s) ==
    Without(s, {i \in DOMAIN s :
                    /\ s[i].type = "WRITE"
                    /\ \E j \in 1..(i - 1) : /\ s[j].type = "WRITE" /\ s[j].op = s[i].op
                                             /\ s[j].buf = s[i].buf})

-----------------------------------------------------------------------------
(* What the schedule becomes.  insertSpillCopyOps creates a new buffer for *)
(* every READ; operations behind it use the new one.  The copies of a      *)
(* buffer are named by the index of their READ, the original by 0.  The    *)
(* new buffer is where the READ puts it; a WRITE sets the address of the   *)
(* copy it saves; an original that is never saved is where the linear scan *)
(* put it last.                                                            *)

CopyAt(s, i, b) == Max({0} \cup {j \in 1..i : s[j].type = "READ" /\ s[j].buf = b})

CopyRange(s, b, copy, address) ==
    LET saves == {i \in DOMAIN s : s[i].type = "WRITE" /\ s[i].buf = b /\ CopyAt(s, i, b) = copy}
    IN  CASE saves # {} -> CHOOSE r \in s[Max(saves)].ins : TRUE
          [] saves = {} /\ copy > 0 -> CHOOSE r \in s[copy].outs : TRUE
          [] OTHER -> MemRange(b, address[b])

Touches(e, b) == IF isOriginal(e) THEN b \in UsedBuffers(e.op) ELSE e.buf = b

(* The time for which a copy is needed: from its first to its last use.    *)
Uses(s, b, copy) == {i \in DOMAIN s : Touches(s[i], b) /\ CopyAt(s, i, b) = copy}
CopyLife(s, b, copy, address) ==
    [buf |-> b, copy |-> copy, range |-> CopyRange(s, b, copy, address),
     from |-> Min({s[i].begin : i \in Uses(s, b, copy)}),
     to |-> Max({s[i].end : i \in Uses(s, b, copy)})]

Lives(s, address) ==
    {CopyLife(s, b, copy, address) : <<b, copy>> \in
        {<<c, k>> \in Buffers \X (0..Len(s)) : Uses(s, c, k) # {}}}

(* Two buffers that are needed at the same time are apart.                 *)
LivesApart(s, address) ==
    \A x, y \in Lives(s, address) :
        \/ x.buf = y.buf /\ x.copy = y.copy
        \/ ~Overlapping(x.range, y.range)
        \/ x.to <= y.from \/ y.to <= x.from

Finished(s, i, j) == i < j /\ s[i].end <= s[j].begin

(* What a READ brings back was saved after every write to the buffer: the  *)
(* spill read refers to the most recent spill write.                       *)
SavedWhole(s) ==
    \A j \in DOMAIN s : s[j].type = "READ" =>
        LET saves == {i \in 1..(j - 1) : s[i].type = "WRITE" /\ s[i].buf = s[j].buf}
        IN  /\ saves # {}
            /\ Finished(s, Max(saves), j)
            /\ \A i \in 1..(j - 1) :
                    isOriginal(s[i]) /\ s[j].buf \in Writes(s[i].op) => Finished(s, i, Max(saves))

(* Every operation runs once, after its operands, and a reader of a buffer *)
(* after all who wrote to it before in the IR, and before those who write  *)
(* to it later.                                                            *)
OrderKept(s) ==
    /\ \A o \in Ops : Cardinality({i \in DOMAIN s : isOriginal(s[i]) /\ s[i].op = o}) = 1
    /\ \A i, j \in DOMAIN s : isOriginal(s[i]) /\ isOriginal(s[j]) =>
        LET p == s[i].op
            o == s[j].op
        IN  /\ p \in prog.uses[o] => Finished(s, i, j)
            /\ p < o /\ Writes(p) \cap prog.reads[o] # {} => Finished(s, i, j)
            /\ p < o /\ prog.reads[p] \cap Writes(o) # {} => Finished(s, i, j)

(* An executor runs one operation at a time.                               *)
Serial(s) ==
    \A i, j \in DOMAIN s :
        i < j /\ Executor(s[i]) = Executor(s[j]) /\ s[i].port = s[j].port => s[i].end <= s[j].begin

Delivers(s, address) ==
    OrderKept(s) /\ Serial(s) /\ SavedWhole(s) /\ LivesApart(s, address)
=============================================================================
