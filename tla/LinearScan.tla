----------------------------- MODULE LinearScan -----------------------------
(***************************************************************************)
(* vpux::LinearScan: assigns addresses of one memory to live ranges, on    *)
(* top of a Partitioner.  The handler knows which ranges are alive, their  *)
(* sizes, alignments, fixed addresses and spill weights, and remembers the *)
(* address each range was given.                                           *)
(*                                                                         *)
(* alloc, canAlloc and freeNonAlive are loops; each iteration is a step,   *)
(* so that the memory is looked at in the middle of a call too.  No other  *)
(* call starts before the running one has returned.  The vector of live    *)
(* ranges is a set: its order only breaks ties between spill weights; the  *)
(* spill candidates of a call are a set too, spilled in any order.         *)
(***************************************************************************)
EXTENDS Partitioner, FiniteSets

CONSTANTS
    TotalSize,      \* _par.totalSize()
    ReservedSize,   \* reservedVec: resources side by side from address 0 on
    LiveRange,          \* the live ranges (mlir values) a client may pass
    Size,           \* getSize
    Alignment,      \* getAlignment
    FixedAddress,   \* getAddress of a fixed range, InvalidAddress of another
    SpillWeight,    \* getSpillWeight
    MaxLost,        \* bound: refused spills that lose memory
    Batches         \* lists of ranges that are passed to alloc and canAlloc

ASSUME TotalSizeAssumption == TotalSize \in Nat \ {0} /\ ReservedSize \in 0..TotalSize
ASSUME RangeAssumption ==
    /\ Size \in [LiveRange -> Nat \ {0}]
    /\ Alignment \in [LiveRange -> Nat \ {0}]
    /\ FixedAddress \in [LiveRange -> Nat \cup {InvalidAddress}]
    /\ SpillWeight \in [LiveRange -> Int]

isFixedAlloc(r) == FixedAddress[r] # InvalidAddress

(* alloc does not look for conflicts between the fixed ranges of one call  *)
(* nor with reserved memory, nor for ranges beyond the memory: its caller  *)
(* must not ask for them.                                                  *)
ASSUME FixedAssumption ==
    \A r \in LiveRange : isFixedAlloc(r) =>
        ReservedSize <= FixedAddress[r] /\ FixedAddress[r] + Size[r] <= TotalSize
ASSUME BatchesAssumption ==
    /\ Batches \subseteq Seq(LiveRange)
    /\ \A b \in Batches : \A i, j \in DOMAIN b : i # j =>
        /\ b[i] # b[j]
        /\ isFixedAlloc(b[i]) /\ isFixedAlloc(b[j]) =>
                ~intersects(FixedAddress[b[i]], Size[b[i]], FixedAddress[b[j]], Size[b[j]])

VARIABLES
    gaps,           \* _par: the gaps
    live,           \* _liveRanges
    alive,          \* handler: the values marked as alive
    address,        \* handler: the address a value was given last
    stage,          \* where the running call is
    todo,           \* ranges the call has still to place
    placed,         \* allocatedAddrs or tempAlloc: address of a placed range
    allowSpills,
    direction,
    candidates,     \* spillCandidates
    newRangeAddr,
    gapsBefore,     \* the gaps at the start of the call
    lost            \* blocks that nobody will free: left by a refused spill

callVars == <<todo, placed, allowSpills, direction, candidates, newRangeAddr, gapsBefore>>
vars == <<gaps, live, alive, address, stage, callVars, lost>>

Placed == {r \in LiveRange : placed[r] # InvalidAddress}

Nowhere == [r \in LiveRange |-> InvalidAddress]

LSInit ==
    /\ live = {} /\ alive = {} /\ lost = {}
    /\ address = Nowhere
    /\ stage = "idle"
    /\ todo = <<>> /\ candidates = {}
    /\ placed = Nowhere
    /\ allowSpills = FALSE /\ direction = "Up"
    /\ newRangeAddr = InvalidAddress
    /\ gaps = IF ReservedSize = 0 THEN <<Gap(0, TotalSize)>>
              ELSE allocFixed(<<Gap(0, TotalSize)>>, 0, ReservedSize)
    /\ gapsBefore = <<>>

-----------------------------------------------------------------------------
(* The handler, as the clients use it between two calls.                   *)

markAsDead ==
    /\ stage = "idle"
    /\ \E r \in alive : alive' = alive \ {r}
    /\ UNCHANGED <<gaps, live, address, stage, callVars, lost>>

-----------------------------------------------------------------------------
(* freeNonAlive                                                            *)

freeNonAlive ==
    /\ stage = "idle"
    /\ live \ alive # {}
    /\ stage' = "freeNonAlive"
    /\ UNCHANGED <<gaps, live, alive, address, callVars, lost>>

freeLiveRange ==
    /\ stage = "freeNonAlive"
    /\ \E r \in live \ alive :
        /\ gaps' = free(gaps, address[r], Size[r])
        /\ live' = live \ {r}
    /\ UNCHANGED <<alive, address, stage, callVars, lost>>

NonAliveFreed ==
    /\ stage = "freeNonAlive"
    /\ live \subseteq alive
    /\ stage' = "idle"
    /\ UNCHANGED <<gaps, live, alive, address, callVars, lost>>

-----------------------------------------------------------------------------
(* alloc                                                                   *)

FixedFirst(batch) ==
    \A i, j \in DOMAIN batch : i < j /\ isFixedAlloc(batch[j]) => isFixedAlloc(batch[i])

(* The clients mark new buffers as alive and then ask for their memory.    *)
(* alloc first looks at all fixed ranges of the list and then at all       *)
(* others: a list is taken in that order from the start.                   *)
alloc ==
    /\ stage = "idle"
    /\ \E batch \in Batches :
        /\ FixedFirst(batch)
        /\ \A i \in DOMAIN batch : batch[i] \notin live
        /\ todo' = batch
        /\ alive' = alive \cup {batch[i] : i \in DOMAIN batch}
    /\ allowSpills' \in BOOLEAN /\ direction' \in {"Up", "Down"}
    /\ stage' = "place"
    /\ gapsBefore' = gaps
    /\ UNCHANGED <<gaps, live, address, placed, candidates, newRangeAddr, lost>>

New == Head(todo)

ConflictFree(r) ==
    \A prev \in live : ~intersects(FixedAddress[r], Size[r], address[prev], Size[prev])

PlainGap(r) == chooseMinimalGap(gaps, Size[r], Alignment[r], direction)

(* A plain range gets the memory the partitioner finds, a fixed one waits  *)
(* for the live ranges in its way to be spilled.                           *)
FindPlace ==
    /\ stage = "place" /\ todo # <<>>
    /\ IF isFixedAlloc(New)
       THEN /\ ConflictFree(New) /\ IsFree(gaps, FixedAddress[New], Size[New])
            /\ newRangeAddr' = FixedAddress[New]
            /\ UNCHANGED gaps
       ELSE \E pos \in PlainGap(New) :
                LET addr == getAddrFromGap(gaps[pos], Size[New], Alignment[New], direction)
                IN  /\ newRangeAddr' = addr
                    /\ gaps' = useGap(gaps, pos, addr, Size[New])
    /\ stage' = "spill"
    /\ UNCHANGED <<live, alive, address, todo, placed, allowSpills, direction, candidates, gapsBefore, lost>>

(* allocFixed asserts that the memory is free; the build without asserts   *)
(* would corrupt the gaps.                                                 *)
AssertionFails ==
    /\ stage = "place" /\ todo # <<>>
    /\ isFixedAlloc(New) /\ ConflictFree(New)
    /\ ~IsFree(gaps, FixedAddress[New], Size[New])
    /\ stage' = "assert"
    /\ UNCHANGED <<gaps, live, alive, address, callVars, lost>>

NoPlace(r) ==
    IF isFixedAlloc(r) THEN ~ConflictFree(r) ELSE PlainGap(r) = {}

(* getSpillCandidate: the memory of the candidate is free from now on.     *)
getSpillCandidate ==
    /\ stage = "place" /\ todo # <<>> /\ NoPlace(New)
    /\ allowSpills
    /\ \E r \in live :
        /\ \A other \in live : SpillWeight[r] <= SpillWeight[other]
        /\ gaps' = free(gaps, address[r], Size[r])
        /\ live' = live \ {r}
        /\ candidates' = candidates \cup {r}
    /\ UNCHANGED <<alive, address, stage, todo, placed, allowSpills, direction, newRangeAddr, gapsBefore, lost>>

(* There is nothing (more) to spill: the candidates taken so far are       *)
(* forgotten.                                                              *)
GiveUp ==
    /\ stage = "place" /\ todo # <<>> /\ NoPlace(New)
    /\ ~allowSpills \/ live = {}
    /\ stage' = "rollback"
    /\ candidates' = {}
    /\ UNCHANGED <<gaps, live, alive, address, todo, placed, allowSpills, direction, newRangeAddr, gapsBefore, lost>>

Conflicts(c) == intersects(address[c], Size[c], newRangeAddr, Size[New])

(* performActualSpill: "Spill only those ranges which really conflict with *)
(* the allocated one."  The handler may refuse a spill.                    *)
KeepCandidate ==
    /\ stage = "spill"
    /\ \E c \in candidates :
        /\ ~Conflicts(c)
        /\ gaps' = allocFixed(gaps, address[c], Size[c])
        /\ live' = live \cup {c}
        /\ candidates' = candidates \ {c}
    /\ UNCHANGED <<alive, address, stage, todo, placed, allowSpills, direction, newRangeAddr, gapsBefore, lost>>

SpillCandidate ==
    /\ stage = "spill"
    /\ \E c \in candidates :
        /\ Conflicts(c)
        /\ alive' = alive \ {c}
        /\ candidates' = candidates \ {c}
    /\ UNCHANGED <<gaps, live, address, stage, todo, placed, allowSpills, direction, newRangeAddr, gapsBefore, lost>>

(* A plain range has its memory already, but is not in allocatedAddrs.     *)
RefuseSpill ==
    /\ stage = "spill"
    /\ \E c \in candidates : Conflicts(c)
    /\ Cardinality(lost) < MaxLost
    /\ lost' = IF isFixedAlloc(New) THEN lost
               ELSE lost \cup {[addr |-> newRangeAddr, size |-> Size[New]]}
    /\ candidates' = {}
    /\ stage' = "rollback"
    /\ UNCHANGED <<gaps, live, alive, address, todo, placed, allowSpills, direction, newRangeAddr, gapsBefore>>

MutantRangePlaced ==
    /\ stage = "spill" /\ candidates = {}
    /\ placed' = [placed EXCEPT ![New] = newRangeAddr]
    /\ todo' = Tail(todo)
    /\ stage' = "place"
    /\ UNCHANGED <<gaps, live, alive, address, allowSpills, direction, candidates, newRangeAddr, gapsBefore, lost>>

RangePlaced ==
    /\ stage = "spill" /\ candidates = {}
    /\ gaps' = IF isFixedAlloc(New) THEN allocFixed(gaps, newRangeAddr, Size[New]) ELSE gaps
    /\ placed' = [placed EXCEPT ![New] = newRangeAddr]
    /\ todo' = Tail(todo)
    /\ stage' = "place"
    /\ UNCHANGED <<live, alive, address, allowSpills, direction, candidates, newRangeAddr, gapsBefore, lost>>

(* The locals of a call are gone when it returns.                          *)
EndCall ==
    /\ todo' = <<>> /\ candidates' = {} /\ gapsBefore' = <<>>
    /\ placed' = Nowhere
    /\ newRangeAddr' = InvalidAddress
    /\ allowSpills' = FALSE /\ direction' = "Up"

(* "All requested live ranges are allocated now."                          *)
ReturnAllocated ==
    /\ stage = "place" /\ todo = <<>>
    /\ address' = [r \in LiveRange |-> IF r \in Placed THEN placed[r] ELSE address[r]]
    /\ live' = live \cup Placed
    /\ stage' = "idle"
    /\ EndCall
    /\ UNCHANGED <<gaps, alive, lost>>

MutantRelease ==
    /\ stage \in {"rollback", "dealloc"}
    /\ \E r \in Placed :
        /\ gaps' = IF stage = "rollback" THEN gaps ELSE free(gaps, placed[r], Size[r])
        /\ placed' = [placed EXCEPT ![r] = InvalidAddress]
    /\ UNCHANGED <<live, alive, address, stage, todo, allowSpills, direction, candidates, newRangeAddr, gapsBefore, lost>>

(* rollback, in the order of an unordered map; and the end of canAlloc.    *)
Release ==
    /\ stage \in {"rollback", "dealloc"}
    /\ \E r \in Placed :
        /\ gaps' = free(gaps, placed[r], Size[r])
        /\ placed' = [placed EXCEPT ![r] = InvalidAddress]
    /\ UNCHANGED <<live, alive, address, stage, todo, allowSpills, direction, candidates, newRangeAddr, gapsBefore, lost>>

ReturnFailed ==
    /\ stage = "rollback" /\ Placed = {}
    /\ stage' = "idle"
    /\ EndCall
    /\ UNCHANGED <<gaps, live, alive, address, lost>>

-----------------------------------------------------------------------------
(* canAlloc: allocates for a trial, whether fixed or not, and frees again. *)

canAlloc ==
    /\ stage = "idle"
    /\ \E batch \in Batches :
        /\ \A i \in DOMAIN batch : batch[i] \notin live
        /\ todo' = batch
    /\ direction' \in {"Up", "Down"}
    /\ stage' = "trial"
    /\ gapsBefore' = gaps
    /\ UNCHANGED <<gaps, live, alive, address, placed, allowSpills, candidates, newRangeAddr, lost>>

(* checkInvariantExceedingNNCMX may end the trial after any range.         *)
TryRange ==
    /\ stage = "trial" /\ todo # <<>>
    /\ \E pos \in PlainGap(New) :
        LET addr == getAddrFromGap(gaps[pos], Size[New], Alignment[New], direction)
        IN  /\ gaps' = useGap(gaps, pos, addr, Size[New])
            /\ placed' = [placed EXCEPT ![New] = addr]
    /\ todo' = Tail(todo)
    /\ stage' \in {"trial", "dealloc"}
    /\ UNCHANGED <<live, alive, address, allowSpills, direction, candidates, newRangeAddr, gapsBefore, lost>>

TrialOver ==
    /\ stage = "trial"
    /\ todo # <<>> => PlainGap(New) = {}
    /\ stage' = "dealloc"
    /\ UNCHANGED <<gaps, live, alive, address, callVars, lost>>

(* "Error new gaps created"                                                *)
ReturnCanAlloc ==
    /\ stage = "dealloc" /\ Placed = {}
    /\ stage' = IF Len(gapsBefore) = Len(gaps) THEN "idle" ELSE "throw"
    /\ EndCall
    /\ UNCHANGED <<gaps, live, alive, address, lost>>

(* An exception or an assertion has ended the compilation.                 *)
Stopped == stage \in {"throw", "assert"} /\ UNCHANGED vars

LSNext ==
    \/ markAsDead \/ freeNonAlive \/ freeLiveRange \/ NonAliveFreed
    \/ alloc \/ FindPlace \/ AssertionFails \/ getSpillCandidate \/ GiveUp
    \/ KeepCandidate \/ SpillCandidate \/ RefuseSpill \/ RangePlaced
    \/ ReturnAllocated \/ Release \/ ReturnFailed
    \/ canAlloc \/ TryRange \/ TrialOver \/ ReturnCanAlloc
    \/ Stopped

LSSpec == LSInit /\ [][LSNext]_vars
-----------------------------------------------------------------------------

(* Every variable stays in its range.                                      *)
LSTypeOK ==
    /\ gaps \in Seq([begin : 0..TotalSize, end : 0..TotalSize])
    /\ gapsBefore \in Seq([begin : 0..TotalSize, end : 0..TotalSize])
    /\ live \subseteq LiveRange /\ alive \subseteq LiveRange
    /\ address \in [LiveRange -> 0..TotalSize \cup {InvalidAddress}]
    /\ placed \in [LiveRange -> 0..TotalSize \cup {InvalidAddress}]
    /\ newRangeAddr \in 0..TotalSize \cup {InvalidAddress}
    /\ todo \in Seq(LiveRange) /\ candidates \subseteq LiveRange
    /\ allowSpills \in BOOLEAN /\ direction \in {"Up", "Down"}
    /\ stage \in {"idle", "freeNonAlive", "place", "spill", "rollback", "trial", "dealloc", "throw", "assert"}
    /\ lost \subseteq [addr : 0..TotalSize, size : 1..TotalSize]

(* The gaps are in ascending order and never touch: free joins a block     *)
(* with both neighbours.  The code's own check only asks for ascending     *)
(* gaps; touching ones would hide memory from an allocation that needs     *)
(* both.                                                                   *)
GapsSeparated == Separated(gaps)

(* The ranges that hold memory: live ones, those the running call has      *)
(* placed, and the one that is being placed if it already has its memory.  *)
Holding == live \cup Placed \cup {r \in LiveRange : stage = "spill" /\ r = New /\ ~isFixedAlloc(r)}
Where(r) == CASE r \in live -> address[r]
              [] r \in Placed \ live -> placed[r]
              [] OTHER -> newRangeAddr

Block(addr, size) == [addr |-> addr, size |-> size]
ReservedBlocks == IF ReservedSize = 0 THEN {} ELSE {Block(0, ReservedSize)}
InUse == ReservedBlocks \cup lost \cup {Block(Where(r), Size[r]) : r \in Holding}

(* Every address is either in a gap or in use, whatever was allocated,     *)
(* tried, rolled back, spilled or refused.                                 *)
MemoryAccounted ==
    \A a \in 0..(TotalSize - 1) :
        Covered(gaps, a) <=> ~\E b \in InUse : b.addr <= a /\ a < b.addr + b.size

(* No two ranges share memory: live ones, ones that the running call has   *)
(* placed, and the one that waits for spills.                              *)
RangesApart ==
    \A r, s \in Holding : r # s => ~intersects(Where(r), Size[r], Where(s), Size[s])

(* The search finds no place only when no aligned place exists, in either  *)
(* direction, and otherwise finds one that is free and aligned.            *)
SearchComplete ==
    \A r \in LiveRange, dir \in {"Up", "Down"} :
        LET found == chooseMinimalGap(gaps, Size[r], Alignment[r], dir)
            Place(a, i) == /\ a % Alignment[r] = 0
                           /\ gaps[i].begin <= a /\ a + Size[r] <= gaps[i].end
        IN  IF found = {}
            THEN ~\E i \in DOMAIN gaps, a \in 0..TotalSize : Place(a, i)
            ELSE \A pos \in found :
                    Place(getAddrFromGap(gaps[pos], Size[r], Alignment[r], dir), pos)

(* canAlloc never fails its own check, and neither it nor an alloc that    *)
(* fails without spilling leaves a trace in the memory.                    *)
TrialLeavesNoTrace ==
    /\ stage # "throw"
    /\ stage \in {"rollback", "dealloc"} /\ Placed = {} /\ (stage = "rollback" => ~allowSpills)
        => gaps = gapsBefore

(* A fixed range is asked for only where memory is free, unless a handler  *)
(* has refused a spill: the memory of the range it refused is lost.        *)
AssertionsHold == stage = "assert" => lost # {}

(* The linear scan is an allocator of one memory.                          *)
Map == INSTANCE MemoryMap WITH blocks <- InUse, Reserved <- ReservedBlocks
AllocatesOneMemory == Map!Spec
=============================================================================
