---------------------------- MODULE Partitioner ----------------------------
(***************************************************************************)
(* vpux::Partitioner: hands out parts of one contiguous memory.  Its only  *)
(* state is the vector of gaps, [begin, end) each, kept in ascending order *)
(* of addresses; every method is an operator that returns the new vector.  *)
(***************************************************************************)
EXTENDS Integers, Sequences, SequencesExt

InvalidAddress == -1

Gap(begin, end) == [begin |-> begin, end |-> end]
GapSize(g) == g.end - g.begin

(* The gaps are in ascending order and never touch.                        *)
Separated(gaps) ==
    /\ \A i \in DOMAIN gaps : gaps[i].begin < gaps[i].end
    /\ \A i, j \in DOMAIN gaps : i < j => gaps[i].end < gaps[j].begin

(* An address, and a block, that lies in a gap.                            *)
Covered(gaps, a) == \E i \in DOMAIN gaps : gaps[i].begin <= a /\ a < gaps[i].end
IsFree(gaps, addr, size) ==
    \E i \in DOMAIN gaps : gaps[i].begin <= addr /\ addr + size <= gaps[i].end

MutantIntersects(addr1, size1, addr2, size2) ==
    addr1 < addr2 + size2 /\ addr2 < addr1 + size1 - 1

intersects(addr1, size1, addr2, size2) ==
    addr1 < addr2 + size2 /\ addr2 < addr1 + size1

alignValUp(val, alignment) == ((val + alignment - 1) \div alignment) * alignment

MutantAddrFromGap(g, size, alignment, dir) ==
    IF dir = "Up"
    THEN LET first == alignValUp(g.begin, alignment)
         IN  IF first + size > g.end THEN InvalidAddress ELSE first
    ELSE LET last == alignValUp(g.end - size, alignment)
         IN  CASE GapSize(g) >= size /\ last + size <= g.end -> last
               [] GapSize(g) >= size /\ last + size > g.end
                        /\ g.begin + alignment < last -> last - alignment
               [] OTHER -> InvalidAddress

(* The address for an allocation inside one gap, or InvalidAddress: the    *)
(* first aligned one going up, the last aligned one going down.            *)
getAddrFromGap(g, size, alignment, dir) ==
    IF dir = "Up"
    THEN LET first == alignValUp(g.begin, alignment)
         IN  IF GapSize(g) < size \/ first + size > g.end
             THEN InvalidAddress ELSE first
    ELSE LET last == alignValUp(g.end - size, alignment)
         IN  CASE GapSize(g) < size -> InvalidAddress
               [] GapSize(g) >= size /\ last + size <= g.end -> last
               [] OTHER ->
                    IF g.begin + alignment > last \/ last - alignment + size > g.end
                    THEN InvalidAddress ELSE last - alignment

(* The gap for an allocation, as a set of one gap or of none: the smallest *)
(* suitable one, the first such in the direction of the search; the last   *)
(* gap in that direction is taken only if there is no other.               *)
chooseMinimalGap(gaps, size, alignment, dir) ==
    LET suitable == {i \in DOMAIN gaps :
                        getAddrFromGap(gaps[i], size, alignment, dir) # InvalidAddress}
        final == IF dir = "Up" THEN Len(gaps) ELSE 1
        preferred == IF suitable \subseteq {final} THEN suitable ELSE suitable \ {final}
        Better(i, j) ==
            \/ GapSize(gaps[i]) < GapSize(gaps[j])
            \/ /\ GapSize(gaps[i]) = GapSize(gaps[j])
               /\ IF dir = "Up" THEN i < j ELSE i > j
    IN  {i \in preferred : \A j \in preferred \ {i} : Better(i, j)}

MutantUseGap(gaps, pos, addr, size) ==
    LET g == gaps[pos]
    IN  IF addr + size = g.end
        THEN RemoveAt(gaps, pos)
        ELSE ReplaceAt(gaps, pos, Gap(addr + size, g.end))

(* What is left of a gap on both sides of an allocation.                   *)
useGap(gaps, pos, addr, size) ==
    LET g == gaps[pos]
        end == addr + size
    IN  CASE addr = g.begin /\ end = g.end -> RemoveAt(gaps, pos)
          [] addr > g.begin /\ end = g.end -> ReplaceAt(gaps, pos, Gap(g.begin, addr))
          [] addr = g.begin /\ end < g.end -> ReplaceAt(gaps, pos, Gap(end, g.end))
          [] OTHER -> InsertAt(ReplaceAt(gaps, pos, Gap(end, g.end)), pos, Gap(g.begin, addr))

(* allocFixed finds the gap by its begin, or the one before that begin;    *)
(* the caller is certain that the memory is free.                          *)
GapAround(gaps, addr, size) ==
    CHOOSE i \in DOMAIN gaps : gaps[i].begin <= addr /\ addr + size <= gaps[i].end

allocFixed(gaps, addr, size) == useGap(gaps, GapAround(gaps, addr, size), addr, size)

MutantFilled(gaps, i, addr, end) ==
    CASE addr = gaps[i].end -> ReplaceAt(gaps, i, Gap(gaps[i].begin, end))
      [] addr # gaps[i].end /\ end = gaps[i + 1].begin ->
            ReplaceAt(gaps, i + 1, Gap(addr, gaps[i + 1].end))
      [] OTHER -> InsertAt(gaps, i + 1, Gap(addr, end))

(* Memory between the gaps i and i + 1 becomes free: it joins the gaps it  *)
(* touches.                                                                *)
Filled(gaps, i, addr, end) ==
    CASE addr = gaps[i].end /\ end = gaps[i + 1].begin ->
            ReplaceAt(RemoveAt(gaps, i + 1), i, Gap(gaps[i].begin, gaps[i + 1].end))
      [] addr = gaps[i].end /\ end # gaps[i + 1].begin ->
            ReplaceAt(gaps, i, Gap(gaps[i].begin, end))
      [] addr # gaps[i].end /\ end = gaps[i + 1].begin ->
            ReplaceAt(gaps, i + 1, Gap(addr, gaps[i + 1].end))
      [] OTHER -> InsertAt(gaps, i + 1, Gap(addr, end))

(* free: before the first gap, between two gaps, or after the last one.    *)
free(gaps, addr, size) ==
    LET end == addr + size
        n == Len(gaps)
        between == {i \in 1..(n - 1) : gaps[i].end <= addr /\ end <= gaps[i + 1].begin}
    IN  CASE n = 0 -> <<Gap(addr, end)>>
          [] n > 0 /\ end = gaps[1].begin -> ReplaceAt(gaps, 1, Gap(addr, gaps[1].end))
          [] n > 0 /\ end < gaps[1].begin -> InsertAt(gaps, 1, Gap(addr, end))
          [] n > 0 /\ end > gaps[1].begin /\ between # {} ->
                Filled(gaps, CHOOSE i \in between : \A j \in between : i <= j, addr, end)
          [] OTHER ->
                CASE end < gaps[n].begin -> InsertAt(gaps, n, Gap(addr, end))
                  [] end = gaps[n].begin -> ReplaceAt(gaps, n, Gap(addr, gaps[n].end))
                  [] addr = gaps[n].end -> ReplaceAt(gaps, n, Gap(gaps[n].begin, end))
                  [] OTHER -> InsertAt(gaps, n + 1, Gap(addr, end))
=============================================================================
