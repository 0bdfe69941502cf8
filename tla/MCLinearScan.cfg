CONSTANTS
    r1 = r1
    r2 = r2
    r3 = r3
    r4 = r4
    TotalSize = 8
    ReservedSize = 1
    MaxLost = 1
    LiveRange <- MCRange
    Size <- MCSize
    Alignment <- MCAlignment
    FixedAddress <- MCFixed
    SpillWeight <- MCWeight
    Batches <- MCBatches
SPECIFICATION LSSpec
INVARIANTS
    GapsSeparated
    MemoryAccounted
    SearchComplete
    AssertionsHold
    TrialLeavesNoTrace
PROPERTIES
    AllocatesOneMemory
