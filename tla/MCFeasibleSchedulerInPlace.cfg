SPECIFICATION FSSpec
CONSTANTS
    Programs <- InPlace
    TotalSize = 6
    BarrierCount = 4
INVARIANT OptimizedScheduleDelivers
