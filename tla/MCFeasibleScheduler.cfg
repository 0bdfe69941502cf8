SPECIFICATION FSSpec
CONSTANTS
    Programs <- MCPrograms
    TotalSize = 5
    BarrierCount = 4
INVARIANTS
    LiveMemoryAccounted
    ScheduleDelivers
    OptimizedScheduleDelivers
    SharedMemoryOrdered
    NeverFails
PROPERTIES
    ReductionKeepsOrder
    SchedulerEnds
