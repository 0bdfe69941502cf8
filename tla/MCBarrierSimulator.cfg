CONSTANTS
    NumDma = 2
    Variants = 2
    Limits = {1, 2}
    Modes = {"simulate", "legalize"}
    Patterns = {"ordered", "pairs", "any", "multi", "channels", "twice"}
    Programs <- MCPrograms
SPECIFICATION Spec
INVARIANTS
    PhysicalIdsConsistent
    CountsMatchPendingTasks
    NeededBarrierKeepsId
    EnoughBarriersSuffice
    BatchesDisjoint
    LegalizationNeverThrows
PROPERTIES
    ExecutionRefined
    SkippedDmaWasProcessed
    Termination
