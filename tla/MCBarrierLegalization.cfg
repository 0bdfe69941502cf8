\* Tasks 1 to 4 with three barriers, where the first task of the function is a
\* DMA without barriers; and tasks 0 to 4 with two.
CONSTANTS
    NumTasks = 5
    NumBarriers = 3
    MaxVariantCounts = {2, 4}
    Variants = {1, 2}
    Common = {}
    Functions <- MCLegalFunctions
SPECIFICATION Spec
INVARIANTS
    ConsumersFollowProducers
    OrderKept
    SlotsRespected
