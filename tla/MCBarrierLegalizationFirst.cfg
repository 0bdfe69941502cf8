\* The first task of the function is a producer of every barrier, so that the
\* order in which the wait barriers are taken makes no difference.
CONSTANTS
    NumTasks = 4
    NumBarriers = 2
    MaxVariantCounts = {4}
    Variants = {1}
    Common = {0}
    Functions <- MCFunctions
SPECIFICATION Spec
INVARIANT ConsumersFollowProducers
