CONSTANTS
    NumDma = 1
    NumTasks = 5
    MaxProducers = 2
    MaxRoots = 5
    Sharing = {FALSE}
    OneFifo = FALSE
    MaxVariantCount = 4
    Limits = {2}
    Modes = {}
    Programs = {}
    Functions <- MCFunctions
SPECIFICATION RSpec
INVARIANTS
    PassedMeansNothingToLegalize

