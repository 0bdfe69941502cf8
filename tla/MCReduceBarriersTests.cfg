CONSTANTS
    NumDma = 1
    NumTasks = 6
    MaxProducers = 2
    MaxRoots = 2
    Sharing = {FALSE}
    OneFifo = FALSE
    MaxVariantCount = 4
    Limits = {2}
    Modes = {}
    Programs = {}
    Functions <- MCFunctionsAndTests
SPECIFICATION RSpec
INVARIANTS
    OrderKept
    AssignmentSucceeds
    TestsPass
