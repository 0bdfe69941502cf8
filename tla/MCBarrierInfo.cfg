CONSTANTS
    NumTasks = 3
    MaxBarriers = 3
SPECIFICATION Spec
INVARIANTS
    MapsConsistent
    OptimizeKeepsOrder
    OptimizeRemovesRedundancy
    ControlMapComplete
