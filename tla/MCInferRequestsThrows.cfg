SPECIFICATION Spec
CHECK_DEADLOCK FALSE
CONSTANTS
    Requests = {r1, r2}
    MaxInferences = 2
    Faults <- AtTheOutputs
    MaxFaults = 1
    None = None
INVARIANT
    ReadyWhenPulled
