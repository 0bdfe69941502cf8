SPECIFICATION Spec
CHECK_DEADLOCK FALSE
CONSTANTS
    Requests = {r1, r2}
    MaxInferences = 3
    Faults <- BeforeDispatch
    MaxFaults = 2
    None = None
INVARIANTS
    ReadyWhenPulled
    NothingPendingAtRest
PROPERTIES
    ServesRequests
    RequestsFinish
