\* The calls are bounded, so the queues come to rest.
CONSTANTS
    Event = {e1, e2}
    Request = {r1, r2}
    Levels = 2
    MaxCalls = 5
    MaxFaults = 1
SPECIFICATION Spec
SYMMETRY Symmetry
CHECK_DEADLOCK FALSE
INVARIANTS
    NoOvertaking
    NothingLost
    OneCopy
