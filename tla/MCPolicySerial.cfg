SPECIFICATION Spec
CONSTANTS
    p1 = p1
    p2 = p2
    Proc <- MCOneProc
    MaxPolicies = 3
    MaxRev = 1
    MaxRestarts = 0
    RedisMayFail = FALSE
INVARIANTS
    AtMostOneActive
    CacheIsActive
PROPERTIES
    ImplementsRegister
