SPECIFICATION Spec
CONSTANTS
    p1 = p1
    p2 = p2
    Proc <- MCTwoProcs
    MaxPolicies = 2
    MaxRev = 0
    MaxRestarts = 0
    RedisMayFail = FALSE
INVARIANT
    AtMostOneActive
