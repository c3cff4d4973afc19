SPECIFICATION FairSpec
CONSTANTS
    p1 = p1
    p2 = p2
    Proc <- MCTwoProcs
    MaxPolicies = 2
    MaxRev = 0
    MaxRestarts = 1
    RedisMayFail = TRUE
INVARIANTS
    ActiveIdIsActive
    CachedWasActive
PROPERTIES
    DraftOnce
    SwitchCompletes
    StaleCopyGoes
