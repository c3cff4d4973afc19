SPECIFICATION FairSpec
CONSTANTS
    t1 = t1
    t2 = t2
    Transaction <- MCOneTransaction
    Unextractable <- MCNone
    ScoringBatch = 1
    BundleBatch = 1
    MaxEvents = 1
    MaxFaults = 1
CHECK_DEADLOCK FALSE
PROPERTIES
    PendingIsRetried
