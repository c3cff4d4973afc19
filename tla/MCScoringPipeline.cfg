SPECIFICATION FairSpec
CONSTANTS
    t1 = t1
    t2 = t2
    Transaction <- MCTransaction
    Unextractable <- MCUnextractable
    ScoringBatch = 2
    BundleBatch = 2
    MaxEvents = 2
    MaxFaults = 2
CHECK_DEADLOCK FALSE
INVARIANTS
    AckedIsAnswered
    AnnouncedIsStored
    AckedIsKept
    OrderKept
PROPERTIES
    Drained
    EventIsBundled
