SPECIFICATION FairSpec
CONSTANTS
    e1 = e1
    e2 = e2
    e3 = e3
    e4 = e4
    e5 = e5
    Entry <- MCEntry
    Unserialisable <- MCUnserialisable
    BatchSize = 2
    CircuitThreshold = 2
CHECK_DEADLOCK FALSE
INVARIANTS
    BreakerMatchesFailures
    EnqueuedIsHeld
    StatsBalance
PROPERTIES
    OpenBlocksWrites
    QueueIsTaken
