SPECIFICATION FairSpec
CONSTANTS
    e1 = e1
    e2 = e2
    e3 = e3
    e4 = e4
    Entry <- MCEntry
    Unserialisable <- MCUnserialisable
    BufferSize = 3
CHECK_DEADLOCK FALSE
INVARIANTS
    NoFalseAlarm
    StopDrains
PROPERTIES
    ImplementsTrail
    EventuallyWritten
