SPECIFICATION VerificationSpec
CONSTANTS
    e1 = e1
    e2 = e2
    e3 = e3
    Entry <- MCEntry
    Unserialisable <- MCUnserialisable
    MaxAlterations = 2
SYMMETRY
    Symmetry
CHECK_DEADLOCK FALSE
INVARIANTS
    VerificationTypeOK
    WalkExact
    AnomaliesAreOfLastScan
PROPERTIES
    SummaryMatchesScan
