SPECIFICATION FairSpec
CONSTANTS
    c1 = c1
    c2 = c2
    c3 = c3
    t1 = t1
    t2 = t2
    NoTransaction = NoTransaction
    d1 = d1
    d2 = d2
    Call <- MCCall
    Transaction <- MCTransaction
    Detector <- MCDetector
    Runnable <- MCRunnable
    MaxRetries = 1
    MaxConcurrent = 2
INVARIANTS
    CollectedIsInFlight
    SignalsAreSaved
PROPERTIES
    EveryCallEnds
