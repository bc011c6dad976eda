SPECIFICATION StSpec
CONSTANTS
    T1 = 1
    T2 = 8
    T4 = 10
    Timeout = 64
    CompleteWait = 64
    MaxRequests = 2
INVARIANTS
    HeldOrTimed
PROPERTIES
    CancelToldOnce
    AnsweredEnds
