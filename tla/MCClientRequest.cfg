SPECIFICATION ReqSpec
CONSTANTS
    T1 = 1
    T2 = 2
    T4 = 3
    Timeout = 8
    CompleteWait = 8
    MaxAttempts = 3
    MaxAddr = 2
    MaxSrv = 2
INVARIANTS
    UserToldOnce
    RequestNotOrphaned
    CancelNotLost
PROPERTIES
    CancelStopsFailover
    RequestEnds
