SPECIFICATION CtSpec
CONSTANTS
    T1 = 1
    T2 = 8
    T4 = 10
    Timeout = 64
    CompleteWait = 64
    MaxAttempts = 1
INVARIANTS
    ReportsOnce
    DeadlineArmed
    TransmissionBound
PROPERTIES
    CancelledEnds
