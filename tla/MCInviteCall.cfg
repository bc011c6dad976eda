SPECIFICATION Spec
CONSTANTS
    T1 = 2
    T2 = 4
    T4 = 3
    Timeout = 16
    CompleteWait = 16
    MaxAttempts = 1
    MaxRequests = 2
    Life = 1
INVARIANTS
    RingsOnce
    SameOutcome
PROPERTIES
    AnswerSettles
    HangUpEnds
