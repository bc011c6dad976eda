SPECIFICATION Spec
CONSTANTS
    MaxSeq = 2
    MaxReplies = 2
    MaxInfos = 2
INVARIANTS
    RefsExact
    FreedAtRest
    ModifyNotLost
    NoGlare
    AnswerAwaited
PROPERTIES
    KeepsPromise
    SessionGoes
CHECK_DEADLOCK FALSE
