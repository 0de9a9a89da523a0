SPECIFICATION FairSpec
CONSTANTS
    Timeout = 5
    PollInterval = 2
    MaxTime = 9
INVARIANTS
    TypeOK
    PollsBounded
    OverByDeadline
    NeverFallsOut
PROPERTIES
    NoPollOnceOver
    EndsIfAnswered
CHECK_DEADLOCK FALSE
