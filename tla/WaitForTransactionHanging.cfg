SPECIFICATION HangingSpec
CONSTANTS
    Timeout = 5
    PollInterval = 2
    MaxTime = 9
PROPERTIES
    TimeoutEndsTheWait
CHECK_DEADLOCK FALSE
