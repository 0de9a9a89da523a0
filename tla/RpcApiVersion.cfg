SPECIFICATION Spec
CONSTANTS
    Calls = {c1, c2, c3}
    CacheTimeout = 2
    MaxTime = 6
    MaxVersion = 2
PROPERTY NotPastTimeout
CHECK_DEADLOCK FALSE
