SPECIFICATION FairSpec
CONSTANTS
    s1 = s1
    s2 = s2
    Sessions = {s1, s2}
    MaxReconnects = 1
    MaxConns = 3
    CallsMayFail = FALSE
PROPERTIES
    EventuallyListening
    SubscribedGetsMessages
CHECK_DEADLOCK FALSE
