SPECIFICATION Spec
CONSTANTS
    s1 = s1
    Sessions = {s1}
    MaxReconnects = 5
    MaxConns = 2
    CallsMayFail = FALSE
PROPERTIES
    UnsubscribedStaysRemoved
CHECK_DEADLOCK FALSE
