SPECIFICATION Spec
CONSTANTS
    s1 = s1
    s2 = s2
    Sessions = {s1, s2}
    MaxReconnects = 1
    MaxConns = 3
    CallsMayFail = TRUE
SYMMETRY SessionSymmetry
INVARIANTS
    TypeOK
    OneLiveSocket
    OneReconnectPending
    GivesUpOnlyWhenExhausted
    NoEntryForgotten
    DeliveredOnceToOwner
    NoServerLeak
    HandleFindsEntry
PROPERTIES
    ImplementsService
CHECK_DEADLOCK FALSE
