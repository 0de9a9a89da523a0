SPECIFICATION Spec
CONSTANTS
    Undefined = Undefined
    Addresses = {"0x5", "0x6"}
    Malformed = "0xZ"
    Limits = {1}
    MaxItem = 4
    PageLimit = 2
    MaxSeen = 6
    UnderTest = TRUE
INVARIANTS
    TypeOK
    ReadAsNamed
    WalkInOrder
    NothingMissed
\* The application may stop calling.
CHECK_DEADLOCK FALSE
