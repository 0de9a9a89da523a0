SPECIFICATION Spec
CONSTANTS
    Undefined = Undefined
    Addresses = {"0x5", "0x6"}
    Malformed = "0xZ"
    Limits = {1}
    MaxItem = 2
    PageLimit = 2
    MaxSeen = 2
    UnderTest = FALSE
INVARIANT DefaultAscending
CHECK_DEADLOCK FALSE
