SPECIFICATION FairSpec
CONSTANTS
    c1 = c1
    c2 = c2
    c3 = c3
    sh = sh
    gone = gone
    p = p
    b1 = b1
    b2 = b2
    Objects <- MCObjects
    SharedObjects = {sh}
    MissingObjects = {gone}
    Coins <- MCCoins
    PureVars = {p}
    PureTypes = {"address", "u64"}
    Commands <- MCCommands
    UserPayment <- MCUserPayment
    MaxGasObjects = 3
    Builds = {b1, b2}
    MaxCommands = 2
    EditsBetween = FALSE
    RpcMayFail = TRUE
INVARIANTS
    TypeOK
    SharedMutableIffWanted
    InputsResolvedAsUsed
    GasCoinsNotInputs
    BudgetOfTheseBytes
PROPERTIES
    ResolutionNeverUndone
    BuildsEnd
CHECK_DEADLOCK FALSE
