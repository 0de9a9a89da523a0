SPECIFICATION Spec
CONSTANTS
    MAX_ACCOUNTS = 3
    Coins = {1, 2, 3}
    SuiCoins = {1}
    PageSize = 2
    Nfts = {1, 2, 3}
    Displayed = {1, 2}
    Recognised = {1, 3}
    ObKiosks = {o1, o2}
    SuiKiosks = {s1, s2}
    Validators = {v1, v2, v3}
    MaxStake = 2
    MaxHistory = 5
    Limit = 2
    MaxChanges = 2
    None = None
SYMMETRY KioskSymmetry
INVARIANTS
    TypeOK
    AccountsFound
    LastingListedOnce
    
    NftsById
    HistoryComplete
CHECK_DEADLOCK FALSE
