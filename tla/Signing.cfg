SPECIFICATION Spec
CONSTANTS
    Keys <- MCKeys
    MultiSigs <- MCMultiSigs
    m = m
    Messages <- MCMessages
    Senders <- MCSenders
    Sponsors <- MCSponsors
    None = None
    MAX_SIGNER_IN_MULTISIG = 2
    Kind = Kind
    MaxBuilt = 2
    MaxSigs = 2
INVARIANTS
    TypeOK
    QuorumSuffices
    OutOfOrderNeverVerifies
    IntentsKeptApart
    RestoredIsSame
PROPERTIES
    ImplementsApproval
CHECK_DEADLOCK FALSE
