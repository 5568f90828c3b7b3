SPECIFICATION Spec
CONSTANTS
    n1 = n1
    n2 = n2
    n3 = n3
    k1 = k1
    k2 = k2
    k3 = k3
    None = None
    Address <- MCAddress
    Key <- MCKey
    SellerOf <- MCSellerOf
    InitialValue <- MCInitialValue
    Self = n1
    Version <- MCVersion
    Time <- MCTime
    ConsensusMode = "por"
    ReputationThreshold = 1
    EarlierLedger <- OneBlock
    Faults = {"crash", "io"}
INVARIANT TypeOK
INVARIANT CopiesWellFormed
INVARIANT OneWinPerAuction
INVARIANT ChainLinked
INVARIANT FileIsPrefix
INVARIANT WinsConfirmed
INVARIANT Durable
INVARIANT EarnedReputation
PROPERTY ShortForever
PROPERTY ImplementsWinLedger
