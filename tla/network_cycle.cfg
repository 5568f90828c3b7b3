SPECIFICATION FairSpec
CONSTANTS
    n1 = n1
    n2 = n2
    n3 = n3
    k1 = k1
    None = None
    Address <- MCNode
    Node <- MCNode
    Key <- MCKey
    SellerOf <- MCSellerOf
    InitialValue <- MCInitialValue
    Bootstrap = n1
    Closest <- ClosestAll
    Duration = 1
    Raise = {1}
    MaxAmount = 1
    MaxTime = 1
    Recreate = FALSE
    LinkFails = FALSE
    ConsensusMode = "pow"
    ReputationThreshold = 1
PROPERTY EventuallyClosed
