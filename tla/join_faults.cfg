SPECIFICATION FairSpec
CONSTANTS
    p1 = p1
    p2 = p2
    i1 = i1
    i2 = i2
    None = None
    Process <- MCProcess
    Identity <- MCIdentity
    IdentityOf <- OneIdentity
    MaxRetries = 1
    Expiry = 0
    Faults = {"link", "kill", "bootstrap"}
    MaxStarts = 2
    MaxTime = 1
INVARIANT TypeOK
INVARIANT SpentIsGone
PROPERTY JoinsOrExits
CHECK_DEADLOCK FALSE
