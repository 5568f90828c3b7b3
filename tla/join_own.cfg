SPECIFICATION FairSpec
CONSTANTS
    p1 = p1
    p2 = p2
    i1 = i1
    i2 = i2
    None = None
    Process <- MCProcess
    Identity <- MCIdentity
    IdentityOf <- OwnIdentities
    MaxRetries = 2
    Expiry = 1
    Faults = {}
    MaxStarts = 1
    MaxTime = 3
INVARIANT RejectedOnlyIfLate
PROPERTY EveryoneJoins
CHECK_DEADLOCK FALSE
