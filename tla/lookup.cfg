SPECIFICATION FairSpec
CONSTANTS
    Bits = 4
    Bootstrap <- MCBootstrap
    Peer <- ThreePeers
    Command <- NoCommand
    Op <- MCOp
    AuctionKey <- MCKey
    KValue = 3
    MaxEntries = 2
    Faults = {"kill"}
    MaxStarts <- Once
    MaxDepth = 4
CHECK_DEADLOCK FALSE
INVARIANT Acquainted
INVARIANT LaterJoinersMeet
PROPERTY SearchesEnd
