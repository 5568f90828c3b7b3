SPECIFICATION FairSpec
CONSTANTS
    Bits = 4
    Bootstrap <- MCBootstrap
    Peer <- OnePeer
    Command <- TwoCommands
    Op <- MCOp
    AuctionKey <- MCKey
    KValue = 2
    MaxEntries = 2
    Faults = {"kill", "link", "io"}
    MaxStarts <- PeersTwice
    MaxDepth = 4
CHECK_DEADLOCK FALSE
INVARIANT TypeOK
INVARIANT KnownToBootstrap
INVARIANT HeldIfReached
PROPERTY SearchesEnd
