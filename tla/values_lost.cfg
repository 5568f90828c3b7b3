SPECIFICATION Spec
CONSTANTS
    Bits = 4
    Bootstrap <- MCBootstrap
    Peer <- NoCommand
    Command <- ThreeCommands
    Op <- FindOp
    AuctionKey <- MCKey
    KValue = 2
    MaxEntries = 2
    Faults = {}
    MaxStarts <- Once
    MaxDepth = 4
CHECK_DEADLOCK FALSE
INVARIANT PublishedIsHeld
