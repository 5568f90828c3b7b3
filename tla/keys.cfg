SPECIFICATION Spec
CONSTANTS
    p1 = p1
    p2 = p2
    None = None
    Torn = Torn
    Process <- MCProcess
    Faults = {"kill", "write", "shared"}
    MaxPairs = 3
CHECK_DEADLOCK FALSE
INVARIANT TypeOK
INVARIANT ReadyIsAccepted
INVARIANT OneIdentity
PROPERTY OrphanedForever
PROPERTY BrokenForever
