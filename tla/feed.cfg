SPECIFICATION FairSpec
CONSTANTS
    o1 = o1
    o2 = o2
    c1 = c1
    c2 = c2
    Operations <- TwoOperations
    Clients <- TwoClients
    MaxRevision = 4
CHECK_DEADLOCK FALSE
INVARIANTS
    OneOperation
    IdleIsShown
    OnlyOvertakenBlocks
PROPERTIES
    PagesAreServed
    QueuedIsShown
