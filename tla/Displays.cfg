CONSTANTS
    c1 = c1
    c2 = c2
    c3 = c3
    Clients = {c1, c2, c3}
    LostTimeout = 0
SPECIFICATION FairSpec
INVARIANTS
    TypeOK
    ListedHaveHandlers
PROPERTIES
    PruneIsExactWithoutChurn
    DeadArePruned
    ImplementsLink
CHECK_DEADLOCK FALSE
