CONSTANTS
    temp = temp
    Channels = {temp}
    Kinds <- MCKinds
    Ranges <- MCRanges
    HistoryMax = 1
    WorkerMax = 1
    QueryMax = 1
    MaxFrames = 3
SPECIFICATION FairSpec
INVARIANTS
    TypeOK
    NoGap
PROPERTIES
    CatchesUp
    ImplementsFeed
CHECK_DEADLOCK FALSE
