CONSTANTS
    broadcast = broadcast
    storage = storage
    Workers = {broadcast, storage}
    IngestMax = 2
    WorkerMax = 2
    HistoryMax = 2
    Stuck = {broadcast}
    MaxFrames = 4
SPECIFICATION FairSpec
INVARIANTS
    TypeOK
    InOrder
    SameFramesOffered
    HistoryIsTail
PROPERTIES
    IdleWorkerNeverDrops
    IngestDrains
    ResponsiveWorkerDrains
    ImplementsFeed
CHECK_DEADLOCK FALSE
