CONSTANTS
    broadcast = broadcast
    storage = storage
    Workers = {broadcast, storage}
    IngestMax = 2
    WorkerMax = 2
    HistoryMax = 2
    Stuck = {broadcast}
    MaxFrames = 2
SPECIFICATION FairSpec
PROPERTY
    AcceptedIsEnriched
CHECK_DEADLOCK FALSE
