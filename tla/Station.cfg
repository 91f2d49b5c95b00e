CONSTANTS
    NoToken = "notoken"
    NoDsn = "nodsn"
    NoLimit = NoLimit
    NoPacket = NoPacket
    NoSource = NoSource
    NoRowLimit = NoRowLimit
    Now = 3
    BigintMin <- MCBigintMin
    BigintMax = 4
    GmtimeMin <- MCGmtimeMin
    GmtimeMax = 6
    Parts = 2
    Infinity = 24
    Unstorable = {"nul"}
    Float <- MCFloat
    Cut <- MCCut
    SeqSpace = 16384
    IngestMax = 1
    MaxPosts = 2
    Ids = {"alpha", "beta", "default", "long"}
    Deployments <- MissionFiles
    Requests <- Posts
SPECIFICATION Spec
INVARIANTS
    TypeOK
    MalformedCostOnlyThemselves
    HoldsOnlyAccepted
    ReservedKeysAreTheStations
    PayloadPassesThrough
    VerdictsMatchLimits
    OnlyPoisonKills
    ReportsTellTheirOrigin
    HistoryAnswersAreRight
CHECK_DEADLOCK FALSE
