CONSTANTS
    alpha = alpha
    beta = beta
    gamma = gamma
    db1 = db1
    db2 = db2
    Ids = {alpha, beta, gamma}
    Dsns = {db1, db2}
    NoDsn = NoDsn
    Deployments <- MissionFiles
SPECIFICATION FairSpec
INVARIANTS
    TypeOK
    InsertsHavePool
    PoolsAreShared
    ServesAllMissions
PROPERTY
    ShutdownEnds
CHECK_DEADLOCK FALSE
