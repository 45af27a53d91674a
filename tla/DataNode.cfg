SPECIFICATION NodeSpec
CONSTANTS
    Key = {k1}
    Val = {v1}
    Op = {"Insert", "Delete"}
    SyncPolicies = {"SyncPerWrite", "Batched"}
    TornSizes = {3, 9}
    ShortWrites = {0, 9}
    SyncErrors = TRUE
    MaxLsn = 3
    MaxCells = 4
    VecId = {"vx", "vy", "vz", "vw"}
    NoEntry = NoEntry
    Emb = {0, 1, 3, 7}
    EmbOf <- MCEmbOf
    Sim <- MCSim
    M = 2
    EfConstruction = 3
    EfSearch = 3
    MaxLevel = 1
    MaxChanges = 5
    Follower = {f1, f2}
    Caller = {t1}
    Joins = TRUE
    MaxWrites = 3
    DbName = {na, nb}
    DbId = {d1, d2}
    NoDb = NoDb
    Call = {c1, c2}
    MaxInject = 1
    MaxMoves = 1
    VecDb = {"default", "d1"}
    Vec = {"x", "y"}
    Entry <- MCEntry
    Query <- MCQuery
    Filter <- MCFilter
    MaxInserts = 3
INVARIANTS
    NodeTypeOK
    IndexSound
    SearchSound
    LsnOrder
    DurableUnlessStray
    LsnNeverReused
    AllFollowersHave
    MapsInverse
    DirsMatch
    DrainEmpties
CHECK_DEADLOCK FALSE
