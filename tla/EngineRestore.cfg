SPECIFICATION EngineSpec
CONSTANTS
    a = a
    vecX = vecX
    x = x
    None = None
    Corrupt = Corrupt
    Key <- MCKey
    Val = {v1, empty}
    EmptyVal = empty
    Op <- MCOp
    VecKeys <- MCVecKeys
    VecId <- MCVecId
    BigVals = {}
    MaxSnaps = 1
    Compactions = FALSE
    PageFaults = FALSE
    SyncPolicies = {"SyncPerWrite"}
    TornSizes = {9}
    ShortWrites = {}
    SyncErrors = FALSE
    MaxLsn = 4
    MaxCells = 4
    MaxPages = 4
INVARIANT RestartShowsSame
