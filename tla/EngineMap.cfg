SPECIFICATION EngineSpec
CONSTANTS
    a = a
    vecX = vecX
    x = x
    None = None
    Corrupt = Corrupt
    Key <- MCKey
    Val = {v1, v2, empty}
    EmptyVal = empty
    Op <- MCOp
    VecKeys <- MCVecKeys
    VecId <- MCVecId
    BigVals = {}
    MaxSnaps = 0
    Compactions = FALSE
    PageFaults = FALSE
    SyncPolicies = {"SyncPerWrite"}
    TornSizes = {9}
    ShortWrites = {0}
    SyncErrors = TRUE
    MaxLsn = 3
    MaxCells = 3
    MaxPages = 3
PROPERTY ImplementsMap
INVARIANT VectorsMatch
