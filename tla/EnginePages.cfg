SPECIFICATION EngineSpec
CONSTANTS
    a = a
    vecX = vecX
    x = x
    None = None
    Corrupt = Corrupt
    Key <- MCKey
    Val = {v2, empty}
    EmptyVal = empty
    Op <- MCOp
    VecKeys <- MCVecKeys
    VecId <- MCVecId
    BigVals = {v2}
    MaxSnaps = 1
    Compactions = TRUE
    PageFaults = TRUE
    SyncPolicies = {"SyncPerWrite"}
    TornSizes = {9}
    ShortWrites = {}
    SyncErrors = FALSE
    MaxLsn = 3
    MaxCells = 3
    MaxPages = 2
INVARIANT FreeListSound
INVARIANT ReplayTwice
INVARIANT EngineTypeOK
INVARIANT IndexMatches
