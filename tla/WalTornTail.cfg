SPECIFICATION WalSpec
CONSTANTS
    Key = {k1}
    Val = {v1}
    Op = {"Insert"}
    SyncPolicies = {"SyncPerWrite"}
    TornSizes = {3}
    ShortWrites = {}
    SyncErrors = FALSE
    MaxLsn = 4
    MaxCells = 4
INVARIANT Durable
