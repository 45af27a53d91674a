SPECIFICATION EdgesSpec
CONSTANTS
    Client = {q1, q2}
    EdgeNode <- MCEdgeNode
    EdgeStatus = {"healthy", "dead"}
    EdgeHint = {"us-east"}
    EdgeWorker = {w1, w2}
    EdgeDb = {e1}
    EdgeVec = {x}
    MaxRequests = 4
    RateRule <- MCRateRule
    Window = 2
    TokenLife = 0
    Caller = {u}
    KeyId = {k}
    Slot = {s1, s2}
    NoOne = NoOne
    Asked = {"", "auditor"}
    Needs = {"operator"}
    MaxTime = 3
    CallSlot = {r1, r2}
    Linked <- Wired
    MaxCalls = 2
    MaxRpcTime = 1
SYMMETRY EdgeSymmetry
INVARIANTS
    RowsAccounted
    SearchComplete
    BurstBound
    RevokedStaysOut
    AnswersTrue
CHECK_DEADLOCK FALSE
