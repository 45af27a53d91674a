SPECIFICATION EdgeSpec
CONSTANTS
    Client = {q1, q2}
    EdgeNode <- MCEdgeNode
    EdgeStatus = {"healthy", "dead"}
    EdgeHint = {"europe"}
    EdgeWorker = {w1}
    EdgeDb = {e1}
    EdgeVec = {x}
    MaxRequests = 2
INVARIANT ReroutedOnlyWhenDown
CHECK_DEADLOCK FALSE
