SPECIFICATION Spec
CONSTANTS
    d1 = d1
    n1 = n1
    n2 = n2
    t1 = t1
    w1 = w1
    w2 = w2
    NoNode = NoNode
    DB = {d1}
    Node = {n1, n2}
    Worker = {w1, w2}
    Deleter = {t1}
    Name = {d1}
    NameOf <- NamesDistinct
    Bad = {}
    Outable = {}
    MaxAttempts = 3
    Requests = {"create", "delete"}
    AgentsForget = FALSE
    MaxFaults = 0
    MaxSlow = 0
SYMMETRY SlotSymmetry
INVARIANTS
    NothingLeftBehind
CHECK_DEADLOCK FALSE
