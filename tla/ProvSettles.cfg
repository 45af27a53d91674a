SPECIFICATION FairSpec
CONSTANTS
    d1 = d1
    n1 = n1
    n2 = n2
    t1 = t1
    w1 = w1
    w2 = w2
    NoNode = NoNode
    DB = {d1}
    Node = {n1, n2}
    Worker = {w1, w2}
    Deleter = {t1}
    Name = {d1}
    NameOf <- NamesDistinct
    Bad = {n1}
    Outable = {}
    MaxAttempts = 2
    Requests = {"create", "gatewayCreate", "delete"}
    AgentsForget = FALSE
    MaxFaults = 1
    MaxSlow = 1
INVARIANTS
    GoodNodeFound
PROPERTIES
    Settles
    DeleteCompletes
CHECK_DEADLOCK FALSE
