CONSTANTS
    n1 = n1
    n2 = n2
    x1 = x1
    x2 = x2
    Node = {n1, n2}
    Execution = {x1}
    MaxSize = 2
    Size <- Sizes
    Capacity <- Capacities
    NoNode = NoNode
    NoReport = NoReport
    Faults = {"drop", "restart", "away", "call"}
    MaxFaults = 2
SPECIFICATION FairSpec
CHECK_DEADLOCK FALSE
PROPERTIES
    StaysConnected
    PromiseKept
    ReleasedIsDeleted
    NodesAreCleared
    GhostsGo
