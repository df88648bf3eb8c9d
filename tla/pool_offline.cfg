CONSTANTS
    n1 = n1
    n2 = n2
    x1 = x1
    x2 = x2
    Node = {n1}
    Execution = {x1}
    MaxSize = 2
    Size <- Sizes
    Capacity <- Capacities
    NoNode = NoNode
    NoReport = NoReport
    Faults = {"drop"}
    MaxFaults = 2
SPECIFICATION Spec
CHECK_DEADLOCK FALSE
INVARIANT OfflineIsRetried
