CONSTANTS
    n1 = n1
    n2 = n2
    x1 = x1
    x2 = x2
    Node = {n1, n2}
    Execution = {x1, x2}
    MaxSize = 2
    Size <- Sizes
    Capacity <- Capacities
    NoNode = NoNode
    NoReport = NoReport
    Faults = {"restart", "away", "call"}
    MaxFaults = 1
SPECIFICATION Spec
SYMMETRY Alike
CHECK_DEADLOCK FALSE
INVARIANTS
    TypeOK
    NeverOvercommitted
    OneNode
PROPERTIES
    PromiseKept
