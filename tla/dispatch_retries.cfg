CONSTANTS
    s1 = s1
    s2 = s2
    near = near
    far = far
    Server = {s1, s2}
    Provider = {near, far}
    Kind <- LambdaAndPool
    Tasks = 1
    Attempts = 2
    Reroute = TRUE
    Faults = {"outage", "crash", "call", "cancel", "late"}
    MaxFaults = 2
SPECIFICATION FairSpec
CHECK_DEADLOCK FALSE
INVARIANTS
    RetryChain
PROPERTIES
    PromiseKept
    DispatchEnds
