CONSTANTS
    s1 = s1
    s2 = s2
    near = near
    far = far
    Server = {s1, s2}
    Provider = {near, far}
    Kind <- PoolAndCloudRun
    Tasks = 2
    Attempts = 1
    Reroute = TRUE
    Faults = {"outage", "crash", "call", "cancel", "late"}
    MaxFaults = 2
SPECIFICATION Spec
SYMMETRY Servers
CHECK_DEADLOCK FALSE
INVARIANTS
    TypeOK
    FailFast
    AnswerSurvivesCrash
PROPERTIES
    PromiseKept
