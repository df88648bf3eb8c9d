CONSTANTS
    s1 = s1
    near = near
    far = far
    Server = {s1}
    Provider = {near, far}
    Kind <- PoolAndCloudRun
    Tasks = 1
    Attempts = 1
    Reroute = TRUE
    Faults = {"outage"}
    MaxFaults = 1
SPECIFICATION FairSpec
CHECK_DEADLOCK FALSE
PROPERTIES
    EndingRecovered
