CONSTANTS
    s1 = s1
    s2 = s2
    Server = {s1, s2}
    Platforms = {"pool"}
    Pooled = {FALSE}
    MaxFaults = 0
SPECIFICATION Spec
SYMMETRY Servers
CHECK_DEADLOCK FALSE
PROPERTIES
    LoopWaitsForReader
