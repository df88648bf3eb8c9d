CONSTANTS
    s1 = s1
    s2 = s2
    Server = {s1, s2}
    Platforms = {"cloud-run", "pool"}
    Pooled = {TRUE}
    MaxFaults = 2
SPECIFICATION Spec
SYMMETRY Servers
CHECK_DEADLOCK FALSE
INVARIANTS
    TypeOK
    ChargedOnce
    VerdictRecorded
    UnchargedOnlyIfForgotten
    ReleasedIsOver
PROPERTIES
    RecordImplemented
