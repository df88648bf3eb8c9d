CONSTANTS
    s1 = s1
    s2 = s2
    Server = {s1, s2}
    Platforms = {"lambda", "pool"}
    Pooled = {TRUE, FALSE}
    MaxFaults = 1
SPECIFICATION FairSpec
CHECK_DEADLOCK FALSE
PROPERTIES
    DispatchEnds
    ReservationResolved
    LostResolved
    LeftoversReleased
