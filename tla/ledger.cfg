CONSTANTS
    ci = ci
    r1 = r1
    r2 = r2
    Executions = 2
    Namespace = {ci}
    NamespaceOf <- OneNamespace
    Timeouts <- WithOrWithout
    Pool = {"calls", "compute", "share"}
    Layer <- Layers
    Meter <- Meters
    Limit <- Limits
    Period <- Periods
    Reaper = {r1, r2}
    Answers = {TRUE, FALSE}
    Days = 2
    MonthLength = 2
    MaxDuration = 1
    MaxFaults = 1
SPECIFICATION FairSpec
CHECK_DEADLOCK FALSE
INVARIANTS
    TypeOK
    UsageIsCosts
    NeverOversold
PROPERTIES
    EveryReservationResolved
