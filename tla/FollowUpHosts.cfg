SPECIFICATION FairSpec
CONSTANTS
    MaxItems = 1
    Replies = {r1}
    Dashboards = {d1}
    Runners = {j1}
    NoHost = NoHost
    MaxHosts = 2
    MaxRuns = 1
    MaxStops = 1
    MaxCrashes = 1
    MaxFailures = 1
    DiskTears = TRUE
INVARIANTS
    TypedOnce
    HandedOnce
    CompletedWasHanded
    FailedIsUnknown
PROPERTIES
    QueuedIsSettled
CHECK_DEADLOCK FALSE
