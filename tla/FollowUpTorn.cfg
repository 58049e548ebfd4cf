SPECIFICATION Spec
CONSTANTS
    MaxItems = 1
    Replies = {}
    Dashboards = {d1}
    Runners = {}
    NoHost = NoHost
    MaxHosts = 3
    MaxRuns = 0
    MaxStops = 2
    MaxCrashes = 0
    MaxFailures = 0
    DiskTears = TRUE
INVARIANTS
    TypedOnce
CHECK_DEADLOCK FALSE
