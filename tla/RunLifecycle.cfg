CONSTANTS
    Runs = {r1, r2}
    Views = {v}
    None = None
    Absent = Absent
    Keep = Keep
    NoPatch = NoPatch
    PlanRuns = {r2}
    AutoKinds = {"done"}
    Budgets <- Mixed
SPECIFICATION FairSpec
CHECK_DEADLOCK FALSE
INVARIANT EndedMeansOver StopIsKept
PROPERTY FinalStands ComesToRest
