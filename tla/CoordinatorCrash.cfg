SPECIFICATION Spec
CONSTANTS
    r1 = r1
    r2 = r2
    v1 = v1
    Runs = {r1, r2}
    Views = {v1}
    None = None
    Absent = Absent
    Keep = Keep
    NoPatch = NoPatch
    Coords = {c1}
    NoCoord = NoCoord
    Commands <- AnyScenario
    MaxSends = 1
    MaxStops = 2
    CheckpointEvery = 2
    RingMax = 2
    DiskFails = TRUE
    StaleReclaim = FALSE
INVARIANTS
    TypeOK
    RevisionInvariant
    UniqueRevisions
PROPERTIES
    ManualVerdictStands
CONSTRAINT OneScenario
CHECK_DEADLOCK FALSE
