SPECIFICATION FairSpec
CONSTANTS
    r1 = r1
    r2 = r2
    v1 = v1
    Runs = {r1, r2}
    Views = {v1}
    None = None
    Absent = Absent
    Keep = Keep
    NoPatch = NoPatch
    Coords = {c1, c2}
    NoCoord = NoCoord
    Commands <- FollowUpLaunch
    MaxSends = 2
    MaxStops = 2
    CheckpointEvery = 9
    RingMax = 1
    DiskFails = FALSE
    StaleReclaim = FALSE
INVARIANTS
    PairingHolds
    SameReplyForever
PROPERTIES
    EveryRecordLands
    RefinesAtomicBoard
    FilesNeverGoBack
CHECK_DEADLOCK FALSE
