SPECIFICATION FairSpec
CONSTANTS
    Procs = {p1, p2, p3}
    None = None
    Empty = Empty
    Husk = Husk
    Names <- FewNames
    MaxRounds = 2
    Declares = TRUE
    Stalling = {p1}
    PidReused = {p1}
    MaxCrashes = 2
INVARIANTS
    MutualExclusion
PROPERTIES
    LivingOwnerIsNotReclaimed
    DeadLockIsReclaimed
    SupersededLeavesTheLock
CHECK_DEADLOCK FALSE
