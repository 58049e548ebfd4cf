SPECIFICATION FairSpec
CONSTANTS
    Boards = {b1, b2}
    Runners = {r1, r2}
    None = None
    MaxInstances = 2
    MaxBoardDeaths = 0
    MaxRunnerDeaths = 1
    MaxFaults = 0
INVARIANTS
    OneAgent
PROPERTIES
    ReplacedWhenEnded
    AlwaysSettles
CHECK_DEADLOCK FALSE
