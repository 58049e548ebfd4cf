SPECIFICATION Spec
CONSTANTS
    Boards = {b1, b2}
    Runners = {r1, r2, r3}
    None = None
    MaxInstances = 1
    MaxBoardDeaths = 1
    MaxRunnerDeaths = 1
    MaxFaults = 1
INVARIANTS
    OneAgent
    Served
PROPERTIES
    RevokeSticks
SYMMETRY Alike
CHECK_DEADLOCK FALSE
