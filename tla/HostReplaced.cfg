SPECIFICATION Spec
CONSTANTS
    Boards = {b1, b2}
    Runners = {r1, r2, r3}
    None = None
    MaxInstances = 2
    MaxBoardDeaths = 1
    MaxRunnerDeaths = 0
    MaxFaults = 0
PROPERTIES
    ReplacedWhenEnded
SYMMETRY Alike
CHECK_DEADLOCK FALSE
