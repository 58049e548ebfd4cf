CONSTANTS
    Sizes <- SmallSizes
    Budgets <- AnyTrouble
SPECIFICATION Spec
INVARIANTS
    ShownIsWhole
    LiveFrameIsShown
    SizeReachesHost
PROPERTIES
    FirstViewIsProven
CHECK_DEADLOCK FALSE
