SPECIFICATION Spec
CONSTANTS
    Sizes = {1, 2}
    Scripts <- AllScripts
    Frames <- WholeFrames
    MaxJournal = 2
    MaxPipe = 14
    Budgets <- AnyBudget
INVARIANTS CoveredIsWhole MarkersRespectEscapes TrustedMarkersAreHidden WholeFrameIsCovered ConsumedWasProven
CHECK_DEADLOCK FALSE
