SPECIFICATION FairSpec
CONSTANTS
    RingCap = 2
    MaxFailures = 3
    Budgets <- AnyTrouble
INVARIANTS ScreenIsExact ResumesWhatItShows
PROPERTIES ShowsEverything
CONSTRAINT Calm
CHECK_DEADLOCK FALSE
