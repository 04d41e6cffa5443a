CONSTANTS
    Scenarios <- Served
    StartHeight = 12
    MaxAttempts = 2
    MaxHeight = 3
    MaxMishaps = 1
    Reverting = {"x"}
    Returning = {"d"}
SPECIFICATION FairSpec
CHECK_DEADLOCK FALSE
INVARIANTS
    SerialRootIsReplay
    ExecutedOnce
    SuccessMeansExecuted
PROPERTIES
    Answered
    AutomineReturns
