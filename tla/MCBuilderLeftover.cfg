CONSTANTS
    Scenarios <- Speculating
    StartHeight = 12
    MaxAttempts = 1
    MaxHeight = 4
    MaxMishaps = 0
    Reverting = {}
    Returning = {}
SPECIFICATION Spec
CHECK_DEADLOCK FALSE
INVARIANT RootIsReplay
