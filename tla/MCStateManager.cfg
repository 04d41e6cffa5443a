CONSTANTS
    Scenarios <- Together
    GasLimit = 4
    StartFee = 1000
SPECIFICATION FairSpec
CHECK_DEADLOCK FALSE
INVARIANTS
    NoncesFit
    FeeComesDown
PROPERTY Answered
