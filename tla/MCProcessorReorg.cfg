SPECIFICATION FairSpec
CONSTANTS
    Payloads <- Calls
    REORG_CHECK_DEPTH = 3
    MAX_REORG_HISTORY = 4
    ReorgDepth = 2
    Shrinks = "idle"
    Faults = {"gone", "read", "unwind", "stop"}
    MaxBlocks = 3
    MaxReorgs = 2
    MaxMishaps = 1
INVARIANTS
    TypeOK
    DerivedFromL1
    CheckpointsRestorable
PROPERTY Converges
CHECK_DEADLOCK FALSE
