SPECIFICATION Spec
CONSTANTS
    Payloads <- Mixed
    REORG_CHECK_DEPTH = 2
    MAX_REORG_HISTORY = 4
    ReorgDepth = 2
    Shrinks = "idle"
    Faults = {"gone", "read", "replay", "checkpoint", "unwind", "stop", "crash"}
    MaxBlocks = 3
    MaxReorgs = 1
    MaxMishaps = 2
INVARIANTS
    TrackedMatchesL1
    DerivedWithoutMishaps
CHECK_DEADLOCK FALSE
