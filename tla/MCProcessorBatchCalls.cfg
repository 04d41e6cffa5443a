SPECIFICATION Spec
CONSTANTS
    Payloads <- CallAndTx
    REORG_CHECK_DEPTH = 2
    MAX_REORG_HISTORY = 4
    ReorgDepth = 2
    Shrinks = "idle"
    Faults = {}
    MaxBlocks = 3
    MaxReorgs = 0
    MaxMishaps = 1
INVARIANTS
    EveryCallReplayed
CHECK_DEADLOCK FALSE
