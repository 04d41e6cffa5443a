SPECIFICATION FairSpec
CONSTANTS
    immediate = immediate
    nothing = nothing
    rollups = rollups
    managerL2 = managerL2
    prover = prover
    system = system
    alice = alice
    counter = counter
    proxyB = proxyB
    proxyA = proxyA
    Immediate = immediate
    Nothing = nothing
    TruncateHex <- MCTruncateHex
    Manager <- MCManager
    Prover = prover
    System = system
    Histories <- MCHistories
    MaxSessions = 2
INVARIANTS
    EventsInChainOrder
    ReplayFollowsEvents
    DiagramSound
    BundlesAreComponents
PROPERTIES
    EveryCoveredEventShown
CHECK_DEADLOCK FALSE
