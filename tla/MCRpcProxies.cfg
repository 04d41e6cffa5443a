SPECIFICATION FairSpec
CONSTANTS
    null = null
    detection = detection
    tx1 = tx1
    tx2 = tx2
    tx3 = tx3
    proxyB = proxyB
    eoa = eoa
    counter = counter
    alice = alice
    bob = bob
    Null = null
    Detection = detection
    Scenarios <- MCScenarios
    TTL <- MCTTL
    HintLife = 3
    MaxRetries = 1
    MaxFlight = 1
    MaxCalls = 4
INVARIANTS
    BoundedStaleness
    ReceiptsFound
    HintedGoThroughBuilder
    HintsKept
    HonestAnswers
PROPERTIES
    Answered
CHECK_DEADLOCK FALSE
