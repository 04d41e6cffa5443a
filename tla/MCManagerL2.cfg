SPECIFICATION Spec
CONSTANTS
    zero = zero
    alice = alice
    target = target
    d = d
    none = none
    Addresses <- MCAddresses
    ZeroAddress = zero
    Data <- MCData
    EmptyData = none
    RollupIds <- MCRollupIds
    ROLLUP_ID = 1
    Tables <- MCTables
    IncomingCalls <- MCCalls
    Callers <- MCCallers
    UserProxies <- MCProxies
    CallValues <- MCValues
    MessageValues <- MCValues
    Reserve = 1
    MaxLoads = 2
    MaxDepth = 8
INVARIANTS
    TypeOK
    PendingCounted
    ExactlyOnce
    CallsInTheirScope
PROPERTIES
    ImplementsAnswers
    WalksToItsScope
