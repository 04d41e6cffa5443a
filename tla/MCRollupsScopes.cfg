SPECIFICATION FairSpec
CONSTANTS
    zero = zero
    alice = alice
    target = target
    d = d
    none = none
    immediate = immediate
    key1 = key1
    nokey = nokey
    Addresses <- MCAddresses
    ZeroAddress = zero
    Data <- MCData
    EmptyData = none
    RollupIds <- MCRollupIds
    MaxRollups = 1
    Roots <- MCRoots
    ZeroRoot = "none"
    VKs <- MCVKs
    ZeroVK = nokey
    Immediate = immediate
    Batches <- OwnerBatches
    Callers <- MCOwners
    UserProxies <- MCProxies
    CallValues <- MCValues
    InitialRoots <- MCInitialRoots
    OwnerRoots <- MCOwnerRoots
    MaxHeld = 2
    MaxDepth = 7
    MaxBlock = 1
INVARIANTS
    CallsInTheirScope
PROPERTIES
    TransactionsEnd
