SPECIFICATION Spec
CONSTANTS
    zero = zero
    alice = alice
    target = target
    d = d
    none = none
    immediate = immediate
    key1 = key1
    nokey = nokey
    Addresses <- MCAddresses
    ZeroAddress = zero
    Data <- MCData
    EmptyData = none
    RollupIds <- MCRollupIds
    MaxRollups = 1
    Roots <- MCRoots
    ZeroRoot = "none"
    VKs <- MCVKs
    ZeroVK = nokey
    Immediate = immediate
    Batches <- ScopeBatches
    Callers <- MCCallers
    UserProxies <- MCProxies
    CallValues <- MCValues
    InitialRoots <- MCInitialRoots
    OwnerRoots <- NoRoots
    MaxHeld = 2
    MaxDepth = 9
    MaxBlock = 1
PROPERTY ScopeRevertRestoresRoot
