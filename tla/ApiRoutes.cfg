SPECIFICATION RoutesSpec
CONSTANTS
    add = add
    log1 = log1
    log2 = log2
    resolve = resolve
    Mutations = {add, log1, log2, resolve}
    Kind <- Kinds
    Target <- Targets
    MaxPosts = 2
    MaxAttempts = 2
    MaxErrors = 2
    MaxRemovals = 1
    MaxRequests = 3
    Portals = {g1}
    Limit = 2
    Window = 2
    Configs <- Paths
    MaxTime = 2
    Strategies = {"sliding", "bucket", "fixed"}
    Redis = Redis
    response = response
    visits = visits
    tag = tag
    list = list
    StoreKeys = {response, visits, tag, list}
    StoreKind <- StoreKinds
    Items = {1, 2}
    MaxStored = 1
    MaxNumber = 2
    MaxClock = 2
    MaxKills = 1
    NoKey = NoKey
    NoReply = NoReply
INVARIANTS
    PlaybackTypeOK
    GivenUpForReason
    DoneMeansApplied
    RoutesTypeOK
    SlidingBound
    BucketBound
    FixedBound
    RefusedForReason
PROPERTIES
    AppliedOnce
    KeepsContract
