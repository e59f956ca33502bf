SPECIFICATION WrapSpec
CONSTANTS
    Calls = {c1, c2}
    Pods = {p1, p2}
    MaxVersion = 2
    LockTtl = 2
    MaxWait = 1
    Settings <- LockAndTags
    Nobody = Nobody
SYMMETRY Symmetry
INVARIANTS
    CacheWrapTypeOK
    SingleFlight
    Coalesced
    RemovedForGood
PROPERTIES
    LockKept
