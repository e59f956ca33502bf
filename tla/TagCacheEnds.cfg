SPECIFICATION FairSpec
CONSTANTS
    Pods = {p1}
    Slots = {s1, s2}
    Keys = {k1}
    Tags = {t1}
    TagsOf <- AllTags
    MaxRetries = 1
    MaxTime = 1
    MaxBusy = 2
    Failing = TRUE
    Refusing = TRUE
    Outages = TRUE
    Crashing = TRUE
    Serial = FALSE
INVARIANTS
    NoOrphanPromise
PROPERTIES
    RequestsEnd
