SPECIFICATION Spec
CONSTANTS
    Pods = {p1, p2}
    Slots = {s1, s2}
    Keys = {k1}
    Tags = {t1}
    TagsOf <- AllTags
    MaxRetries = 0
    MaxTime = 2
    MaxBusy = 2
    Failing = TRUE
    Refusing = FALSE
    Outages = FALSE
    Crashing = TRUE
    Serial = TRUE
SYMMETRY Symmetry
INVARIANTS
    TypeOK
    RevalidationRespected
