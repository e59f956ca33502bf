SPECIFICATION Spec
CONSTANTS
    Pods = {p1}
    Slots = {s1}
    MaxVersion = 1
    L1Ttl = 3
    RepopTtl = 2
    L2Ttl = 4
    Jitter = 1
    MaxFlight = 1
    Outages = TRUE
    Serial = FALSE
SYMMETRY Symmetry
INVARIANTS
    TypeOK
    StaleBounded
