SPECIFICATION Spec
CONSTANTS
    Pods = {p1, p2}
    Slots = {s1}
    MaxVersion = 2
    L1Ttl = 3
    RepopTtl = 1
    L2Ttl = 4
    Jitter = 0
    MaxFlight = 1
    Outages = FALSE
    Serial = TRUE
SYMMETRY Symmetry
INVARIANTS
    EvictionBounded
