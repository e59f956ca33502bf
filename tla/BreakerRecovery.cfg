SPECIFICATION FairSpec
CONSTANTS
    Pods = {p1, p2}
    Calls = {c1}
    FailureThreshold = 2
    Cooldown = 1
    InitialLink = "unset"
    Faults = {"erroring", "down"}
    Lossy = TRUE
    RendersFail = FALSE
    MaxMessages = 2
INVARIANTS
    TypeOK
    ClosedBelowThreshold
PROPERTIES
    RecoveryCloses
