SPECIFICATION Spec
CONSTANTS
    Pods = {p1, p2, p3}
    Calls = {c1}
    FailureThreshold = 1
    Cooldown = 1
    InitialLink = "joined"
    Faults = {"erroring"}
    Lossy = FALSE
    RendersFail = TRUE
    MaxMessages = 2
SYMMETRY Symmetry
INVARIANTS
    Agreement
