SPECIFICATION Spec
CONSTANTS
    Tabs = {t1}
    Listeners = {}
    Mutations = {m1, m2}
    MaxRetries = 2
    Lossy = FALSE
    StoreFails = FALSE
    Reloading = TRUE
    Clearing = TRUE
SYMMETRY Symmetry
INVARIANTS
    AcceptedOnce
