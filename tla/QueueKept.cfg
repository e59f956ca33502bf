SPECIFICATION FairSpec
CONSTANTS
    Tabs = {t1}
    Listeners = {l1}
    Mutations = {m1}
    MaxRetries = 1
    Lossy = TRUE
    StoreFails = TRUE
    Reloading = TRUE
    Clearing = FALSE
INVARIANTS
    TypeOK
    NotDroppedEarly
PROPERTIES
    RunsEnd
