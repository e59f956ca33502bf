SPECIFICATION ServerSpec
CONSTANTS
    Clerks = {a, b}
    Excavators = {x1, x2}
    Materials = {coal}
    MaxHour = 2
    MaxSessions = 3
    MaxRaced = 1
    OnTime = TRUE
    OldKeys = FALSE
    None = None
    Writers = {w1, w2}
    Admins = {w1}
    MaxShift = 2
    MaxSmr = 1
    MaxLoads = 3
    WholeKey = TRUE
    Failing = TRUE
    Null = Null
    Callers = {c1, c2}
    MaxClients = 2
    MaxFailures = 1
    MaxTimers = 2
    MaxPolls = 1
    MaxObjects = 4
    Servers = {q1, q2}
    Pushes = {r1, r2}
    Values = {v1, v2}
    NoValue = NoValue
    Supervisors = {s1}
    MaxRestarts = 3
    MaxWakes = 1
    MaxRuns = 5
SYMMETRY Symmetry
INVARIANTS
    ServerTypeOK
    HoursPartitioned
    AssignedOnce
    TotalNotNegative
    MeterIsLastClose
    NothingLeaks
    Singleton
    AttemptUnderWay
    SuppressedIsShown
    RecoveryBounded
