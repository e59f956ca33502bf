SPECIFICATION HaulingSpec
CONSTANTS
    Clerks = {a}
    Excavators = {x1}
    Materials = {coal}
    MaxHour = 2
    MaxSessions = 2
    MaxRaced = 1
    OnTime = TRUE
    OldKeys = TRUE
    None = None
PROPERTIES
    SessionEnds
