SPECIFICATION Spec
CONSTANTS
    LastImage = 2
    NoImage = NoImage
    Task = {1, 2}
    NoTask = NoTask
    stageMaxBackoffExponent = 2
    MaxChanges = 3
    MaxFaults = 0
    Faults = {}
    Rollback = TRUE
    Polling = FALSE
    LateWatcher = FALSE
PROPERTIES
    BootsDesired
CHECK_DEADLOCK FALSE
