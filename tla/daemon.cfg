SPECIFICATION FairSpec
CONSTANTS
    LastImage = 2
    NoImage = NoImage
    Task = {1, 2}
    NoTask = NoTask
    stageMaxBackoffExponent = 2
    MaxChanges = 2
    MaxFaults = 2
    Faults = {"stage", "patch", "reboot", "restart", "watch", "status"}
    Rollback = TRUE
    Polling = FALSE
    LateWatcher = TRUE
INVARIANTS
    TypeOK
    StageTracked
    UnitIsOwn
    ReportRight
PROPERTIES
    BootsDesired
    
CHECK_DEADLOCK FALSE
