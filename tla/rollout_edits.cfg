SPECIFICATION EditsSpec
CONSTANTS
    Node = {1, 2}
    LastImage = 1
    NoImage = NoImage
    BadImage = {}
    MaxUnavailable <- Mixed
    Edits = {"target", "paused", "max"}
    MaxEdits = 2
    MaxFaults = 0
    Rollback = TRUE
    PowerLoss = FALSE
    AdminActs = TRUE
    RebootTimeout = FALSE
    Lagging = FALSE
INVARIANTS
    TypeOK
PROPERTIES
    SlotsWithinLimit
    RolloutCompletes
