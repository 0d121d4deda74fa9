SPECIFICATION FairSpec
CONSTANTS
    Node = {1}
    LastImage = 1
    NoImage = NoImage
    BadImage = {}
    MaxUnavailable <- One
    Edits = {"target", "paused"}
    MaxEdits = 3
    MaxFaults = 1
    Rollback = FALSE
    PowerLoss = TRUE
    AdminActs = FALSE
    RebootTimeout = TRUE
    Lagging = TRUE
INVARIANTS
    SafeReboot
    ApprovalInSlot
PROPERTIES
    RolloutCompletes
