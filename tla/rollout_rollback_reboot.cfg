SPECIFICATION Spec
CONSTANTS
    Node = {1}
    LastImage = 1
    NoImage = NoImage
    BadImage = {}
    MaxUnavailable <- One
    Edits = {"target"}
    MaxEdits = 3
    MaxFaults = 0
    Rollback = TRUE
    PowerLoss = FALSE
    AdminActs = FALSE
    RebootTimeout = FALSE
    Lagging = FALSE
INVARIANTS
    SafeReboot
