SPECIFICATION Spec
CONSTANTS
    Node = {1, 2}
    LastImage = 2
    NoImage = NoImage
    BadImage = {}
    MaxUnavailable <- One
    Edits = {"target"}
    MaxEdits = 2
    MaxFaults = 1
    Rollback = FALSE
    PowerLoss = FALSE
    AdminActs = FALSE
    RebootTimeout = FALSE
    Lagging = FALSE
INVARIANTS
    SafeReboot
    DrainInSlot
    CordonRestored
    RebootInv
PROPERTIES
    CordonRecordKept
    KeepsPromise
