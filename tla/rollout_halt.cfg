SPECIFICATION HaltSpec
CONSTANTS
    Node = {1, 2, 3}
    LastImage = 1
    NoImage = NoImage
    BadImage = {1}
    MaxUnavailable <- TwoOrThree
    Edits = {"target"}
    MaxEdits = 1
    MaxFaults = 0
    Rollback = FALSE
    PowerLoss = FALSE
    AdminActs = FALSE
    RebootTimeout = FALSE
    Lagging = FALSE
INVARIANTS
    BadImageContained
PROPERTIES
    HaltHolds
