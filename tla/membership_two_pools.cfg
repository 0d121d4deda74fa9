SPECIFICATION Spec
CONSTANTS
    A = A
    B = B
    NoPool = NoPool
    Pool = {A, B}
    Node = {1}
    Tainted = TRUE
    Replaced = FALSE
    Lagging = FALSE
    Faults = {"finalizer", "create", "node", "delete", "own"}
    MaxChanges = 4
    MaxFaults = 1
INVARIANTS
    RestsTidy
PROPERTIES
    CleanedUp
    DeletesItsOwn
    TaintKeptUntilVerified
CHECK_DEADLOCK FALSE
