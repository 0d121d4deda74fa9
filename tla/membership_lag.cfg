SPECIFICATION FairSpec
CONSTANTS
    A = A
    B = B
    NoPool = NoPool
    Pool = {A, B}
    Node = {1}
    Tainted = TRUE
    Replaced = TRUE
    Lagging = TRUE
    Faults = {"finalizer", "create", "node", "delete", "own"}
    MaxChanges = 3
    MaxFaults = 1
INVARIANTS
    TypeOK

    
CHECK_DEADLOCK FALSE
