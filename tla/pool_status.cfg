SPECIFICATION FairSpec
CONSTANTS
    Node = {1, 2}
    Reporting = {1}
    Digest = {"d1", "d2"}
    Tag = {"t"}
    FirstImage = "d1"
    NoDigest = NoDigest
    Troubles = {"secret", "ref", "selector", "max", "conflict", "health"}
    MaxChanges = 2
    MaxFaults = 1
INVARIANTS
    TypeOK
    
    CountsRight
    TargetFollows
    TagPolled
    StatusAnnounced
    

    
CHECK_DEADLOCK FALSE
