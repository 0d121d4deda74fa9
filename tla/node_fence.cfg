SPECIFICATION FairSpec
CONSTANTS
    Key = {"repair"}
    Claims = {"noRef", "noCRD", "found"}
    MaxChanges = 3
    MaxFaults = 1
INVARIANTS
    TypeOK
    FenceRecorded
    ForeignKept
PROPERTIES
    DrainFenced
    FenceTemporary
CHECK_DEADLOCK FALSE
