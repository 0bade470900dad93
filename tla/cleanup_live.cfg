SPECIFICATION FairCleanupSpec
CONSTANTS
    i1 = i1
    i2 = i2
    Images = {i1, i2}
    Meddling = {"original", "quarantine", "others", "unplug"}
    MaxFaults = 1
    MaxMeddles = 1
INVARIANTS
    NeverConflictsByItself
PROPERTIES
    RemovalEnds
CHECK_DEADLOCK FALSE
