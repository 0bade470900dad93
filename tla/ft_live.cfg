SPECIFICATION FairSpec
CONSTANTS
    i1 = i1
    i2 = i2
    i3 = i3
    Images = {i1, i2, i3}
    Mode = "move"
    Strategies = {"strong"}
    Meddling = {}
    MaxFaults = 4
    MaxMeddles = 0
INVARIANTS
    NeverStuckByItself
PROPERTIES
    Converges
CHECK_DEADLOCK FALSE
