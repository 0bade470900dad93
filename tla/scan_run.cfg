SPECIFICATION FairSpec
CONSTANTS
    a1 = a1 a2 = a2 a3 = a3 f = f g = g h = h d = d k = k
    Albums = {a1, a2}
    Files = {f, g, d}
    Keys = {k}
    KeysOf <- MCKeysOf
    Doubtful = {d}
    InitialDisk <- TwoDisk
    Ids = {1, 2, 3, 4}
    NoSnapshot = NoSnapshot
    Gone = Gone
    MaxCancels = 1 MaxFaults = 1 MaxEdits = 1
CHECK_DEADLOCK FALSE
INVARIANTS ScanInv ExactDuplicatesLinked NoLeftovers RunStateMatchesAlbums
PROPERTIES CheckpointsKept AnalysisEnds
