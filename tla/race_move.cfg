SPECIFICATION RaceSpec
CONSTANTS
    i1 = i1
    i2 = i2
    Images = {i1, i2}
    Mode = "move"
    Strategies = {"strong", "conservative"}
    Meddling = {"source", "foreign", "staging", "target"}
    MaxFaults = 3
    MaxMeddles = 2
SYMMETRY ImageSymmetry
INVARIANTS
    TerminalMeansDone
PROPERTIES
    RecordOnlyVerifiedAlbum
    DisposalOnlyAfterRecord
    LastCopyNeverDestroyed
CHECK_DEADLOCK FALSE
