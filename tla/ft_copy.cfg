SPECIFICATION Spec
CONSTANTS
    i1 = i1
    i2 = i2
    Images = {i1, i2}
    Mode = "copy"
    Strategies = {"strong", "conservative"}
    Meddling = {"source", "foreign", "staging", "target"}
    MaxFaults = 3
    MaxMeddles = 2
SYMMETRY ImageSymmetry
INVARIANTS
    IInv
    NoRestageAfterRecord
PROPERTIES
    RecordOnlyCompleteAlbum
    TerminalStays
    ImplementsImport
CHECK_DEADLOCK FALSE
