SPECIFICATION CleanupSpec
CONSTANTS
    i1 = i1
    i2 = i2
    Images = {i1, i2}
    Meddling = {"original", "quarantine", "others"}
    MaxFaults = 2
    MaxMeddles = 3
SYMMETRY ImageSymmetry
INVARIANTS
    CleanupInv
    QuarantineIsTracked
    ReportsOnlyWhatIsGone
PROPERTIES
    UserFilesKept
    ReplacementNotMoved
CHECK_DEADLOCK FALSE
