SPECIFICATION Spec
CONSTANTS
    a1 = a1 a2 = a2
    Images = {1, 2, 3, 4, 5, 6}
    Unreadable = {6}
    Library = {7}
    Albums = {a1, a2}
    AlbumOf <- MCAlbumOf
    Candidates <- MCCandidates
    NoPlan = NoPlan
    MaxEdits = 1
CHECK_DEADLOCK FALSE
INVARIANTS PlanInv RunAgreesWithReview CommitsWhatWasReviewed
PROPERTY UserDecisionsKept
