SPECIFICATION FairSpec
CONSTANTS
    a1 = a1 a2 = a2 r1 = r1
    Albums = {a1, a2}
    Recoverers = {r1}
    MaxTroubles = 1
CHECK_DEADLOCK FALSE
INVARIANTS RunInv CompletedMeansRecorded WritersHoldLease EndedRunBeganNothing IndexFollowsLibrary
PROPERTIES RunSettles
