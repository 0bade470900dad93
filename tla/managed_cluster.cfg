SPECIFICATION FairSpec
CONSTANTS
    MaxFaults = 4
    TornRemovals = FALSE
INVARIANTS PasswordFits UsedDataKept
PROPERTY ClusterComesUp
