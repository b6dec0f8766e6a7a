SPECIFICATION FairSpec
CONSTANTS
    MaxId = 4
    MaxFaults = 0
    MaxCrashes = 2
    TornTails = FALSE
INVARIANTS ReachesRoot
CHECK_DEADLOCK FALSE
