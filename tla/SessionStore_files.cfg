SPECIFICATION FairSpec
CONSTANTS
    MaxId = 3
    MaxFaults = 2
    MaxCrashes = 2
    TornTails = TRUE
INVARIANTS WrittenOnceInOrder  ParentsKept
PROPERTIES QueueDrains
CHECK_DEADLOCK FALSE
