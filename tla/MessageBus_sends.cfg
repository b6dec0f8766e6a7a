SPECIFICATION FairSpec
CONSTANTS
    MaxRuns = 3
    MaxSends = 2
    MaxAgents = 3
    MaxThread = 1
INVARIANTS LiveIsReachable ResultsAddUp
PROPERTIES  EverySendSettles
CHECK_DEADLOCK FALSE
