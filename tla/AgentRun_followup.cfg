CONSTANTS
    Source <- FollowUpSource
    SteeringMode = "one-at-a-time"
    FollowUpMode = "one-at-a-time"
    MaxTurns = 2
    MaxRetries = 0
    CallTurns = 2
    MaxRuns = 2
    MaxFailures = 1
SPECIFICATION SessionSpec
CHECK_DEADLOCK FALSE
INVARIANTS
    DeliveredOnce
    FollowUpsWait
PROPERTIES
    ExpiresWithRun
    EveryRunEnds
    
