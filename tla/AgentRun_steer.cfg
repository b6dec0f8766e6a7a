CONSTANTS
    Source <- SteerSource
    SteeringMode = "one-at-a-time"
    FollowUpMode = "one-at-a-time"
    MaxTurns = 6
    MaxRetries = 1
    CallTurns = 1
    MaxRuns = 2
    MaxFailures = 0
SPECIFICATION Spec
CHECK_DEADLOCK FALSE
INVARIANTS
    NothingLost
    ChannelOrder
    RequestAnswersUser
    StrandedOnlyLate
    
PROPERTIES
    PriorityFirst
