SPECIFICATION Spec
CONSTANTS
    Names = {"a", "b"}
    MaxTasks = 3
    MaxJoins = 1
    MaxPending = 1
    MaxEvicted = 1
    MaxReserved = 2
INVARIANT DeliveredWasTheResult
CHECK_DEADLOCK FALSE
