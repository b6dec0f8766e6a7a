SPECIFICATION Spec
CONSTANTS
    Names = {"a", "b"}
    MaxTasks = 3
    MaxJoins = 1
    MaxPending = 1
    MaxEvicted = 1
    MaxReserved = 2
INVARIANTS RunningIsCancellable 
CHECK_DEADLOCK FALSE
