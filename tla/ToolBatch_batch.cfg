CONSTANTS
    Calls = {1, 2, 3, 4}
    Sequential = {2, 4}
    SpecSafe = {1}
    ThrowOn = {"start", "end", "resultStart"}
    MaxThrows = 2
SPECIFICATION FairSpec
CHECK_DEADLOCK FALSE
INVARIANTS
    ResultsPaired
    ControllerIsLive
    NoDoubleExecution
    SequentialAlone
PROPERTIES
    AbortUnblocks
