SPECIFICATION FairSpec
CONSTANTS
    Calls = {k1, k2}
    MaxConnects = 2
    MaxClients = 2
    MaxAttempts = 1
INVARIANTS DisabledStaysOff OneProcess AppliedOnce NothingAfterDispose
PROPERTIES EveryCallSettles
CHECK_DEADLOCK FALSE
