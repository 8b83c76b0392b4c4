SPECIFICATION Spec
CONSTANTS
    Req = {r1, r2}
    Absolute = 3
    Idle = 1
    Threshold = 2
    BaseLock = 1
    MaxLock = 2
    Limit = 2
    Period = 2
    Drift = 1
    MaxTime = 4
    MaxSessions = 2
    MaxRequests = 3
    MaxFaults = 1
SYMMETRY Interchangeable
INVARIANTS AuthTypeOK OverIsRefused AttemptsAreCounted
CHECK_DEADLOCK FALSE
