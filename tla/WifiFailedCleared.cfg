SPECIFICATION Spec
CONSTANTS
    Jobs <- MCAllJobs
    MaxJobs = 1
    MaxQueue = 2
    Wakes <- MCWakes
INVARIANT
    FailedConnectCleared
CHECK_DEADLOCK FALSE
