SPECIFICATION FairSpec
CONSTANTS
    Jobs <- MCAllJobs
    MaxJobs = 2
    MaxQueue = 2
    Wakes <- MCWakes
INVARIANTS
    StatusWhole
    OwnLeaveUnreported
    
    
PROPERTIES
    RetryKeepsVerdict
    
    
    ConnectEnds
CHECK_DEADLOCK FALSE
