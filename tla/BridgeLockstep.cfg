SPECIFICATION MCFairSpec

CONSTANTS
    Generic = {get, scan, bare}
    Big = {scan}
    Bare = {bare}
    Send = send
    Connect = connect
    ApStart = apstart
    NoOp = noop
    HdrSeqs = 2
    SendSeqs = 2
    MaxReq = 2
    MaxJoin = 1
    MaxOps = 2
    MaxAlive = 1
    MayGiveUp = {send}

INVARIANTS
    LockstepOnce
    

PROPERTIES LockstepAnswered

CHECK_DEADLOCK FALSE
