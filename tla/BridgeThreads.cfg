SPECIFICATION Spec

CONSTANTS
    Generic = {get}
    Big = {}
    Bare = {}
    Send = send
    Connect = connect
    ApStart = apstart
    NoOp = noop
    HdrSeqs = 2
    SendSeqs = 2
    MaxReq = 2
    MaxJoin = 1
    MaxAlive = 2
    MayGiveUp = {get, send, connect, apstart}

INVARIANTS
    TypeOK
    RunningIsHeld
    SendAtMostOnce
    SendCachedFirst

PROPERTIES
    ImplementsSendService

CHECK_DEADLOCK FALSE
