SPECIFICATION FairSpec

CONSTANTS
    Generic = {}
    Big = {}
    Bare = {}
    Send = send
    Connect = connect
    ApStart = apstart
    NoOp = noop
    HdrSeqs = 2
    SendSeqs = 2
    MaxReq = 1
    MaxJoin = 1
    MaxAlive = 1
    MayGiveUp = {send, connect, apstart}

PROPERTIES
    ConnectSettles

CHECK_DEADLOCK FALSE
