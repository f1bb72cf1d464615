SPECIFICATION Spec

CONSTANTS
    MaxReq = 4
    XferSeqs = 4

INVARIANTS
    ReclockedOnlyExcused
    OkWasClocked
    ChainKept

PROPERTIES
    ReleaseEscapes

CHECK_DEADLOCK FALSE
