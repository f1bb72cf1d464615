SPECIFICATION FairSpec

CONSTANTS
    MaxFaults = 2
    MaxResync = 3

INVARIANTS
    UnarmedIsSeen

PROPERTIES
    LinkRecovers
    FrameEnds
