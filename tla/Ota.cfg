SPECIFICATION FairSpec

CONSTANTS
    Images <- MCImages
    ImageLen <- MCImageLen
    Manifest = 3
    Block = 2
    Window = 8
    Chunk = 3
    MaxFaults = 3

INVARIANTS
    AcceptedKept
    StagedWhole

PROPERTIES
    FinishedIsMine
    UpdateEnds
