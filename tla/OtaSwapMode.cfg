SPECIFICATION Spec

CONSTANTS
    Images <- MCImages
    ImageLen <- MCImageLen
    Manifest = 3
    Block = 2
    Window = 8
    Chunk = 3
    MaxFaults = 0

PROPERTIES
    SwapLandsNormal
