SPECIFICATION Spec

CONSTANTS
    h1 = h1
    h2 = h2
    h3 = h3
    Handles <- MCHandles
    Streams <- MCStreams
    Lens <- MCLens
    MaxBytes = 2
    Budgets <- MCBudgets
    RingBytes = 2
    MaxPayload = 1
    RecvSeqs = 2

SYMMETRY Symmetry

INVARIANTS
    StreamIntact
    RingKeepsUnread
    FallbackKeepsUnread

PROPERTIES
    EndIsEnd

CHECK_DEADLOCK FALSE
