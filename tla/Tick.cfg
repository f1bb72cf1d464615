SPECIFICATION Spec
CONSTANTS
    NumHandles = 3
    ListenMax = 2
    RingSlots = 2
    DrainCap = 8
    Traffics <- MCTraffics
INVARIANTS AcceptedIsHeld  QuietIsApplied ApStaysAwake
PROPERTIES TickServes
