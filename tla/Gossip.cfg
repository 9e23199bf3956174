CONSTANTS
    None = None
    v1 = v1
    v2 = v2
    blockA = blockA
    blockB = blockB
    Indexes = {1, 2}
    Cap = 1
    MaxInFlight = 1
SPECIFICATION MCSpec
INVARIANTS
    BeliefsHold
PROPERTY
    PeerCatchesUp
CHECK_DEADLOCK FALSE
