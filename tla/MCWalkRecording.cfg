SPECIFICATION Spec
CONSTANTS
    v1 = v1  v2 = v2
    None = None
    Walks <- TwoWalks
    Buffer = 1
    MaxSamples = 2
    MaxResumes = 1
    MaxFailures = 1
    MaxDeaths = 1
CHECK_DEADLOCK FALSE
SYMMETRY WalkSymmetry
INVARIANTS
    TypeOK
    StopsAreServed
    RoomIsFaithful
PROPERTIES
    ClosedWalksStand
