SPECIFICATION Spec
CONSTANTS
    v1 = v1  v2 = v2
    None = None
    Walks <- TwoWalks
    Buffer = 1
    MaxSamples = 0
    MaxResumes = 0
    MaxFailures = 0
    MaxDeaths = 0
CHECK_DEADLOCK FALSE
INVARIANTS
    OpenWalksWereCutShort
