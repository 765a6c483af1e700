SPECIFICATION FairUpload
CONSTANTS
    v1 = v1  d1 = d1  c1 = c1  c2 = c2
    None = None
    Walks <- OneWalk
    Dogs <- OneDog
    Calls <- TwoCalls
    Requests <- ClientRequests
    Room <- OneRoom
    BatchSize = 2
    MaxPushes = 3
    MaxFaults = 2
CHECK_DEADLOCK FALSE
INVARIANTS
    UploadedWalksAreWhole
PROPERTIES
    EveryWalkIsDerived
