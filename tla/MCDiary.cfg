SPECIFICATION MCSpec
CONSTANTS
    h1 = h1  h2 = h2  w1 = w1  w2 = w2  o1 = o1  o2 = o2  o3 = o3
    a1 = a1  a2 = a2  a3 = a3  a4 = a4  a5 = a5  p1 = p1
    None = None
    Handlers <- MCHandlers
    Requests <- Reviewing
    Candidates <- MCCandidates
    NoPinWalks <- MCNoPinWalks
    MaxRevisions = 3
    Clock <- MCClock
    h3 = h3  l1 = l1  l2 = l2  d1 = d1  d2 = d2
    PlaceHandlers <- MCPlaceHandlers
    PlaceRequests <- Placing
    Pins <- MCPins
    PinWalk <- MCPinWalk
    PinDog <- MCPinDog
    Near <- MCNear
    Scattered <- MCScattered
    MaxMembers = 2
SYMMETRY HandlerSymmetry
INVARIANTS
    TypeOK
    MemoriesAreWhole
    AnswersAreTrue
    PlacesAreWhole
    NoCircularWait
