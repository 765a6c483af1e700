SPECIFICATION Spec
CONSTANTS
    h1 = h1  h2 = h2  w1 = w1  w2 = w2  o1 = o1  o2 = o2  o3 = o3
    a1 = a1  a2 = a2  a3 = a3  a4 = a4  a5 = a5  p1 = p1
    None = None
    Handlers <- MCHandlers
    Requests <- Reviewing
    Candidates <- MCCandidates
    NoPinWalks <- MCNoPinWalks
    MaxRevisions = 3
    Clock <- OneTick
SYMMETRY HandlerSymmetry
INVARIANT DismissedOffersUnattested
