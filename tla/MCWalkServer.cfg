SPECIFICATION Spec
CONSTANTS
    v1 = v1  v2 = v2  d1 = d1  d2 = d2  c1 = c1  c2 = c2  c3 = c3
    None = None
    Walks <- OneWalk
    Dogs <- MCDogs
    Calls <- ThreeCalls
    Requests <- MixedRequests
SYMMETRY CallSymmetry
INVARIANTS
    TypeOK
    FixesEndInFacts
    StoredWalksAreCoherent
    AnswersAgree
