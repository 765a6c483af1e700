SPECIFICATION Spec
CONSTANTS
    p1 = p1  p2 = p2  s1 = s1  season = season  k1 = k1  k2 = k2  c1 = c1 
    gen = gen  r1 = r1  r2 = r2  w1 = w1  w2 = w2
    None = None
    Free = Free
    Pets = {p1, p2}
    Sites = {s1}
    Starts = 1
    Ends = 3
    Season = season
    Walks = {k1}
    Clients = {c1}
    Claims <- MCClaims
    Selections <- MCSelections
    Generations = {gen}
    Versions = {1}
    Workers = {w1, w2}
    Runners = {r1}
    GenerationOf <- MCGenerationOf
    ScopeOrder <- MCScopeOrder
    Limit = 1
    MaxTime = 3
SYMMETRY WorkerSymmetry
INVARIANTS
    StreamFollowsPolicy
    PublishedTotalsAreFinal
    ProjectionsAreWhole
PROPERTIES
    DecisionsAppend
CHECK_DEADLOCK FALSE
