SPECIFICATION FairSpec
CONSTANTS
    w1 = w1  w2 = w2  p1 = p1  p2 = p2  x1 = x1  x2 = x2  g1 = g1  g2 = g2
    a1 = a1  a2 = a2  a3 = a3  a4 = a4  s1 = s1  s2 = s2  s3 = s3
    e1 = e1  e2 = e2  e3 = e3  e4 = e4
    None = None
    Pets <- MCPets
    Sites <- MCSites
    Sessions <- MCSessions
    Attempts <- MCAttempts
    Events <- MCEvents
    Seasons <- OneSeason
    Starts <- OneSeasonStarts
    Ends <- TinySeasonEnds
    Rules <- InstantRules
    DayMs = 3
    PointDenominator = 20
    Workers <- TwoWorkers
    Candidates <- Contest
    Scope <- OneScope
    SeasonSites <- AllSites
    Imports <- FreshSeason
    MaxTime = 2
    MaxSetBacks = 0
PROPERTIES
    SeasonStaysClosed
    ImplementsLedger
    TransactionsEnd
INVARIANTS
    CountsMatch
    SiteHistoryIsAChain
    RepliesStand
