SPECIFICATION MCSpec
CONSTANTS
    MaxIntents = 2
    MaxFixes = 1
    MaxStops = 1
    None = None
    Points = {q1}
    Wishes = {a, b}
    Places = {p1, p2}
    MaxLocates = 2
    MaxSearches = 2
    MaxRoutes = 2
    Nil = Nil
INVARIANTS
    TypeOK
    ScreenFollowsPolicy
    ReservationHolds
    OneSubscriber
    ScreenShowsWhatWasAsked
    WaitsHaveACause
