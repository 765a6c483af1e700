SPECIFICATION MCSpec
CONSTANTS
    k1 = k1
    k2 = k2
    c1 = c1
    c2 = c2
    t1 = t1
    t2 = t2
    Kto <- MCKto
    Kcisa <- MCKcisa
    Files <- MCFiles
    Near <- MCNear
    Texts = {t1, t2}
    Details = {t1, None}
    NoAxes = {t2}
    Columns = {"restriction"}
    Batch = 1
    KtoPageSize = 1
    MaxStamp = 1
    MaxBusy = 2
    r1 = r1
    r2 = r2
    Syncs <- MCSyncs
    Versions <- MCVersions
    Nowhere <- MCNowhere
    PageSize = 1
    Overlap = 2
    MaxLag = 1
    MaxRun = 1
    MaxDay = 3
    None = None
    Empty = Empty
SYMMETRY MCSymmetry
INVARIANTS
    ProductFollowsSources
    NothingFallsBehind
PROPERTIES
    OnlyLateVerdictsMix
