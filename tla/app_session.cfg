CONSTANTS
    i1 = i1
    all = all
    blue = blue
    None = None
    Image <- MCImage
    Search <- MCSearch
    FirstSearch = all
    PoolSize = 2
    Sessions <- MCSessions
SPECIFICATION Spec
INVARIANTS
    TypeOK
    RulesApplied
    BannerTells
PROPERTIES
    BrowseCatchesUp
    CloseReturns
CHECK_DEADLOCK FALSE
