CONSTANTS
    m1 = m1
    m2 = m2
    i1 = i1
    i2 = i2
    broken = broken
    builtin = builtin
    a1 = a1
    entry = entry
    Entry = entry
    Own <- MCOwn
    None = None
    Stock = Stock
    Unusable = broken
    Builtin = builtin
    Monitors <- MCMonitors
    Matching <- MCMatching
    Picture <- MCPicture
    Offers <- MCOffers
    Fits = {"fill", "fit"}
    Sessions <- MCSessions
SPECIFICATION Spec
INVARIANTS
    TypeOK
    WindowTells
    FilesKept
PROPERTIES
    FitsKept
    UndoGivesBack
CHECK_DEADLOCK FALSE
