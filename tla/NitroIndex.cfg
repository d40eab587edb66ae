SPECIFICATION NitroSpec
CONSTANTS
    t1 = t1
    t2 = t2
    bug = bug
    security = security
    q1 = q1
    q2 = q2
    mean = mean
    Mean = mean
    OldSlots = {0}
    Node <- MCNode
    Thread = {t1, t2}
    Query <- MCQuery
    MaxDegree = 2
    L = 2
    NoNode = NoNode
    NoQuery = NoQuery
    Label = {bug, security}
    Bitmap <- MCBitmap
    Attr <- MCAttr
    Apart <- MCApart
    MedoidKeys = {"global"}
    Order <- MCOrder
    Chunk = 1
    Passes = 2
    Keys <- NitroKeys
    Queries <- NitroQueries
    Admits <- NitroAdmits
    Before <- QueryLess
    Nearer <- QueryLess
    Related <- NitroRelated
    Prune <- MCPrune
    Serving <- MCServing
    SigmaSubset = 1
    SigmaRange = 20
    Epsilon = 1
    AlphaSquared <- MCAlphaSquared
INVARIANTS
    GraphTypeOK
    VisitedExact
    BestOfVisited
    DegreeBound
    SimpleLists
    NoIsolatedNode
    ResultsExpanded
PROPERTIES
    NeverEmptied
    BuildEnds
CHECK_DEADLOCK FALSE
