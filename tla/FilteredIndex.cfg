SPECIFICATION FilteredSpec
CONSTANTS
    t1 = t1
    t2 = t2
    q1 = q1
    q2 = q2
    c0 = c0
    c1 = c1
    Node <- MCNode
    Thread = {t1, t2}
    Query <- MCQuery
    MaxDegree = 2
    L = 2
    K = 2
    NoNode = NoNode
    NoQuery = NoQuery
    Label = {0, 1, 2}
    Bitmap <- MCBitmap
    Attr <- MCAttr
    Apart <- MCApart
    Centroid <- MCCentroid
    Shortfalls = {0}
    QuotaFloor = 1
    MedoidKeys = {0, 1, 2}
    Order <- MCOrder
    Chunk = 1
    Passes = 2
    Keys <- FilteredKeys
    Queries <- FilteredQueries
    Admits <- FilteredAdmits
    Before <- PairLess
    Nearer <- DistLess
    Related <- FilteredRelated
    Prune <- MCPrune
    Serving <- MCServing
    AlphaSquared <- MCAlphaSquared
INVARIANTS
    FilteredTypeOK
    CandidatesExact
    MedoidsOwnLabel
    ExitsForNoDocument
    EdgesRelated
PROPERTIES
    NeverEmptied
    BuildEnds
CHECK_DEADLOCK FALSE
