\* One device alone with the backend, which may refuse writes; two versions of a defect.
CONSTANTS
    Devices = {d1}
    Ids = {i1}
    Contents = {c1, c2}
    Blank = Blank
    Resolutions = {}
    NoResolution = NoResolution
    NoId = NoId
    NoDoc = NoDoc
    Query = Query
    Docs <- MCDocs
    Keys <- MCKeys
    Queried <- MCQueried
    MayRefuse = TRUE
    QueriesMayFail = FALSE
    MaxPipeline = 1
    MaxPending = 2
    MaxLoads = 2
SYMMETRY Symmetry
SPECIFICATION Spec
INVARIANT FeedCatchesUp
INVARIANT SettledFeedIsCurrent
PROPERTY FeedFallsBehindUntoldOnly
