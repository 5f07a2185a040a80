\* The claim of the alert.
CONSTANTS
    Devices = {d1}
    Ids = {i1}
    Contents = {c1}
    Blank = Blank
    Resolutions = {r}
    NoResolution = NoResolution
    NoId = NoId
    NoDoc = NoDoc
    Query = Query
    Docs <- MCDocs
    Keys <- MCKeys
    Queried <- MCQueried
    MayRefuse = FALSE
    QueriesMayFail = FALSE
    MaxPipeline = 2
    MaxPending = 2
    MaxLoads = 1
SPECIFICATION Spec
INVARIANT ClosedDefectsAreExplained
