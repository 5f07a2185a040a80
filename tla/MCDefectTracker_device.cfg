\* One device with one defect, its screens and its SDK; queries may fail.
CONSTANTS
    Devices = {d1}
    Ids = {i1}
    Contents = {c1}
    Blank = Blank
    Resolutions = {r}
    NoResolution = NoResolution
    NoId = NoId
    NoDoc = NoDoc
    Query = Query
    Docs <- MCDocs
    Keys <- MCKeys
    Queried <- MCQueried
    MayRefuse = FALSE
    QueriesMayFail = TRUE
    MaxPipeline = 1
    MaxPending = 2
    MaxLoads = 1
SPECIFICATION Spec
INVARIANT TypeOK ReadModeShowsDefect
PROPERTY ImplementsApi EditsAreSubmitted FeedFallsBehindUntoldOnly
