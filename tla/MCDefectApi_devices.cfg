\* Two devices that write the same defect, with refusals; no queries.
CONSTANTS
    Devices = {d1, d2}
    Ids = {i1}
    Docs = {a}
    NoDoc = NoDoc
    Query = Query
    Keys <- MCKeys
    Queried <- MCQueried
    MayRefuse = TRUE
    QueriesMayFail = FALSE
    MaxPipeline = 2
    MaxPending = 3
    MaxLoads = 0
SYMMETRY Symmetry
SPECIFICATION ApiSpec
INVARIANT SyncTypeOK ArchiveFirst
PROPERTY LeavesOnlyArchived
