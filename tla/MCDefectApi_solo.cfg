\* One device alone with a backend that may refuse a write.
CONSTANTS
    Devices = {d1}
    Ids = {i1}
    Docs = {a, b}
    NoDoc = NoDoc
    Query = Query
    Keys <- MCKeys
    Queried <- MCQueried
    MayRefuse = TRUE
    QueriesMayFail = TRUE
    MaxPipeline = 2
    MaxPending = 3
    MaxLoads = 1
SPECIFICATION FairApiSpec
INVARIANT QueueHidesDelay
PROPERTY SoloSeesAtomicStore QueueNeverStuck
