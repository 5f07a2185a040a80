\* Two users take turns on one phone, with one write, under fairness.
CONSTANTS
    Users = {u1, u2}
    Ids = {i1}
    Docs = {a}
    NoDoc = NoDoc
    Handshake = Handshake
    None = None
    MayRefuse = TRUE
    MaxPipeline = 1
    MaxPending = 1
    MaxTokens = 1
SPECIFICATION FairSpec
PROPERTY QueueNeverStuck ImplementsApi
