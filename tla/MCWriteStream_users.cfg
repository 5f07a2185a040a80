\* Two users take turns on one phone, with two writes in all, refusals included.
CONSTANTS
    Users = {u1, u2}
    Ids = {i1}
    Docs = {a}
    NoDoc = NoDoc
    Handshake = Handshake
    None = None
    MayRefuse = TRUE
    MaxPipeline = 2
    MaxPending = 2
    MaxTokens = 1
SYMMETRY Symmetry
SPECIFICATION Spec
INVARIANT TypeOK AssertionsHold PipelineInStep UsersStayApart
PROPERTY NoWriteIsLost
