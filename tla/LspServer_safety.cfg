SPECIFICATION Spec
CONSTANTS
    Reqs = {r1, r2, r3}
    Ids = {i1, i2}
    NoReq = NoReq
    NoId = NoId
    MaxPermits = 1
    OutLimit = 1
    MaxNotes = 1
    PromptReuse = FALSE
SYMMETRY Symmetry
INVARIANTS
    PermitsConserved
    TypeOK
    DutyInOnePlace
    ObservesEarlierNotes
    ShutdownSeesNotes
    FlushedOnSuccess
    AbortedAfterToken
PROPERTIES
    ImplementsRequestReply
