SPECIFICATION FairAfterInitialize
CONSTANTS
    Reqs = {r1, r2}
    Ids = {i1, i2}
    NoReq = NoReq
    NoId = NoId
    MaxPermits = 1
    OutLimit = 0
    MaxNotes = 1
    PromptReuse = FALSE
PROPERTIES
    TeardownCompletes
    AcceptedIsSettled
    AnswerIsDelivered
    WriterFailureEndsServe
