SPECIFICATION Spec
CONSTANTS
    Reqs = {r1, r2, r3}
    Ids = {i1}
    NoReq = NoReq
    NoId = NoId
    MaxPermits = 1
    OutLimit = 1
    MaxNotes = 0
    PromptReuse = TRUE
SYMMETRY Symmetry
INVARIANTS
    AtMostOneAnswer
