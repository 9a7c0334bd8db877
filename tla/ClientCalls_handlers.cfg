SPECIFICATION FairSpec
CONSTANTS
    c1 = c1
    c2 = c2
    c3 = c3
    Calls = {c1, c2, c3}
    Caller <- HandlerCaller
    Timed = {c2, c3}
    MaxResponses = 2
INVARIANTS
    TypeOK
    RightAnswer
    WaitingIsReachable
    NoEntryAfterReturn
    CancelAfterForget
PROPERTIES
    AnswerReturns
    TimedCallReturns
