SPECIFICATION FairSpec
CONSTANTS
    c1 = c1
    c2 = c2
    c3 = c3
    Calls = {c1, c2}
    Caller <- BackgroundCaller
    Timed = {}
    MaxResponses = 1
PROPERTIES DroppedConnectionEndsCall
CHECK_DEADLOCK FALSE
