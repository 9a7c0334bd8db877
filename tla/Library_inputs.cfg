SPECIFICATION Spec
CONSTANTS
    MaxChars = 3
    MaxEditedChars = 3
    MaxEdits = 2
    PaintedChars = {"astral", "newline"}
    MaxPainted = 3
    MaxPlace = 2
    TailChars = {47, 37, 97, 70, 50, 103}    \* slash percent a F 2 g
    MaxTail = 3
    NameChars = {47, 37, 97, 32, 233}        \* slash percent a space e-acute
    MaxName = 4
    MaxSegment = 2
    Methods = {"log"}
    MaxRequests = 2
    MaxSent = 3
INVARIANTS
    IndexAgreesWithScan
    ConversionsAreInverse
    EditsApplyAtOnce
    TokensDecodeBack
    UrisCanonical
    PathsSurvive
    ViewsNeverOverclaim
    RoundTrip
    RepliesMatchRequests
    CallsUnderstood
    NothingLost
    OldestFirst
CHECK_DEADLOCK FALSE
