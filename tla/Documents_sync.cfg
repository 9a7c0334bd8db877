SPECIFICATION Spec
CONSTANTS
    Uris = {"a"}
    OpenTexts <- SomeTexts
    NewTexts <- Insertions
    MaxVersion = 3
    MaxSessions = 2
    MaxLen = 3
    MaxChanges = 2
    InvertedRanges = FALSE
INVARIANTS
    StoreMatchesBuffer
    IndexMatchesText
