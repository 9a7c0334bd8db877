SPECIFICATION Spec
CONSTANTS
    Uris = {"a"}
    OpenTexts <- SomeTexts
    NewTexts <- Insertions
    MaxVersion = 3
    MaxSessions = 1
    MaxLen = 3
    MaxChanges = 2
    InvertedRanges = TRUE
INVARIANTS
    IndexMatchesText
