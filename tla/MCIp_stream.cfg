SPECIFICATION FairSpec
CONSTANTS
    N = 3
    Fields = 3
    Window = 4
    MaxRetries = 2
INVARIANTS
    FieldTaken
PROPERTIES
    SendStopsOnlyWhenFull
CHECK_DEADLOCK FALSE
