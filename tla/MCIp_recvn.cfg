SPECIFICATION Spec
CONSTANTS
    N = 3
    Fields = 3
    Window = 4
    MaxRetries = 2
INVARIANTS
    FieldReceived
CHECK_DEADLOCK FALSE
