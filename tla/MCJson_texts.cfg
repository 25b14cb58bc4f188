SPECIFICATION Spec
CONSTANTS
    Names = {a, b}
    a = a
    b = b
    NoName = NoName
    Scalars = {"false", "null"}
    TokLen = 3
    MaxText <- MCMaxText
    MaxPath = 2
    MaxIndex = 1
INVARIANTS
    JsonAccepted
    TreeOfText
    FindsFirstMatch
CHECK_DEADLOCK FALSE
