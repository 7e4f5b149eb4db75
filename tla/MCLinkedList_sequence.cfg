CONSTANTS
    NoPointers = NoPointers
    NoId = NoId
    Ids = {a, b, c, d}
SPECIFICATION Spec
INVARIANT ListIsSequence
CHECK_DEADLOCK FALSE
