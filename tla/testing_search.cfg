SPECIFICATION Spec
CONSTANTS
    MaxSuccess = 3
    MaxSize = 3
    MaxDiscardRatio = 1
    TagVectors <- OneTag
    MaxShrinks = 1
    MaxDepth = 0
    Nothing = Nothing
INVARIANTS
    EverySizeTested
    VerdictMatchesCases
CHECK_DEADLOCK FALSE
