SPECIFICATION Spec
CONSTANTS
    MaxSuccess = 1
    MaxSize = 1
    MaxDiscardRatio = 10
    TagVectors <- NoTags
    MaxShrinks = 2
    MaxDepth = 3
    Nothing = Nothing
INVARIANTS
    FailureIsReproducible
    LocallyMinimal
    ReplayAgrees
    GivesUpOnlyAfterGrowing
PROPERTIES
    DescendsToLocalMinimum
    Termination
CHECK_DEADLOCK FALSE
