SPECIFICATION Spec
CONSTANTS
    Properties = 2
    Frameworks = {"check"}
    Descriptions <- MCDescriptions
    TestName <- MCTestName
    DistinctIds = FALSE
    Reproduces <- MCReproduces
    Seeds = {1}
    Defaults <- MCDefaults
    FirstParams <- MCNoText
    Extras <- MCNoExtra
    Byte = 16
    Base = 8
    WordBytes = 2
    KeyWords = 2
INVARIANTS
    OthersSkipped
CHECK_DEADLOCK FALSE
