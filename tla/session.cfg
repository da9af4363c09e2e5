SPECIFICATION Spec
CONSTANTS
    Properties = 2
    Frameworks = {"check", "gtest", "boost_test", "catch", "doctest"}
    Descriptions <- MCDescriptions
    TestName <- MCTestName
    DistinctIds = TRUE
    Reproduces <- MCReproduces
    Seeds = {1}
    Defaults <- MCDefaults
    FirstParams <- MCFirstParams
    Extras <- MCExtras
    Byte = 16
    Base = 8
    WordBytes = 2
    KeyWords = 2
INVARIANTS
    FailuresComeBack
    OthersSkipped
    LoadedAsMeant
    ConfigurationComesBack
CHECK_DEADLOCK FALSE
