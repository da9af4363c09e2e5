SPECIFICATION Spec
CONSTANTS
    HalfBits = 3
    kNominalSize = 4
    MaxTries = 3
    Gens <- MCGens
    Sizes <- MCSizes
    Tables <- MCTables
INVARIANTS
    KeepsPromise
    DrawsAreSeparate
    GivesUpInARow
    NumbersExact
CHECK_DEADLOCK FALSE
