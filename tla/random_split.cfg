SPECIFICATION Spec
CONSTANTS
    kBits = 2
    kCounterMax = 3
    MaxBits = 4
    MaxLive = 4
    MaxDraws = 12
INVARIANTS
    NumbersNeverRepeat
    KeysNeverDrawn
CHECK_DEADLOCK FALSE
