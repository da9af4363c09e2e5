SPECIFICATION ValueSpec
CONSTANTS
    Threads = {t1, t2}
    Handles = {h1, m1, v1}
    Maybes = {m1}
    Variants = {v1}
    Impls = {i1, i2, i3}
    Null = Null
SYMMETRY Symmetry
INVARIANTS
    NoUseAfterFree
    NoLeak
    SaysWhatItHolds
