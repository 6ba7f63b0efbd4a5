SPECIFICATION LimiterSpec
CONSTANTS
    Key = {k1, k2}
    Watched = k1
    NoKey = NoKey
    Request = {r1, r2}
    RequestLimit = 2
    Window = 3
    MaxDelay = 3
SYMMETRY RequestSymmetry
INVARIANTS
    BurstBounded
    RefusalIsDeserved
CHECK_DEADLOCK FALSE
