CONSTANTS
    a = a
    b = b
    h1 = h1
    h2 = h2
    h3 = h3
    Client <- ClientValue
    Chan = {1}
    Handler <- HandlerValue
    Skew = 1
    Offset = {0, 1}
    NonceMax = 1
    TaiMax = 1
    NanosPerTick = 10
    Start = 1
    MaxTime = 2
    MaxFrames = 2
    MaxStall = 1
SYMMETRY Symmetry
SPECIFICATION Spec
INVARIANTS NonceAtMostOnce ReplayIsReal ParallelHandshakesPass OnlyAuthenticCached
CHECK_DEADLOCK FALSE
