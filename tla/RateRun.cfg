\* Two clients whose buckets are swept.  Time ends at its bound.
SPECIFICATION LimiterSpec
CONSTANTS
    i1 = i1
    i2 = i2
    Ip = {i1, i2}
    windowMs = 2
    max = 2
    sensitiveMax = 1
    SweepAbove = 1
    MaxTime = 2
    MaxPerTick = 3
SYMMETRY Symmetry
INVARIANT AtMostTwice
PROPERTY DenialsDeserved
CHECK_DEADLOCK FALSE
