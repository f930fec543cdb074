SPECIFICATION Spec
CONSTANTS
    a = a
    b = b
    x = x
    y = y
    Sessions = {a, b}
    Streams = {x, y}
    SessionOf <- EachOwn
    OwnLimit <- MixedCaps
    GlobalLimits = {0, 1}
    MaxQueue = 2
    MaxChunk = 2
    MaxBytes = 2
CHECK_DEADLOCK FALSE
INVARIANT
    HeldHasTicker
