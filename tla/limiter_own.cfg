SPECIFICATION FairSpec
CONSTANTS
    a = a
    b = b
    x = x
    y = y
    Sessions = {a}
    Streams = {x, y}
    SessionOf <- OneSession
    OwnLimit <- OwnCap
    GlobalLimits = {0}
    MaxQueue = 2
    MaxChunk = 2
    MaxBytes = 2
CHECK_DEADLOCK FALSE
INVARIANTS
    BytesAccounted
    NoTruncation
    BlockedHasBytes
    OvershootBounded
PROPERTY
    QueuedIsSent
