SPECIFICATION Spec
CONSTANTS
    tunnel = tunnel
    h1 = h1
    h2 = h2
    h3 = h3
    n1 = n1
    n2 = n2
    Hosts = {tunnel, h1, h2, h3}
    Loopback = tunnel
    MaxFails = 2
    Window = 1
    TableMax = 1
    MaxTime = 3
    Names = {n1, n2}
    MaxSize = 3
    MaxChanges = 2
SYMMETRY HostSymmetry
CONSTRAINT
    Apart
CHECK_DEADLOCK FALSE
INVARIANTS
    GuessesBounded
    TurnedAwayForCause
    RangeServed
    BodyAsDeclared
    ListingTrue
