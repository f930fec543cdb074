SPECIFICATION Spec
CONSTANTS
    private = private
    public = public
    Saved <- Order
    Recognised = {private}
    MaxLives = 2
    MaxFaults = 1
CHECK_DEADLOCK FALSE
INVARIANTS
    TypeOK
    NoSecondCopy
    CapFirst
    CardsTrue
    BackWhenQuiet
    
    ReplayBounded
