SPECIFICATION Spec
CONSTANTS
    Ids = {i1, i2}
    Labels = {x1, x2}
    Limits = {0, 1}
    MaxSaved = 1
    RecentMax = 1
    MaxEdits = 3
    Nothing = Nothing
SYMMETRY StoreSymmetry
INVARIANTS
    CopyKept
    LoginFollows
PROPERTY
    RestartKeeps
