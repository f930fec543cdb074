SPECIFICATION FairSpec
CONSTANTS
    folder = folder
    client = client
    Forms = {folder, client}
    Kind <- Kinds
    Old = {o1}
    MaxEdits = 2
    Nobody = Nobody
CHECK_DEADLOCK FALSE
INVARIANTS
    OutcomesHold
    RowsFollow
PROPERTY
    FormEnds
