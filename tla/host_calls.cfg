SPECIFICATION FairSpec
CONSTANTS
    Workers = {w1, w2}
    Restarts = {}
    Rpcs = {r1, r2}
    PipeSize = 1
    Boot = Boot
    Quit = Quit
    NoWorker = NoWorker
CHECK_DEADLOCK FALSE
PROPERTIES
    CallsSettle
    RuntimePickedUp
