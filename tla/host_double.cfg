SPECIFICATION Spec
CONSTANTS
    Workers = {w1, w2, w3}
    Restarts = {m1}
    Rpcs = {r1}
    PipeSize = 1
    Boot = Boot
    Quit = Quit
    NoWorker = NoWorker
CHECK_DEADLOCK FALSE
INVARIANT
    OneProcess
