SPECIFICATION Spec
CONSTANTS
    TopRung = 4
    Healthy = 3
INVARIANT
    CrashLoopSlowsDown
