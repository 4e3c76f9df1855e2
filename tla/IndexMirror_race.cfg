SPECIFICATION Spec
CONSTANTS
    NumVersions = 2
    MaxJobs = 2
    w1 = w1
    w2 = w2
    Workers = {w1, w2}
    MaxCrashes = 0
    NoWorker = NoWorker
INVARIANTS
    MirrorConverges
CHECK_DEADLOCK FALSE
