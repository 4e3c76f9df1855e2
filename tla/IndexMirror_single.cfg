SPECIFICATION FairSpec
CONSTANTS
    NumVersions = 2
    MaxJobs = 3
    w1 = w1
    w2 = w2
    Workers = {w1}
    MaxCrashes = 1
    NoWorker = NoWorker
INVARIANTS
    MirrorConverges
PROPERTIES
    ApprovedGetsServed
CHECK_DEADLOCK FALSE
