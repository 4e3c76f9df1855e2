SPECIFICATION Spec
CONSTANTS
    w1 = w1
    w2 = w2
    c1 = c1
    c2 = c2
    NoWorker = NoWorker
    MaxJobs = 2
    Workers = {w1, w2}
    Clients = {c1}
    JobTypes = {"ingest"}
    Handlers = {"ingest"}
    Enabled <- AllEnabled
    Priorities = {1}
    BatchSize = 2
    MaxFaults = 2
SYMMETRY Interchangeable
INVARIANTS
    OwnershipMeansLatestAttempt
    RowConstraints
PROPERTIES
    FinishedIsFinal
    TakenOnlyAfterExpiry
    ImplementsLifecycle
CHECK_DEADLOCK FALSE
