SPECIFICATION Spec
CONSTANTS
    w1 = w1
    w2 = w2
    c1 = c1
    c2 = c2
    NoWorker = NoWorker
    MaxJobs = 4
    Workers = {w1}
    Clients = {c1, c2}
    JobTypes = {"ingest"}
    Handlers = {"ingest"}
    Enabled <- AllEnabled
    Priorities = {1}
    BatchSize = 1
    MaxFaults = 0
SYMMETRY Interchangeable
INVARIANTS
    OneActiveRetry
    RetryLineage
CHECK_DEADLOCK FALSE
