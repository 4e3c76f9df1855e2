SPECIFICATION FairSpec
CONSTANTS
    w1 = w1
    w2 = w2
    c1 = c1
    c2 = c2
    NoWorker = NoWorker
    MaxJobs = 2
    Workers = {w1, w2}
    Clients = {}
    JobTypes = {"ingest", "eval"}
    Handlers = {"ingest"}
    Enabled <- W2OnlyIngest
    Priorities = {1, 2}
    BatchSize = 2
    MaxFaults = 1
PROPERTIES
    EveryJobFinishes
CHECK_DEADLOCK FALSE
