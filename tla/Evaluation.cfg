SPECIFICATION MCSpec
CONSTANTS
    w1 = w1
    w2 = w2
    q1 = q1
    q2 = q2
    r1 = r1
    r2 = r2
    NoWorker = NoWorker
    Sources = {1}
    Docs = {1, 2}
    Cases = {1}
    Evidence <- MCEvidence
    Modes = {"cold", "warm"}
    OutcomesOf <- MCOutcomesOf
    Preparers = {r1, r2}
    Workers = {w1, w2}
    Promoters = {q1, q2}
    MaxPrepares = 2
    MaxChanges = 1
    MaxFaults = 1
    MaxAttempts = 2
    Expected <- MCExpected
    ChunkWords <- MCChunkWords
    ChunkDocument <- MCChunkDocument
    Identity <- MCIdentity
    HighLatency = 30
    Results <- MCResults
    Studies <- MCStudies
SYMMETRY Interchangeable
INVARIANTS
    VersionsHaveFiles
    CompleteResults
    ColdIsCold
    PassedMeansReviewed
    PromotedOnceAsEvaluated
    AdmittedWereActive
    ReadBothWays
    SameCasesCompared
    SkippedDoNotCount
    CountsAddUp
PROPERTIES
    ResultsKept
CHECK_DEADLOCK FALSE
