SPECIFICATION Spec
CONSTANTS
    v1 = v1
    v2 = v2
    p1 = p1
    p2 = p2
    j1 = j1
    j2 = j2
    NoVersion = NoVersion
    NoProc = NoProc
    Versions = {v1, v2}
    Jobs = {j1, j2}
    Procs = {p1, p2}
    ChunksOf <- MCChunksOf
    Preset <- MCPreset
    Keys = {1, 2, 3}
    MaxRuns = 4
    MaxFaults = 1
    MaxEntities = 2
    MaxRelations = 2
    InvalidRetries = 1
    Payloads <- MCPayloads
    RuleMentions <- MCRuleMentions
SYMMETRY Interchangeable
INVARIANTS
    GraphOfOneRun
    NoEntityConflict
    RelationsGrounded
    ProjectionFollows
    NoLockCycle
PROPERTIES
    PartialKeepsGraph
CHECK_DEADLOCK FALSE
