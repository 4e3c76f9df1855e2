SPECIFICATION Spec
CONSTANTS
    MaxAttempts = 2
    NumChunks = 1
    GraphIndexing = FALSE
    SweepJobs = FALSE
    Faults = {"zombie", "content"}
    ChunkSize = 8
    ChunkOverlap = 3
    EmbeddingBatch = 2
    MaxRows = 2
    MaxCells = 6
    RowsPerPage = 2
    MaxPages = 3
    MaxSlides = 2
    Workbooks = {}
    Decks = {}
    WebPages = {}
INVARIANTS
    ReadyMeansIndexed
CHECK_DEADLOCK FALSE
