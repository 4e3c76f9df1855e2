SPECIFICATION FairSpec
CONSTANTS
    MaxAttempts = 3
    NumChunks = 2
    GraphIndexing = TRUE
    SweepJobs = TRUE
    Faults <- OwnerFaults
    ChunkSize = 8
    ChunkOverlap = 3
    EmbeddingBatch = 2
    MaxRows = 2
    MaxCells = 6
    RowsPerPage = 2
    MaxPages = 3
    MaxSlides = 2
    Workbooks <- SomeWorkbooks
    Decks <- SomeDecks
    WebPages <- SomeWebPages
INVARIANTS
    ReadyMeansIndexed
    NoOrphanPoints
    ChunksTellTheirPlace
PROPERTIES
    IngestSettles
CHECK_DEADLOCK FALSE
