SPECIFICATION MCSpec
CONSTANTS
    Requests = {r1, r2}
    Urls <- MCUrls
    Public <- MCPublic
    MaxRedirects = 1
    Similar <- MCSimilar
    MaxDiffItems = 3
    Files <- MCFiles
    ChunksOf <- MCChunksOf
    VersionIds <- MCVersionIds
    GraphEnabled = TRUE
    MaxBytes = 3
    AllowedSuffixes = {"pdf", "docx", "xlsx", "txt", "html", "xml"}
    MimesOf <- MCMimesOf
    BodyOf <- MCBodyOf
    RequiredParts <- MCRequiredParts
    ZipLimits <- MCZipLimits
    MaxDocuments = 1
    MaxUploads = 3
    MaxVersions = 3
    MaxStorageFaults = 1
    MaxAttempts = 3
    NumChunks = 1
    GraphIndexing = FALSE
    SweepJobs = FALSE
    Faults <- FaultKinds
SYMMETRY Symmetry
INVARIANTS
    SucceededMeansReady
    LibraryConsistent
    DiffAccountsForAll
    OnlyCheckedContacted
CHECK_DEADLOCK FALSE
