SPECIFICATION EvaluationSpec
CONSTANTS
    Scenarios <- MCScenarios
    Docs = {1, 2, 3}
    Chunks = {1, 2, 3, 4}
    FirstActive <- MCFirstActive
    Queries = {"a", "b", "c"}
    DocOf <- MCDocOf
    DenseScore <- MCDense
    SparseRaw <- MCSparse
    RerankScore <- MCRerank
    Affinity <- MCAffinity
    Analysis <- MCAnalysis
    TopK = 3
    RerankTopN = 2
    CandidateMultiplier = 2
    RrfK = 60
    DenseWeight = 1
    SparseWeight = 1
    MinCandidates = 1
    MinSelected = 1
    ScoreThreshold = 350
    MaxRetrievalCalls = 2
    MaxFallbackCalls = 1
    SparseEnabled = TRUE
    HybridEnabled = TRUE
    FirstGraphs <- MCFirstGraphs
    Entities = {1, 2, 3}
    Mentions <- MCMentions
    Renames <- MCRenames
    EntityMatch <- MCEntityMatch
    Relations <- MCRelations
    MinEntityMatch = 200
    MaxStartEntities = 2
    MaxDepth = 2
    MaxPaths = 3
    MaxRelations = 2
    MaxSourceChunks = 3
    Signs <- MCSigns
    MinSignal = 500
    Text <- MCText
    Numbers <- MCNumbers
    AnswerLabels <- MCAnswerLabels
    Asides = {"Wait,"}
    SentenceEnds = {"."}
    Excuses = {"no evidence"}
    Leaks = {"secret"}
    Width <- MCWidth
    MaxOutputChars = 24
    MaxNumber = 999999
    MaxContextTokens = 8
    ReserveAnswerTokens = 3
    MaxContextItems = 3
    MaxTokensPerItem = 3
    MinCitationCandidates = 1
    MaxContextChars = 4
    MaxEvidenceItems = 3
    MaxItemsPerSource = 1
    MaxCharsPerItem = 2
    MaxTotalChars = 5
    NearDuplicate = 90
    HighThreshold = 700
    MediumThreshold = 400
    HighGroundedness = 800
    MediumGroundedness = 500
    RetryOnInsufficient = TRUE
    AsciiWords = {"u", "v", "x", "y", "z"}
    MaxToolCalls = 3
    MaxSearchCalls = 2
    MaxItemsPerTool = 2
    MaxToolItems = 3
    MaxSnippetWords = 2
    MaxTokensPerTool = 3
    MaxToolTokens = 5
    RejectOversized = TRUE
    Comparing = {"b"}
    ManyWords = {"a"}
INVARIANTS
    ConversationConsistent
    GroundedAnswers
    CacheMatchesCorpus
    ToolEvidenceUsed
    EvaluatedAsRecorded
