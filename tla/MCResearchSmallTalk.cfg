\* As MCResearch.cfg, with no part but the one that plans.
SPECIFICATION MCSpec
CONSTANTS
    Deadline = 2
    MaxIterations = 8
    MaxQueries = 2
    MaxPages = 2
    MaxRaw = 4
    MaxDecoded = 4
    MaxCalls = 3
    MaxTokens = 5
    MaxAttempts = 2
    Reservation = 2
    Broken = Broken
    Searches = 2
    MaxHits = 2
    MaxFetches = 1
    Sizes = {1, 3}
    Prompts = {1}
    Replies = {1}
    Records = {0, 1}
    ClaimCounts = {2, 17}
    Tries = 2
    EvidenceUrls <- MCEvidenceUrls
    FactIds = {f1, f2, f3}
    ConflictKeys = {c1}
    Claims = {m1, m2}
    Sources = {u1}
    FactSessions = {z1}
    LastInstant = 2
    Editors = {e1}
    NoFact = NoFact
    ProcedureIds = {q1}
    Contents = {x1}
    ProcedureSessions = {s1, s2}
    Callers = {w1, w2}
    MaxVersion = 2
    MaxGeneration = 2
    MaxActivations = 3
    NoVersion = NoVersion
    NoCall = NoCall
    Few = {f1, m1}
    com = com
    good = good
    bad = bad
    local = local
    DeniedDomains <- MCDenied
    AllowedDomains <- MCAllowed
    DeniedCategories = {"adult"}
    LocalDomains <- MCLocal
    CategoryOf <- MCCategories
    AllowedPorts = {80, 443}
    Addresses = {1, 2, 3, 4}
    PublicAddresses = {1, 2, 4}
    MaxRedirects = 1
    Backends <- MCBackends
    Sweeps = 2
    RowsPerHit = 2
    Limits = {1, 2}
    ResultRows <- MCRows
    Urls <- MCUrls
    MaxBytes = 2
    PieceBytes = 2
    NoUrl = NoUrl
    Vocabularies <- MCVocabularies
    MaxTags = 7
    MaxDepth = 4
    Parts = {"p1", "p2", "p3"}
    SizeOf <- MCSizes
    Bodies <- MCBodies
    MaxInput = 1
    MaxChars = 6
    MaxPdfPages = 2
    MaxStream = 1
    BlocksPerPage = 2
    MaxCancels = 2
    Letters = {"a", "b", "c"}
    Space = " "
    Period = "."
    Documents <- MCDocuments
    Requests <- MCRequests
    Answers <- MCAnswers
    AnswerTimes <- MCTimes
    MaxAge = 1
    MaxChunk = 6
    MaxContext = 8
    TopK = 2
    MaxQuotes = 2
    QuoteLimit = 4
    MinSpan = 2
    LongWord = 2
    Attempts = 2
    Generic = {"what", "find", "hello"}
    Years = {"2024"}
    Markers = {"secret"}
    Controls = {"ignore"}
    Controlled = {"rules"}
    Alike <- MCAlike
    Expansions <- MCExpansions
    PlanRequests <- MCPlanRequests
    Contexts <- MCContexts
    Drafts <- MCDrafts
    ScopedAnswers <- MCScopedAnswers
    FixedReply = {"agent"}
    FixedQuestion = {"clarify"}
    MaxChat = 6
    MaxRetries = 1
    Foci = {"plan"}
INVARIANTS SmallTalkIsAnswered
CHECK_DEADLOCK FALSE
