\* The parts, one at a time: each constant is used by the part named above it.
CONSTANTS
    \* osint: two questions, one of which can be a lookup that needs the terms
    Askers = {"a1", "a2"}
    Kinds = {"email"}
    BreachSources = {"hibp"}
    GeneralLimit = 1
    AsksMax = 2
    \* access: Redis fails once; roles change three times
    Servers = {"s1", "s2"}
    Principals = {"boot", "key"}
    Bootstrap = "boot"
    TokenExpiry = 1
    AccessEnd = 1
    TokensMax = 2
    ChangesMax = 3
    StoreFailures = 1
    NoRole = NoRole
    NoToken = NoToken
    \* answers: more pages than are shown, and two sites that are wanted
    Searchers = {"a1"}
    Urls <- MCUrls
    Blacklisted = {"bad"}
    SiteOf <- MCSiteOf
    Wanted <- MCWanted
    Retries = 1
    MaxResults = 2
    SessionMax = 2
    ContextMax = 2
    QuestionsMax = 2
    NoPage = "no"
    \* rag: batches of one, so that two of them interleave
    RagUsers = {"u1", "u2"}
    Documents = {"d1", "d2"}
    BatchSize = 1
    DocsMax = 2
    CallsMax = 3
    RagStarts = 1
    \* model: one request a minute, two nested levels of retries
    Callers = {"c1", "c2"}
    PerMinute = 1
    LlmInterval = 1
    Attempts = 2
    OuterRetries = 1
    LlmEnd = 2
    LlmFailures = 2
    \* tests
    TestFiles <- MCTestFiles
    PoolWorkers = 2
    RunsMax = 2
    \* health
    Rules <- MCRules
    Contexts = {"x1"}
    Readers = {"r1"}
    Cooldown = 1
    StatsTtl = 1
    HistoryMax = 1
    AlertsMax = 2
    HealthEnd = 2
    RecordsMax = 2
    NoTime = NoTime
    \* lookups
    Analysts = {"l1", "l2"}
    Analyses = {"domain", "company", "email", "ip", "username"}
    Platforms = 2
    EnoughFound = 1
    LookupsMax = 2
    \* requests: the file is rotated at every event
    Connections = {"q1", "q2"}
    FileSize = 1
    Backups = 2
    ArrivalsMax = 4
    \* budget: windows from smaller than the reserve to the usual ones
    Windows = {300, 512, 4096, 8192}
    MaxTokens = {0, 100, 2048, 4096}
    ContextLimits = {0, 1500, 4000}
    SystemLengths = {0, 401, 1203}
    QueryLengths = {0, 103, 1700, 20001}
    ContentLengths = {0, 201, 5003, 40007}
    LabelLength = 25
SPECIFICATION MCQueriesSpec
INVARIANTS QueriesTypeOK LookupsAudited AccessIsLatest WantedShown KeptWhileOn CallsPolite
           RunIsOver SeenIsAlerted 
            
CHECK_DEADLOCK FALSE
