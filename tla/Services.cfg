\* The services, one at a time: each constant is used by the service named
\* above it.
CONSTANTS
    \* memory: three users with a quota of one, a category of two, so that
    \* either limit can be the one that is met; notes can repeat
    main = main
    Instances = {"store"}
    Threads = {main}
    Home <- MCHome
    Categories = {"emails", "notes"}
    Notes = {"notes"}
    Described = {"emails"}
    Values = {"v1"}
    Users = {"u1", "u2", "u3"}
    Stamps = {1, 2}
    PerUserLimit = 1
    GlobalLimit = 2
    SaveMayFail = FALSE
    NoFile = NoFile
    Empty = Empty
    Garbled = Garbled
    Nothing = Nothing
    \* limiter: two server processes, one request per two seconds
    Workers = {"w1", "w2"}
    Limit = 1
    Window = 2
    LimiterEnd = 3
    Outages = 1
    NoBucket = NoBucket
    \* windows: two requests, two failures a minute of two steps
    Addresses = {"a1", "a2"}
    BootstrapKey = "boot"
    ManagedKeys = {"man"}
    OtherKeys = {"bad"}
    NoKey = "none"
    Minute = 2
    RateLimit = 2
    FailureLimit = 2
    TrackedMax = 1
    WindowsEnd = 3
    RequestsMax = 4
    \* credentials
    Processes = {"p1", "p2", "p3"}
    ApiKeys = {"k1"}
    MaxKeys = 1
    Failures = 1
    NoRecord = NoRecord
    \* arena
    Commands = {"c1", "c2"}
    Runs = {"r1"}
    PartOrder <- MCPartOrder
    Complete = "COMPLETE"
    Crashes = 2
    NoRun = NoRun
    \* plugins
    Plugins = {"x1", "x2"}
    \* fetch: six downloads can break, so that the breaker can count to three
    Fetchers = {"f1", "f2"}
    Domains = {"d1"}
    Interval = 1
    CrawlDelay = 1
    BreakerTimeout = 1
    RobotsTtl = 4
    FetchEnd = 5
    BreaksMax = 6
    Never = Never
    \* search
    Tasks = {"t1", "t2", "t3"}
    PoolSize = 2
    \* api: of two updates, one that failed can be written by the other
    Clients = {"k1", "k2"}
    Settings = {"s1", "s2"}
    UpdatesMax = 2
    KillsMax = 1
    MayFail = {"agent"}
    NoClient = NoClient
    \* program: one of two models is installed; an edit and a write of another
    \* program, or two edits
    Models = {"m1", "m2"}
    Installed = {"m1"}
    NoModel = "no"
    TokenLimits = {"low", "high"}
    EditsMax = 2
    RestartsMax = 1
SPECIFICATION MCServicesSpec
INVARIANTS ServicesTypeOK WithinQuotas AdmissionBounded WindowLimits
           RevokedStaysRevoked  IndexMatches ListedPluginsRun
            ConfigKept ProgramWhole
PROPERTY CallerReturns
CHECK_DEADLOCK FALSE
