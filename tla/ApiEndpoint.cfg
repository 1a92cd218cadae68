\* The API server whose startup may fail to create the agent or the adaptive
\* manager and its processor.
CONSTANTS
    Clients = {"k1", "k2"}
    Settings = {"s1", "s2"}
    UpdatesMax = 2
    KillsMax = 1
    MayFail = {"agent", "adaptive"}
    NoClient = NoClient
SPECIFICATION ApiSpec
INVARIANT UnavailableMeansLost
CHECK_DEADLOCK FALSE
