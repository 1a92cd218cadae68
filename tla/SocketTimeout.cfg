\* Two domain analyses at a time: is the default time-out of sockets what it
\* was, once both are over?
CONSTANTS
    Analysts = {"t1", "t2"}
    Analyses = {"domain"}
    Platforms = 1
    EnoughFound = 3
    LookupsMax = 2
SPECIFICATION LookupsSpec
INVARIANT TimeoutRestored
CHECK_DEADLOCK FALSE
