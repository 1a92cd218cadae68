\* Two worker threads share the agent's manager; three keys, one of them more than
\* fits into the LRU, two more than fit into the directory; one tick beyond the TTL.
CONSTANTS
    Threads = {t1, t2}
    Managers = {"agent"}
    Serving = {"agent"}
    Keys = {k1, k2, k3}
    TTL = 1
    MemMax = 2
    MaxFiles = 1
    MaxTime = 2
    None = None
    Garbled = Garbled
SPECIFICATION Spec
SYMMETRY Symmetry
INVARIANTS LruBounded DirectoryBounded TiersAgree
PROPERTIES HitsAreFresh ClearEmpties
