\* Two stores, two users, one category of each kind; the second user's entry
\* of a value may meet the first one's.
CONSTANTS
    loop = loop
    worker = worker
    runtime = runtime
    singleton = singleton
    u1 = u1
    u2 = u2
    Instances = {runtime, singleton}
    Threads = {loop, worker}
    Home <- MCHome
    Categories = {"emails", "notes"}
    Notes = {"notes"}
    Described = {"emails"}
    Values = {"v1"}
    Users = {u1, u2}
    Stamps = {1}
    PerUserLimit = 1
    GlobalLimit = 2
    SaveMayFail = TRUE
    NoFile = NoFile
    Empty = Empty
    Garbled = Garbled
    Nothing = Nothing
SYMMETRY MCSymmetry
SPECIFICATION Spec
INVARIANTS NoDuplicates ReadableUnlessClash
PROPERTY UndisturbedSaveIsWhole
