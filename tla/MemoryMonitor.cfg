\* The API server: two stores, three threads; saves succeed.
CONSTANTS
    Instances = {"runtime", "singleton"}
    Threads = {"loop", "worker", "monitor"}
    Monitor = "monitor"
    Home <- MCHome
    Categories = {"emails", "notes"}
    Notes = {"notes"}
    Described = {"emails"}
    Values = {"v1", "v2"}
    Users = {"u1"}
    Stamps = {1}
    PerUserLimit = 2
    GlobalLimit = 2
    SaveMayFail = FALSE
    NoFile = NoFile
    Empty = Empty
    Garbled = Garbled
    Nothing = Nothing
SPECIFICATION MonitorSpec
PROPERTY RememberKeepsOthers
