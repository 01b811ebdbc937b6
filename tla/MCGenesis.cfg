SPECIFICATION Spec
CONSTANTS
    Depth = 2
    Accounts = 2
    ChunkSize = 2
    MaxCrashes = 2
    MaxFaults = 1
    MaxStarts = 5
    MaxInits = 2
INVARIANTS
    TypeOK
    RunningTreesAreMerkle
    RunningIsLoaded
    RunningKeyIsConfigured
PROPERTY
    LoadedOnce
CHECK_DEADLOCK FALSE
