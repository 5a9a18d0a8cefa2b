CONSTANTS
    MaxProbes = 3
    MaxSignatures = 2
    MaxVetoes = 2
    RecordCap = 3
    UpdateCap = 2
    MaxEntries = 2
    MaxConnections = 2
    MaxInterfaces = 2
    RoundBudget = 5
    MaxAddresses = 2
    LongSsids = {}
    Folded <- FoldedName
    MaxEdits = 1
    MaxLog = 3
    Words <- AnyWord
    Files <- SomeFiles
    Machines <- SomeMachines
    Registries <- SomeRegistries
    Pasts <- SomePasts
    LogDirs <- SomeLogDirs
SPECIFICATION StartupSpec
INVARIANTS
    LoadIsSound
    ConclusionsAreSound
PROPERTIES
    FileSettles
CHECK_DEADLOCK FALSE
