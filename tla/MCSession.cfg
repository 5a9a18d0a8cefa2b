CONSTANTS
    quiet = quiet
    helper = helper
    Helper <- helper
    Callers <- SomeCallers
    Asks <- SomeAsks
    Silent <- SomeCallers
    Modes <- SomeModes
    MaxFailures = 1
    MaxDeaths = 1
SPECIFICATION FairSpec
INVARIANTS
    IInv
PROPERTIES
    BlockFollows
    WaitsEnd
