CONSTANTS
    noAutoUpdate = noAutoUpdate
    noReboot = noReboot
    deadline = deadline
    Order <- SomeOrder
    Deadlines <- SomeDeadlines
    Denials <- SomeDenials
    Scopes = {"empty", "readable", "unreadable"}
    MaxTampers = 1
    MaxFailures = 1
SPECIFICATION FairSpec
INVARIANTS
    IInv
PROPERTIES
    ProtectedWasTrue
    RepairsPrevail
    QuietInTheEnd
    TamperIsToldOnce
