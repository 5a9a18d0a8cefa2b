CONSTANTS
    AutoWorking = TRUE
    ProtectStandalone = FALSE
    RefuseWithWork = TRUE
    MaxArms = 2
SPECIFICATION FairSpec
INVARIANTS
    IInv
PROPERTIES
    OnlyExitLocks
    StateSettles
