CONSTANTS
    MaxRecords = 6
    MaxSessions = 1
    MaxBoots = 1
    MaxUncounted = 1
    Faults <- NoFaults
SPECIFICATION Spec
INVARIANT ExplicitExitIsClean
CHECK_DEADLOCK FALSE
