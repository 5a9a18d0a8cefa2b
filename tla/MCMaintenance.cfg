CONSTANTS
    MinTtl = 1
    MaxTtl = 3
    Ttls <- AskedTtls
    RefuseWithProtectedWork = TRUE
    MaxTime = 5
    MaxPermits = 2
    MaxBoots = 2
SPECIFICATION MaintenanceFairSpec
INVARIANTS
    MaintenanceInv
PROPERTIES
    DeadStaysDead
    PermitEnds
CHECK_DEADLOCK FALSE
