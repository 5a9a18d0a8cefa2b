CONSTANTS
    p1 = p1
    p2 = p2
    p3 = p3
    Copies <- SomeCopies
    Rights = {FALSE}
    HelperShipped = TRUE
    MaxFaults = 1
SPECIFICATION PanelFairSpec
INVARIANTS
    CopiesAreSafe
PROPERTIES
    HandOverEnds
CHECK_DEADLOCK FALSE
