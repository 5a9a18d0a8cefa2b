CONSTANTS
    control = control
    update = update
    ipc = ipc
    Workers <- AllWorkers
    Control <- control
    HostStopped <- HostWorkers
    SelfMarking <- MarkingWorkers
    Locking <- LockingWorkers
    MaxRestarts = 2
    StaleAfter = 0
    MaxFaults <- FewFaults
SPECIFICATION FairSpec
CHECK_DEADLOCK FALSE
INVARIANTS
    IInv
PROPERTIES
    FailedStaysFailed
    AllIsSettled
