\* Three sessions over two boots, a journal that fills up after three records.
CONSTANTS
    MaxRecords = 3
    MaxSessions = 3
    MaxBoots = 2
    MaxUncounted = 1
    Faults <- WholeRecords
SPECIFICATION FairSpec
INVARIANTS
    IInv
    JournalIsTrue
PROPERTIES
    OnlyRotationUnmarks
    ImplementsHistory
    StopIsMarked
CHECK_DEADLOCK FALSE
