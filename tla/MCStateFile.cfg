CONSTANTS
    Attempts = 3
    MaxQuarantine = 3
    MaxSaves = 4
    MaxCrashes = 2
    MaxFaults = 4
    MaxDamages = 1
SPECIFICATION FairSpec
INVARIANT
    IInv
PROPERTIES
    IsAtomicDocument
    EvidenceKept
    SavesEnd
