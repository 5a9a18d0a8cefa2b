CONSTANTS
    p1 = p1
    p2 = p2
    p3 = p3
    nobody = nobody
    Pids <- SomePids
    Nobody <- nobody
    Kinds <- SomeKinds
    Texts <- SomeTexts
    UserSignatures <- SomeSignatures
    BadPatterns <- Broken
    IdOrder <- Alphabet
    Recorder <- SomeRecorder
    Stamping = {"claude"}
    MaxWorkloads = 1
    MaxBirths = 3
SYMMETRY AnyNumber
SPECIFICATION Spec
INVARIANTS
    IInv
PROPERTIES
    WorkIsProtected
    HelpersAreNoInterpretedAgents
    
