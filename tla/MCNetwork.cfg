SPECIFICATION FairSpec
CONSTANTS
    FailureQuorum = 2
    Stabilize = 3
    WifiStabilize = 1
    MinDial = 2
    BaseInterval = 2
    Backoff <- Schedule
    MaxAge = 9
    MaxLate = 1
INVARIANTS
    IInv
    ShownIsTrue
PROPERTIES
    StepsAreSafe
    UplinkRecovers
