SPECIFICATION FairSpec
CONSTANTS
    W = 8
    AbsoluteTimeout = 3
    InactivityTimeout = 2
    MaxLoopMs = 2
    MaxCheckMs = 2
INVARIANTS
    ExactAges
    OverdueBounded
    AcceptedOnlyLive
PROPERTY
    ZombieEnds
