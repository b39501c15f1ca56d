SPECIFICATION FairSpec
CONSTANT
    MaxCodes = 2
INVARIANTS
    TypeOK
    SessionNeedsRole
    NoTokensWhilePolling
    ResultNotStranded
PROPERTIES
    AdminAccessSpec
    StartIsTaken
    PendingEnds
