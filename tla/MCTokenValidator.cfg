SPECIFICATION FairSpec
CONSTANTS
    Keys = {k1, k2}
INVARIANTS
    AcceptedNeedsTokens
    GoodTokensAccepted
    FetchesBounded
PROPERTY
    ValidationEnds
