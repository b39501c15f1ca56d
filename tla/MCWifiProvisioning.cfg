SPECIFICATION FairSpec
CONSTANTS
    Forms = {home, office, cafe, tooLong}
    Open = {cafe}
    Rejected = {tooLong}
    Epaper = TRUE
INVARIANTS
    StoredAsTold
    PairFromOneForm
    RunsAsTold
PROPERTY
    BootEnds
