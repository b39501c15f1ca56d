SPECIFICATION Spec
CONSTANT
    MaxCodes = 2
INVARIANT
    CancelledMeansNoSession
