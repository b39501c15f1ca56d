SPECIFICATION Spec
CONSTANTS
    Names = {n1, n2, n3, n4}
    Strengths <- MCStrengths
    MaxResults = 3
    MaxFound = 5
SYMMETRY Symmetry
INVARIANTS
    BestReadings
    StrongestKept
    StrongestFirst
