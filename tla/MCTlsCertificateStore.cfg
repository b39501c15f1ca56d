SPECIFICATION FairSpec
CONSTANTS
    Bundles = {b1, b2}
    Local = b1
INVARIANTS
    PairUnlessTorn
    StoredMeansActive
    InvalidNeverWritten
PROPERTIES
    StoredCertificateSpec
    StageEnds
