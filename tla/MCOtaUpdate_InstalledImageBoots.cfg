SPECIFICATION Spec
CONSTANTS
    v1 = v1
    v2 = v2
    Semver <- MCSemver
    Versions = {v1, v2}
    Tasks = {t1, t2}
    Chunks = 2
SYMMETRY Symmetry
INVARIANT
    InstalledImageBoots
