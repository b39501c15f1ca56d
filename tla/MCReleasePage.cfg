SPECIFICATION PageFairSpec
CONSTANTS
    v1 = v1
    Semver <- MCSemver
    Versions = {v1}
    Tasks = {t1}
    Chunks = 1
PROPERTIES
    InstallEnds
    UpdateEnds
    SaysInstalled
    PageEnds
