SPECIFICATION Spec
CONSTANTS
    InterruptLimit = 2
    Versions = {1, 2}
    Absent = 99
    Minimum = 2
    Packages = {p1, p2}
    Configs = {c1, c2}
    KillLimit = 2
    PeerLimit = 2
    None = None
    Features <- MCFeatures
INVARIANTS
    TreeStopped
    VerdictIsHonest
    NamesFollowPackage
    ExitIsHonest
    FeatureIsWhole
    PublicSurfaceIsClosure
    InstalledIsDeclared
PROPERTIES
    CallEnds
    AuthorWorkKept
    AddRecovers
CHECK_DEADLOCK FALSE
