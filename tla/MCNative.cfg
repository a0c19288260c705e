SPECIFICATION Spec
CONSTANTS
    MaxDepth = 3
    MaxArray = 2
    MaxVisits = 6
    MaxString = 2
    MaxBytes = 4
    MaxTemporary = 12
    Types <- MCTypes
    Values <- MCValues
    Inputs <- MCInputs
    Authors <- MCAuthors
    Build <- MCBuild
    o1 = o1
    o2 = o2
    c1 = c1
    Objects = {o1, o2}
    Hash <- MCHash
    TypeId <- MCTypeId
    Calls = {c1}
    MaxRefs = 3
    MaxHandles = 2
    m1 = m1
    m2 = m2
    m3 = m3
    Modules = {m1, m2, m3}
    Binary <- MCBinary
    MaxGenerations = 2
INVARIANTS
    LoweringsFollowReference
    PreflightAgrees
    EchoReturnsArgument
    IdentityPreserved
    ReceiverStaysValid
    GenerationsBounded
PROPERTIES
    SessionEndsWithModule
SYMMETRY Symmetry
CHECK_DEADLOCK FALSE
