CONSTANTS
    p1 = p1
    p2 = p2
    f1 = f1
    None = None
    Processes = {p1, p2}
    Features = {f1}
    EditLimit = 3
    FaultLimit = 1
SPECIFICATION FairSpec
INVARIANT MixedIsMarked
PROPERTY OwnershipHandedOver
PROPERTY RerunRecovers
