SPECIFICATION Spec
CONSTANTS
    Leaves = {f1, f2}
    Numbers = {1, 2, 3}
    Descriptors = {1}
    Components <- MCComponents
    EditLimit = 3
    FaultLimit = 2
    OpenLimit = 4
    FailLimit = 2
    ChangeLimit = 3
    DepthLimit = 5
INVARIANT
    GenerationsOwned
CHECK_DEADLOCK FALSE
