CONSTANTS
    Node = {n1, n2, n3}
    Intact = {n1, n2, n3}
    Slices <- ThresholdSlices
    Threshold = 2
    Value = {1, 2}
    UINT32_MAX = 1
    MaxNew = 1
SPECIFICATION MCSpec
SYMMETRY Symm
INVARIANTS
    Agreement
    IInv
CHECK_DEADLOCK FALSE
