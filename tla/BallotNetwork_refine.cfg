\* Refinement of FederatedAgreement.
CONSTANTS
    Node = {n1, n2, n3}
    Chosen = n3
    High = {n3}
    Value = {1, 2}
    UINT32_MAX = 9
    MAX_ADVANCE_SLOT_RECURSION = 50
    QSet <- TwoOf
    Validity <- AllValid
    Composite <- Fixed
    Limits <- OneTimer
    TrackClaims = TRUE
    Byzantine = {}
SYMMETRY Symm
SPECIFICATION Spec
PROPERTIES
    ImplementsFederatedAgreement
CHECK_DEADLOCK FALSE
