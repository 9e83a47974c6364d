\* One of four nodes is Byzantine: it equivocates, or seems to lag behind nodes that time out.
CONSTANTS
    Node = {n1, n2, n3, n4}
    Chosen = n3
    High = {n3}
    Value = {1, 2}
    UINT32_MAX = 9
    MAX_ADVANCE_SLOT_RECURSION = 50
    QSet <- ThreeOf
    Validity <- AllValid
    Composite <- Fixed
    Limits <- Faults
    TrackClaims = FALSE
    Byzantine = {n4}
SYMMETRY Symm
SPECIFICATION StartedSpec
INVARIANTS
    Agreement
    CatchesUpWithVBlocking
CHECK_DEADLOCK FALSE
