\* Two nodes may time out and the third follows, or statements are delivered in
\* any order, also after newer ones, or one node crashes and restarts, or the third
\* follows, crashes and times out; liveness.
CONSTANTS
    Node = {n1, n2, n3}
    Chosen = n3
    High = {n3}
    Value = {1, 2}
    UINT32_MAX = 9
    MAX_ADVANCE_SLOT_RECURSION = 50
    QSet <- TwoOf
    Validity <- AllValid
    Composite <- Fixed
    Limits <- Schedules
    TrackClaims = FALSE
    Byzantine = {}
\* Fairness and liveness name no node, and no behaviour returns to a state it left,
\* so that the symmetry keeps what EveryNodeExternalizes says.
SYMMETRY Symm
SPECIFICATION StartedFairSpec
INVARIANTS
    NoBadState
    NoEquivocation
PROPERTIES
    TimerFollowsQuorum
    TimeoutMovesOn
    CommitIsStable
    EveryNodeExternalizes
CHECK_DEADLOCK FALSE
