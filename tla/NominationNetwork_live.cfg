\* One crash, liveness; n2 rejects a value.
CONSTANTS
    n1 = n1
    n2 = n2
    n3 = n3
    Node = {n1, n2, n3}
    slicesOf <- SlicesOf
    vblockedBy <- VBlockedBy
    weightsOf <- WeightsOf
    Value = {1, 2, 3}
    Valid <- PickyValid
    Extract <- PickyVariants
    Rounds = 2
    HashNode <- Hashes
    HashPriority <- Turns13
    HashValue <- ValueHashes
    UINT64_MAX = 9
    Proposal <- Proposals
    MayCrash = {n3}
    Timers = {n1, n2, n3}
    KeepOld = FALSE
    MayStop = {n2}
SPECIFICATION FairSpec
INVARIANTS
    NoBadState
    NominationsStand
    CandidatesBlockEveryone
PROPERTIES
    NominationSucceeds
CHECK_DEADLOCK FALSE
