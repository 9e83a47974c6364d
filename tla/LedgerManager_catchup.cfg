\* Checkpoints of four ledgers; the network skips any ledgers; manual catchups.
CONSTANTS
    getCheckpointFrequency = 4
    MaxLedger = 13
    MaxRestarts = 1
    Count = 5
    ManualTargets = {0, 6, 7, 10}
SPECIFICATION FairSpec
INVARIANTS
    AssertionsHold
    TargetPublished
    RangeSound
PROPERTIES
    OnlyBucketsSkipLedgers
    CatchupSettles
CHECK_DEADLOCK FALSE
