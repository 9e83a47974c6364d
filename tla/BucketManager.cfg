SPECIFICATION FairSpec
CONSTANTS
  kNumLevels = 3
  getCheckpointFrequency = 8
  Genesis = {"r"}
  Changes <- MCChanges
  MaxLedger = 24
  MaxRestarts = 1
  MaxFailures = 1
INVARIANTS ListIsThatOfTheLedger NothingNeededIsDeleted ArchiveIsComplete
PROPERTIES CheckpointsReproduceTheLedger CheckpointsArePublished
CHECK_DEADLOCK FALSE
