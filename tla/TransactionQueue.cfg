SPECIFICATION FairSpec
CONSTANTS
  Account = {"a", "b"}
  Tx <- MCTx
  AccountOrder <- MCOrder
  InitialBalance <- MCBalance
  InitialHeader <- MCHeader
  LEDGER_PROTOCOL_VERSION = 2
  Schedules <- MCSchedules
  OtherUpgrades <- MCOther
  MaxTime = 2
INVARIANTS ProposalsAreValid QueueTotalsAreExact
PROPERTY TransactionsLeaveTheQueue
