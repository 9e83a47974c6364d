SPECIFICATION FairSpec
CONSTANTS
  p1 = p1
  p2 = p2
  t2 = t2
  t3 = t3
  qa = qa
  qb = qb
  qc = qc
  n1 = n1
  n2 = n2
  Peer = {p1, p2}
  TxSet = {t2, t3}
  QSet = {qa, qb, qc}
  MaxSlot = 3
  MAX_SLOTS_TO_REMEMBER = 1
  Node = {n1, n2}
  Traffics <- NetTraffics
  QuorumNodes <- OneNode
  Proposals <- NetProposals
  OwnQSets = {qa}
  SavedTxSets = {t3}
  InsaneQSets = {qc}
  Has <- NetHas
  StablePeers = {p1}
  LEDGER_VALIDITY_BRACKET = 1
  MaxRestarts = 1
PROPERTY EnvelopesGetThrough
INVARIANTS NothingIncompleteReachesSCP EveryMissingItemIsFetched
CHECK_DEADLOCK FALSE
