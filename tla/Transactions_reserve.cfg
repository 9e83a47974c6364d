SPECIFICATION Spec
CONSTANTS
  INT64_MAX = 30
  Native = "XLM"
  Issuer <- MCIssuer
  None = "none"
  SeqPerLedger = 2
  InflationRate = 10
  InflationWinMin = 5
  InflationFrequency = 3
  MinVotes = 2
  Menus <- MCMenus
  Genesis <- MCGenesis
  BaseFee = 1
  NewReserves = {1, 2}
  MaxLedger = 4
CHECK_DEADLOCK FALSE
INVARIANT LiabilitiesMatchOffers
