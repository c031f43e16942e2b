CONSTANTS
  d1 = d1 d2 = d2 d3 = d3
  Docs = {d1, d2, d3}
  Rank <- MCRank
  Cap = 2
  MaxActive = 2
  Hands <- MCHands
  MaxDrift = 1
  MaxFailed = 1
  MaxFaults = 1
SPECIFICATION LiveSpec
INVARIANTS
  TypeOK
  RetainedOnce
  SettlementFinal
PROPERTIES
  ClosedHoldReopens
  SilentGuardReopens
CHECK_DEADLOCK FALSE
