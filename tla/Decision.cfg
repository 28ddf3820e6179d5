SPECIFICATION Spec
CONSTANTS
  NaN = NaN
  InitialBalance = 100000
  BarsPerDay = 1
  Exec <- MCExec
  Risk <- MCRisk
  Feature <- MCFeature
  Regime <- MCRegime
  Roster <- MCRoster
  Selector <- MCSelector
  Histories <- MCHistories
  Accounts <- MCAccounts
  Closed <- MCClosed
  Aggregators <- MCAggregators
  Matrices <- MCMatrices
  Bars = {7, 8}
  MaxFailures = 1
CHECK_DEADLOCK FALSE
INVARIANTS
  PointInTime
  SilencedDoNotVote
  OrderWithinRisk
  NoOrderAfterFailure
PROPERTIES
  RunsEnd
