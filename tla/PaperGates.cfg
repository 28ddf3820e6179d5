SPECIFICATION FairSpec
CONSTANTS
  Bars <- GateBars
  MaxBars = 4
  Window = 2
  Warmup = 0
  BarsPerDay = 3
  PersistEvery = {0, 1}
  Switch = {TRUE, FALSE}
  Grades = {"PASS", "FAIL"}
  OmitGrade = {TRUE, FALSE}
  MaxFaults = 1
  Risk <- MCRiskTwo
  Exec <- MCExec
  Symbol = "XAUUSD"
  InitialBalance = 1000000
  MaxClosedTrades = 10
  MaxEquityPoints = 10
INVARIANTS
  PositionLimit
  QueuedOrderJustified
  FillsOnNextProcessedBar
PROPERTIES
  QueuesOnlyWhenPermitted
  EventuallyDurable
