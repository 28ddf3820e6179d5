SPECIFICATION Spec
CONSTANTS
  Bars <- GateBars
  MaxBars = 3
  Window = 3
  Warmup = 0
  BarsPerDay = 2
  PersistEvery = {0}
  Switch = {TRUE, FALSE}
  Grades = {"PASS"}
  OmitGrade = {FALSE}
  MaxFaults = 0
  Risk <- MCRisk
  Exec <- MCExec
  Symbol = "XAUUSD"
  InitialBalance = 1000000
  MaxClosedTrades = 10
  MaxEquityPoints = 10
PROPERTIES
  NothingOpensWhileDisabled
