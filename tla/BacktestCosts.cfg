SPECIFICATION ParitySpec
CONSTANTS
  Bars <- MCBars
  MaxBars = 4
  Warmup = 0
  Limits = {0}
  CloseAtEnd = {TRUE, FALSE}
  Switch = {TRUE}
  Grades = {"PASS"}
  BarsPerDay = 2
  Risk <- MCRisk
  Exec <- MCExec
  Symbol = "XAUUSD"
  InitialBalance = 1000000
  MaxClosedTrades = 10
  MaxEquityPoints = 10
INVARIANTS
  CashFollowsFillPrices
CHECK_DEADLOCK FALSE
