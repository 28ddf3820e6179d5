SPECIFICATION ParitySpec
CONSTANTS
  Bars <- MCBars
  MaxBars = 5
  Warmup = 1
  Limits = {0, 3}
  CloseAtEnd = {TRUE, FALSE}
  Switch = {TRUE}
  Grades = {"PASS", "UNKNOWN"}
  BarsPerDay = 2
  Risk <- MCRisk
  Exec <- MCExec
  Symbol = "XAUUSD"
  InitialBalance = 1000000
  MaxClosedTrades = 10
  MaxEquityPoints = 10
INVARIANTS
  EverythingRealised
  TradeAlike
  SharedTradesIdentical
CHECK_DEADLOCK FALSE
