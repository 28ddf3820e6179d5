SPECIFICATION HSpec
CONSTANTS
  Bars <- ReplayBars
  MaxBars = 4
  Window = 4
  Warmup = 0
  BarsPerDay = 2
  PersistEvery = {0, 2}
  Switch = {TRUE}
  Grades = {"PASS"}
  OmitGrade = {FALSE}
  MaxFaults = 1
  Risk <- MCRisk
  Exec <- MCExec
  Symbol = "XAUUSD"
  InitialBalance = 1000000
  MaxClosedTrades = 10
  MaxEquityPoints = 10
INVARIANTS
  TypeOK
  BooksReconcile
  StopsHonoured
  BaselinesMatchHistory
  PerformanceMatchesTrades
  RestartEquivalence
PROPERTIES
  DurableHistoryGrows
  ImplementsUninterruptedReplay
