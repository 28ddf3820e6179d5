SPECIFICATION Spec
CONSTANTS
  Writers = {w1}
  Outcomes <- MCOutcomes
  Regimes = {"TREND_UP"}
  MaxClosedTrades = 1
  MaxRecentErrors = 1
  MinSamples = 1
  FreshIntervals = 1
  DelayedIntervals = 2
  Grades = {"PASS"}
  BlockOnWarning = TRUE
  MaxClock = 3
  MaxCommands = 3
  MaxFaults = 0
INVARIANTS
  AttributionSurvives
