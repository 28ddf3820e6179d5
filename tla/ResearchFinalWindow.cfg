SPECIFICATION Spec
CONSTANTS
  Roster <- MCRoster
  Backtest <- MCBacktest
  Grade <- MCGrade
  FeatureWarmup <- MCFeatureWarmup
  Valid <- MCValid
  DeflatedSharpe <- MCDeflatedSharpe
  HeavySearch = 5
  RepeatedSearch = 3
  MinObservations = 5
  MinOutOfSampleTrades = 30
  MinWalkForwardFolds = 2
  Sessions = {s1, s2}
  Plans <- MCPlans
  Settings <- MCSettings
  Histories <- MCHistories
  Blank = 0
  MaxStudies = 1
  MaxFaults = 0
CHECK_DEADLOCK FALSE
INVARIANTS
  FinalWindowUntouched
