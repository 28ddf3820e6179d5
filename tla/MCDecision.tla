----------------------------- MODULE MCDecision -----------------------------
(* Frames, settings and accounts for the TLC instance of DecisionGraph.        *)
EXTENDS DecisionGraph

B(open, high, low, close, volume) ==
  [open |-> open, high |-> high, low |-> low, close |-> close, volume |-> volume]

Pinched ==
  <<B(1000, 1005, 915, 920, 0), B(920, 1005, 890, 1000, 200), B(1000, 1030, 990, 1020, 400),
    B(1020, 1030, 930, 940, 0), B(940, 940, 935, 940, 200), B(940, 970, 935, 960, 200),
    B(960, 960, 930, 940, 200), B(940, 945, 920, 920, 100), B(920, 970, 890, 960, 100)>>
Burst ==
  <<B(1000, 1015, 995, 1010, 100), B(1010, 1050, 1000, 1020, 0), B(1020, 1025, 980, 1010, 200),
    B(1010, 1020, 1005, 1020, 100), B(1020, 1025, 1005, 1010, 100), B(1010, 1045, 1005, 1015, 100),
    B(1015, 1080, 1015, 1075, 200), B(1075, 1105, 1010, 1015, 0), B(1015, 1045, 925, 935, 400)>>
Dip ==
  <<B(1000, 1005, 1000, 1005, 0), B(1005, 1015, 990, 1000, 400), B(1000, 1005, 1000, 1000, 400),
    B(1000, 1010, 990, 995, 200), B(995, 1025, 965, 995, 400), B(995, 1005, 985, 1000, 400),
    B(1000, 1000, 995, 995, 400), B(995, 1005, 980, 990, 0), B(990, 1020, 955, 985, 200)>>
Shelf ==
  <<B(1000, 1005, 990, 995, 0), B(995, 1030, 990, 1000, 0), B(1000, 1015, 990, 1005, 400),
    B(1005, 1035, 1000, 1000, 400), B(1000, 1000, 990, 1000, 100), B(1000, 1000, 1000, 1000, 0),
    B(1000, 1010, 1000, 1000, 0), B(1000, 1000, 990, 995, 400), B(995, 1005, 965, 1000, 200)>>
Choppy ==
  <<B(1000, 1000, 955, 960, 400), B(960, 960, 940, 940, 200), B(940, 950, 895, 900, 0),
    B(900, 950, 890, 940, 100), B(940, 990, 910, 980, 200), B(980, 1010, 960, 960, 0),
    B(960, 985, 930, 980, 100), B(980, 990, 910, 940, 0), B(940, 1010, 935, 980, 400)>>
Oversold ==
  <<B(1000, 1010, 970, 1000, 100), B(1000, 1000, 995, 1000, 100), B(1000, 1005, 965, 995, 100),
    B(995, 1005, 985, 990, 200), B(990, 995, 985, 990, 0), B(990, 990, 980, 990, 400),
    B(990, 995, 980, 985, 100), B(985, 985, 980, 980, 200), B(980, 980, 950, 980, 400)>>
Climb ==
  <<B(1000, 1010, 950, 980, 100), B(980, 1010, 955, 960, 400), B(960, 970, 930, 940, 0),
    B(940, 965, 940, 960, 0), B(960, 990, 940, 940, 0), B(940, 940, 900, 900, 0),
    B(900, 950, 900, 920, 200), B(920, 970, 915, 960, 100), B(960, 1010, 955, 980, 100)>>
Stall ==
  <<B(1000, 1050, 970, 1020, 200), B(1020, 1060, 1020, 1060, 200), B(1060, 1060, 990, 1020, 0),
    B(1020, 1025, 990, 1000, 100), B(1000, 1050, 995, 1020, 400), B(1020, 1030, 950, 980, 200),
    B(980, 1020, 950, 1020, 100), B(1020, 1030, 980, 980, 200), B(980, 1050, 970, 1020, 100)>>

\* Its seventh bar is a peak that only the eighth confirms.
Peaked ==
  <<B(1000, 1010, 930, 960, 0), B(960, 980, 955, 980, 0), B(980, 1010, 975, 1000, 100),
    B(1000, 1045, 1000, 1040, 400), B(1040, 1050, 960, 960, 0), B(960, 1045, 960, 1040, 0),
    B(1040, 1070, 1035, 1040, 100), B(1040, 1050, 970, 1000, 0), B(1000, 1030, 970, 1000, 0)>>

\* The range of its bars is wider than the price is high.
Wild ==
  <<B(50, 150, 5, 55, 100), B(55, 150, 5, 60, 100), B(60, 150, 5, 65, 100),
    B(65, 150, 5, 70, 100), B(70, 150, 5, 75, 100), B(75, 150, 5, 80, 100),
    B(80, 150, 5, 85, 100)>>

MCHistories == {Pinched, Burst, Dip, Shelf, Choppy, Oversold, Climb, Stall, Peaked,
                Wild}

MCFeature ==
  [sma |-> 2, filter |-> 3, fast |-> 2, slow |-> 3, slope |-> 1, adx |-> 2, rsi |-> 2,
   roc |-> 1, macdFast |-> 1, macdSlow |-> 2, macdSignal |-> 2, atr |-> 2, bb |-> 3,
   bbStd |-> 1, lookback |-> 3, left |-> 1, right |-> 1, donchian |-> 2, volume |-> 2,
   reliableVolume |-> TRUE]

MCRegime ==
  [adxTrending |-> 50, adxRanging |-> 40, slope |-> 5, highVolatility |-> 80,
   lowVolatility |-> 40, minConfidence |-> 45]

Settings(weight, history, stop) ==
  [minConfidence |-> 50, weight |-> weight, supported |-> TRUE, minHistory |-> history,
   stop |-> stop, target |-> 300]

\* The breakout strategy is weighted so low that it falls below the least share
\* beside others; trend following asks for more history than the warm-up.
MCRoster ==
  [config |-> [n \in StrategyNames |->
                 CASE n = "breakout" -> Settings(5, 7, 100)
                   [] n = "trend_following" -> Settings(100, 8, 200)
                   [] OTHER -> Settings(100, 7, 150)],
   adxMinimum |-> 22, rocThreshold |-> 200, rsiBullFloor |-> 50, rsiBearCeiling |-> 50,
   requireMacd |-> TRUE, rsiOversold |-> 40, rsiOverbought |-> 60, maxAdx |-> 45,
   minDistance |-> 50, buffer |-> 25, maxConsolidation |-> 110, requireVolume |-> FALSE,
   volumeMultiple |-> 150, proximity |-> 50, minAge |-> 1, maxAge |-> 8,
   requireRejection |-> TRUE, wickRatio |-> 30]

MCSelector == [suppressAvoided |-> TRUE, minWeight |-> 50, minSamples |-> 2]

\* The graph builds its aggregator with the first settings.
Voting(method, policy, margin, confidence) ==
  [method |-> method, policy |-> policy, minMargin |-> margin, minConfidence |-> confidence]
MCAggregators ==
  {Voting("weighted", "abstain", 15, 50), Voting("majority", "net_score", 0, 10),
   Voting("unanimous", "net_score", 15, 30)}

MCExec ==
  [halfSpread |-> 5, slippageModel |-> "none", slippageValue |-> 0,
   commissionPerUnit |-> 0, commissionBps |-> 0, minCommission |-> 0,
   sameBar |-> "stop_first", honourGaps |-> TRUE, enforceVolume |-> FALSE,
   maxParticipationPct |-> 10]

MCRisk ==
  [riskPerTrade |-> 4, sizingMethod |-> "percent_risk", fixedRisk |-> 100,
   maxPositionNotional |-> 90, minUnits |-> 0, maxConcurrent |-> 3,
   maxPerSymbol |-> 1, maxPortfolioRisk |-> 6, maxPortfolioNotional |-> 300,
   maxRiskPerStrategy |-> 5, correlationThreshold |-> 70, maxCorrelatedRisk |-> 3,
   reduceThreshold |-> 4, reduceFactor |-> 50, maxDrawdown |-> 20, dailyLoss |-> 10,
   blockOnFail |-> TRUE, blockOnWarning |-> FALSE, requireKnown |-> TRUE]

\* The order of an earlier run on another instrument, still open.
Silver ==
  [symbol |-> "SILVER", strategy |-> "ensemble", dir |-> "LONG", entry |-> 500,
   qty |-> 40, risk |-> 2500, entryBar |-> 3]

Account(book, equity, quality) ==
  [book |-> book, equity |-> equity, quality |-> quality, enabled |-> TRUE]
MCAccounts ==
  {Account(EmptyPortfolio, InitialBalance, "PASS"),
   Account([EmptyPortfolio EXCEPT !.positions = {Silver}], (95 * InitialBalance) \div 100, "PASS"),
   Account(EmptyPortfolio, InitialBalance, "UNKNOWN")}

\* Trades are recorded under the name of the order's strategy.
MCClosed ==
  {<<[strategy |-> "ensemble", regime |-> "TRENDING_UP", r |-> -100],
     [strategy |-> "ensemble", regime |-> "TRENDING_UP", r |-> -100]>>}

MCMatrices == {<<>>, [GOLD |-> [SILVER |-> 80], SILVER |-> [GOLD |-> 80]]}
=============================================================================
