----------------------------- MODULE MCBacktest -----------------------------
(* Bars and configurations for the TLC instances of the backtester.          *)
EXTENDS BacktestParity

MCBar(open, high, low, close, regime, signal) ==
  [open |-> open, high |-> high, low |-> low, close |-> close, atr |-> 200,
   volume |-> 0, regime |-> regime, signal |-> signal, fails |-> FALSE]

Long == {[dir |-> "LONG", entry |-> 10000, stop |-> 9500, target |-> 10800]}
Short == {[dir |-> "SHORT", entry |-> 9900, stop |-> 10400, target |-> 0]}

\* A quiet bar the strategies go long on.
Calm == MCBar(10000, 10100, 9900, 10050, "RANGE", Long)
\* Reaches the target of the long.
Rally == MCBar(10200, 10900, 10100, 10850, "TREND_UP", {})
\* Opens far below the stop of the long; the strategies go short.
Plunge == MCBar(7000, 7100, 6500, 6600, "TREND_DOWN", Short)
\* Reaches both the stop and the target of the long.
Wide == MCBar(10000, 11000, 9400, 9800, "VOLATILE", Long)
\* The graph raises; there is no ATR either.
Outage == [MCBar(10000, 10200, 9800, 10100, "RANGE", Long)
             EXCEPT !.fails = TRUE, !.atr = 0]

MCBars == {Calm, Rally, Plunge, Wide, Outage}

MCExec ==
  [halfSpread |-> 5, slippageModel |-> "atr_fraction", slippageValue |-> 500,
   commissionPerUnit |-> 0, commissionBps |-> 2, minCommission |-> 10,
   sameBar |-> "target_first", honourGaps |-> TRUE, enforceVolume |-> FALSE,
   maxParticipationPct |-> 10]

\* Two positions at once.
MCRisk ==
  [riskPerTrade |-> 2, sizingMethod |-> "percent_risk", fixedRisk |-> 100,
   maxPositionNotional |-> 90, minUnits |-> 0, maxConcurrent |-> 3,
   maxPerSymbol |-> 2, maxPortfolioRisk |-> 6, maxPortfolioNotional |-> 300,
   maxRiskPerStrategy |-> 5, correlationThreshold |-> 70, maxCorrelatedRisk |-> 3,
   reduceThreshold |-> 4, reduceFactor |-> 50, maxDrawdown |-> 20, dailyLoss |-> 10,
   blockOnFail |-> TRUE, blockOnWarning |-> FALSE, requireKnown |-> TRUE]
=============================================================================
