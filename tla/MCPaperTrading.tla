--------------------------- MODULE MCPaperTrading ---------------------------
(* Bars and configurations for the TLC instances of PaperTrading.             *)
EXTENDS PaperTrading

MCBar(open, high, low, close, regime, signal) ==
  [open |-> open, high |-> high, low |-> low, close |-> close, atr |-> 200,
   volume |-> 0, regime |-> regime, signal |-> signal, fails |-> FALSE]

Long == {[dir |-> "LONG", entry |-> 10000, stop |-> 9500, target |-> 10800]}
Short == {[dir |-> "SHORT", entry |-> 9900, stop |-> 10400, target |-> 0]}

\* A quiet bar the strategies go long on.
Calm == MCBar(10000, 10100, 9900, 10050, "RANGE", Long)
\* Reaches the target of the long.
Rally == MCBar(10200, 10900, 10100, 10850, "TREND_UP", {})
\* Opens far below the stop of the long; the strategies go short.
Plunge == MCBar(7000, 7100, 6500, 6600, "TREND_DOWN", {})
\* Reaches both the stop and the target of the long.
Wide == MCBar(10000, 11000, 9400, 9800, "VOLATILE", Long)
\* A falling bar the strategies go short on.
Bear == MCBar(9950, 10050, 9600, 9900, "TREND_DOWN", Short)
\* Opens far below the stop of the long; the graph raises, and there is no ATR.
Outage == [Plunge EXCEPT !.fails = TRUE, !.atr = 0]

ReplayBars == {Calm, Rally, Plunge, Wide}
GateBars == {Calm, Bear, Outage}

MCExec ==
  [halfSpread |-> 5, slippageModel |-> "atr_fraction", slippageValue |-> 500,
   commissionPerUnit |-> 0, commissionBps |-> 2, minCommission |-> 10,
   sameBar |-> "stop_first", honourGaps |-> TRUE, enforceVolume |-> FALSE,
   maxParticipationPct |-> 10]

MCRisk ==
  [riskPerTrade |-> 4, sizingMethod |-> "percent_risk", fixedRisk |-> 100,
   maxPositionNotional |-> 90, minUnits |-> 0, maxConcurrent |-> 3,
   maxPerSymbol |-> 1, maxPortfolioRisk |-> 6, maxPortfolioNotional |-> 300,
   maxRiskPerStrategy |-> 5, correlationThreshold |-> 70, maxCorrelatedRisk |-> 3,
   reduceThreshold |-> 4, reduceFactor |-> 50, maxDrawdown |-> 20, dailyLoss |-> 3,
   blockOnFail |-> TRUE, blockOnWarning |-> FALSE, requireKnown |-> TRUE]

\* Two positions of the symbol at once, so that the budgets and the notional are
\* shared.
MCRiskTwo == [MCRisk EXCEPT !.maxPerSymbol = 2, !.dailyLoss = 20,
                               !.maxPortfolioNotional = 90]
=============================================================================
