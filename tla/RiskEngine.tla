----------------------------- MODULE RiskEngine -----------------------------
(* The risk engine (app/risk/engine.py): may a signal be traded, and at what *)
(* size?  Every limit is an integer percent.  The reason a refusal names is  *)
(* left out: a signal is approved when no gate refuses it.                   *)
EXTENDS Portfolio

CONSTANT Risk  \* RiskConfig, fractions as integer percents

SizingMethods == {"percent_risk", "fixed_risk", "fixed_units"}

RiskConfig ==
  [riskPerTrade: Nat \ {0}, sizingMethod: SizingMethods, fixedRisk: Nat \ {0},
   maxPositionNotional: Nat \ {0}, minUnits: Nat, maxConcurrent: Nat \ {0},
   maxPerSymbol: Nat \ {0}, maxPortfolioRisk: Nat \ {0},
   maxPortfolioNotional: Nat \ {0}, maxRiskPerStrategy: Nat \ {0},
   correlationThreshold: 0 .. 100, maxCorrelatedRisk: Nat \ {0},
   reduceThreshold: 1 .. 99, reduceFactor: 1 .. 100, maxDrawdown: 1 .. 99,
   dailyLoss: 1 .. 99, blockOnFail: BOOLEAN, blockOnWarning: BOOLEAN,
   requireKnown: BOOLEAN]

ASSUME RiskAssumption ==
  Risk \in RiskConfig /\ Risk.reduceThreshold < Risk.maxDrawdown

Percent(amount, pct) == (amount * pct) \div 100
MinOf(S) == CHOOSE x \in S : \A y \in S : x <= y

---------------------------------------------------------------------------
(* Data quality *)

KnownGrades == {"PASS", "WARNING", "FAIL"}

\* Mutant of QualityAccepted: only a bad grade blocks, a missing one does not.
QualityAcceptedUnverified(quality) ==
  /\ quality = "FAIL" => ~Risk.blockOnFail
  /\ quality = "WARNING" => ~Risk.blockOnWarning

\* _effective_quality and _data_quality_block.  Anything that is not a grade --
\* "UNKNOWN", or None, which is written "NONE" here -- counts as unverified.
QualityAccepted(quality) ==
  /\ quality \notin KnownGrades => ~Risk.requireKnown
  /\ quality = "FAIL" => ~Risk.blockOnFail
  /\ quality = "WARNING" => ~Risk.blockOnWarning

---------------------------------------------------------------------------
(* Gates *)

RiskPerUnit(sig) == Abs(sig.entry - sig.stop)

\* Mutant of GatesPass: the kill switch is not consulted.
GatesPassUnswitched(sig, pf, equity, quality, enabled) ==
  /\ QualityAccepted(quality)
  /\ RiskPerUnit(sig) > 0 /\ equity > 0
  /\ ~DrawdownReaches(pf, equity, Risk.maxDrawdown)
  /\ ~DailyLossReaches(pf, equity, Risk.dailyLoss)
  /\ Cardinality(pf.positions) < Risk.maxConcurrent
  /\ Cardinality(PositionsIn(pf, sig.symbol)) < Risk.maxPerSymbol

GatesPass(sig, pf, equity, quality, enabled) ==
  /\ enabled
  /\ QualityAccepted(quality)
  /\ RiskPerUnit(sig) > 0
  /\ equity > 0
  /\ ~DrawdownReaches(pf, equity, Risk.maxDrawdown)
  /\ ~DailyLossReaches(pf, equity, Risk.dailyLoss)
  /\ Cardinality(pf.positions) < Risk.maxConcurrent
  /\ Cardinality(PositionsIn(pf, sig.symbol)) < Risk.maxPerSymbol

---------------------------------------------------------------------------
(* Size *)

BaseRisk(equity) ==
  IF Risk.sizingMethod = "fixed_risk" THEN Risk.fixedRisk
                                      ELSE Percent(equity, Risk.riskPerTrade)

ScaledRisk(pf, equity) ==
  IF DrawdownReaches(pf, equity, Risk.reduceThreshold)
  THEN Percent(BaseRisk(equity), Risk.reduceFactor)
  ELSE BaseRisk(equity)

\* corr[s][t] is the correlation of two symbols in percent, where it is known;
\* the engine is given no matrix at all when DOMAIN corr is empty.
Aligned(sig, p, corr) ==
  \/ p.symbol = sig.symbol
  \/ /\ p.symbol \in DOMAIN corr[sig.symbol]
     /\ IF p.dir = sig.dir
        THEN corr[sig.symbol][p.symbol] >= Risk.correlationThreshold
        ELSE corr[sig.symbol][p.symbol] <= -Risk.correlationThreshold

CorrelatedRisk(sig, pf, corr) ==
  IF sig.symbol \notin DOMAIN corr THEN 0
  ELSE OpenRisk({p \in pf.positions : Aligned(sig, p, corr)})

\* What is left of each risk budget that applies.
BudgetsLeft(sig, pf, equity, corr) ==
  LET strategyRisk == OpenRisk({p \in pf.positions : p.strategy = sig.strategy})
      correlated == CorrelatedRisk(sig, pf, corr)
  IN  {Percent(equity, Risk.maxPortfolioRisk) - OpenRisk(pf.positions),
       Percent(equity, Risk.maxRiskPerStrategy) - strategyRisk}
      \cup (IF correlated > 0
            THEN {Percent(equity, Risk.maxCorrelatedRisk) - correlated} ELSE {})

NotionalLeft(pf, equity) ==
  Percent(equity, Risk.maxPortfolioNotional) - EntryNotional(pf)

Size(sig, pf, equity, corr) ==
  MinOf({MinOf({ScaledRisk(pf, equity)} \cup BudgetsLeft(sig, pf, equity, corr))
           \div RiskPerUnit(sig),
         Percent(equity, Risk.maxPositionNotional) \div sig.entry,
         NotionalLeft(pf, equity) \div sig.entry})

Approves(sig, pf, equity, quality, enabled, corr) ==
  /\ GatesPass(sig, pf, equity, quality, enabled)
  /\ \A left \in BudgetsLeft(sig, pf, equity, corr) : left > 0
  /\ NotionalLeft(pf, equity) > 0
  /\ Size(sig, pf, equity, corr) >= Max2(Risk.minUnits, 1)
=============================================================================
