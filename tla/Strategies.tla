----------------------------- MODULE Strategies -----------------------------
(* The five strategies (app/strategies): what each proposes at bar t.         *)
(*                                                                            *)
(* A proposal is a set: empty for WAIT, otherwise one signal.  A signal that  *)
(* is not well formed stands for the exception its construction raises.       *)
(* Prices are integers, ATRs and averages hundredths of one, confidence and   *)
(* scores are in percent.  A parameter that the shipped configuration gives   *)
(* in ATRs is in percent of one.                                              *)
EXTENDS Regimes

CONSTANT Roster  \* StrategiesConfig: the enabled strategies, their parameters

StrategyNames == {"trend_following", "momentum", "mean_reversion", "breakout",
                  "support_resistance"}

StrategyConfig ==
  [minConfidence: 0..100, weight: Nat, supported: BOOLEAN, minHistory: Nat,
   stop: Nat \ {0}, target: Nat \ {0}]

\* The thresholds lie where readings do, short of the ends: the strategies divide by
\* what a threshold leaves of its scale, and a zero there raises (_score).
ASSUME RosterAssumption ==
  /\ DOMAIN Roster.config \subseteq StrategyNames
  /\ DOMAIN Roster.config # {}
  /\ \A name \in DOMAIN Roster.config : Roster.config[name] \in StrategyConfig
  /\ \A p \in {"adxMinimum", "rocThreshold", "rsiOversold", "rsiOverbought", "maxAdx",
               "buffer", "minAge", "maxAge", "proximity"} : Roster[p] \in Int
  /\ 0 < Roster.rsiOversold /\ Roster.rsiOversold < Roster.rsiOverbought
  /\ Roster.rsiOverbought < 100
  /\ Roster.rocThreshold > 0 /\ Roster.maxAdx > 0 /\ Roster.adxMinimum < 40
  /\ Feature.fast < Feature.slow

Enabled == DOMAIN Roster.config

\* What each strategy declares about regimes.
Trending == {"TRENDING_UP", "TRENDING_DOWN"}
Preferred(name) ==
  CASE name \in {"trend_following", "momentum"} -> Trending \cup {"BREAKOUT"}
    [] name \in {"mean_reversion", "support_resistance"} -> {"RANGING", "LOW_VOLATILITY"}
    [] name = "breakout" -> {"BREAKOUT", "LOW_VOLATILITY"}
Avoided(name) ==
  CASE name = "trend_following" -> {"RANGING", "HIGH_VOLATILITY"}
    [] name = "momentum" -> {"RANGING"}
    [] name = "mean_reversion" -> Trending \cup {"BREAKOUT", "HIGH_VOLATILITY"}
    [] name = "breakout" -> {"HIGH_VOLATILITY"}
    [] name = "support_resistance" -> Trending \cup {"BREAKOUT"}

\* The part of every score that the regime gives.
RegimeScore(name, regime, hostile) ==
  IF regime.regime \in Preferred(name) THEN 50 + regime.confidence \div 2
  ELSE IF regime.regime \in Avoided(name) THEN hostile ELSE 50

Share(part, whole) == (100 * part) \div whole
Capped(x) == Min({x, 100})
Has(row, fields) == \A f \in fields : Known(row[f])

---------------------------------------------------------------------------
(* Signals *)

Side(up) == IF up THEN "LONG" ELSE "SHORT"
Toward(dir) == IF dir = "LONG" THEN 1 ELSE -1
\* The price that lies percent of an ATR ahead of the price in the direction.
Ahead(dir, price, percent, row) ==
  price + Toward(dir) * ((percent * row.atr) \div 10000)

Signal(dir, confidence, entry, stop, target) ==
  [dir |-> dir, confidence |-> Max({0, Min({confidence, 100})}),
   entry |-> entry, stop |-> stop, target |-> target]

\* Signal.__post_init__: the levels are in order around a positive entry.
WellFormed(s) ==
  /\ s.entry > 0 /\ s.stop > 0
  /\ Toward(s.dir) * (s.entry - s.stop) > 0
  /\ Toward(s.dir) * (s.target - s.entry) > 0
NoStop == Signal("LONG", 0, 0, 0, 0)

---------------------------------------------------------------------------
(* The strategies.  Each Proposal is a guard and the signal behind it.        *)

Config(name) == Roster.config[name]
StopAt(name, dir, price, row) == Ahead(dir, price, -Config(name).stop, row)
TargetAt(name, dir, bar, row) == Ahead(dir, bar.close, Config(name).target, row)

\* The crossing of two averages on the same side of the long-term filter.  Without
\* an ATR there is no stop, which raises.
TrendFollowing(row, bar, regime) ==
  LET up == row.fast > row.slow /\ 100 * bar.close > row.filter
      down == row.fast < row.slow /\ 100 * bar.close < row.filter
      dir == Side(up)
      strength == IF row.adx > Roster.adxMinimum
                  THEN Capped(Share(row.adx - Roster.adxMinimum, 40 - Roster.adxMinimum))
                  ELSE 0
      score == 40 * strength
               + 25 * Capped(Share(Gap(row.fast, row.slow), 2 * row.atr))
               + 35 * RegimeScore("trend_following", regime, 20)
  IN IF ~Has(row, {"fast", "slow", "filter", "adx"}) THEN {}
     ELSE IF row.adx < Roster.adxMinimum \/ ~(up \/ down) THEN {}
     ELSE IF ~Known(row.atr) \/ row.atr <= 0 THEN {NoStop}
     ELSE {Signal(dir, score \div 100, bar.close,
                  StopAt("trend_following", dir, bar.close, row),
                  TargetAt("trend_following", dir, bar, row))}

\* A decisive rate of change, confirmed by the RSI and, when required, by MACD.
Momentum(row, bar, regime) ==
  LET up == row.roc >= Roster.rocThreshold /\ row.rsi >= Roster.rsiBullFloor
      down == row.roc <= -Roster.rocThreshold /\ row.rsi <= Roster.rsiBearCeiling
      dir == Side(up)
      agrees == Known(row.hist) /\ (IF up THEN row.hist > 0 ELSE row.hist < 0)
      stretched == Capped((10 * Gap(row.rsi, 50)) \div 3)
      score == 30 * Capped((100 * Gap(row.roc, 0)) \div (3 * Roster.rocThreshold))
               + 20 * (IF row.rsi > 80 \/ row.rsi < 20 THEN (7 * stretched) \div 10
                                                      ELSE stretched)
               + 15 * (IF ~Known(row.hist) THEN 50 ELSE IF agrees THEN 100 ELSE 20)
               + 35 * RegimeScore("momentum", regime, 20)
  IN IF ~Has(row, {"roc", "rsi", "atr"}) THEN {}
     ELSE IF row.atr <= 0 \/ ~(up \/ down) \/ (Roster.requireMacd /\ ~agrees) THEN {}
     ELSE {Signal(dir, score \div 100, bar.close, StopAt("momentum", dir, bar.close, row),
                  TargetAt("momentum", dir, bar, row))}

\* An extreme outside the bands, far from the mean and with no trend; the target is
\* the mean.
MeanReversion(row, bar, regime) ==
  LET up == row.band = -1 /\ row.rsi <= Roster.rsiOversold
      down == row.band = 1 /\ row.rsi >= Roster.rsiOverbought
      dir == Side(up)
      distance == Share(Gap(100 * bar.close, row.middle), row.atr)
      extreme == IF row.rsi <= Roster.rsiOversold
                 THEN Share(Roster.rsiOversold - row.rsi, Roster.rsiOversold)
                 ELSE Share(row.rsi - Roster.rsiOverbought, 100 - Roster.rsiOverbought)
      score == 30 * Capped(extreme) + 25 * Capped(distance \div 3)
               + 15 * Larger(0, 100 - Share(row.adx, Roster.maxAdx))
               + 30 * RegimeScore("mean_reversion", regime, 10)
  IN IF ~Has(row, {"rsi", "adx", "band", "middle", "atr"}) THEN {}
     ELSE IF row.atr <= 0 \/ row.adx > Roster.maxAdx THEN {}
     ELSE IF regime.regime \in Trending \/ distance < Roster.minDistance THEN {}
     ELSE IF ~(up \/ down) THEN {}
     ELSE IF Toward(dir) * (row.middle - 100 * bar.close) <= 0 THEN {}
     ELSE {Signal(dir, score \div 100, bar.close,
                  StopAt("mean_reversion", dir, bar.close, row), row.middle \div 100)}

\* A fresh close beyond the channel and a buffer, out of a range that was not wide.
\* Volume that is required must confirm it, where there is any.
Breakout(row, bar, regime) ==
  LET buffer == Roster.buffer * row.atr
      up == 10000 * (bar.close - row.upper) > buffer
      down == 10000 * (row.lower - bar.close) > buffer
      dir == Side(up)
      level == IF up THEN row.upper ELSE row.lower
      excess == Share(100 * Gap(bar.close, level), row.atr)
      confirmed == Known(row.volume) /\ row.volume >= Roster.volumeMultiple
      score == 30 * (IF excess <= 200 THEN Capped(excess)
                     ELSE Larger(30, 100 - (excess - 200) \div 3))
               + 25 * (IF Known(row.consolidation) THEN Unit(150 - row.consolidation) ELSE 50)
               + 15 * (IF ~Known(row.volume) THEN 50 ELSE IF confirmed THEN 100 ELSE 30)
               + 30 * RegimeScore("breakout", regime, 25)
      behind == Ahead(dir, level, -25, row)
      far == StopAt("breakout", dir, bar.close, row)
      stop == IF dir = "LONG" THEN Min({behind, far}) ELSE Max({behind, far})
  IN IF ~Has(row, {"atr", "upper", "lower"}) THEN {}
     ELSE IF row.atr <= 0 \/ ~(up \/ down) THEN {}
     ELSE IF (up /\ ~row.freshUp) \/ (down /\ ~row.freshDown) THEN {}
     ELSE IF Known(row.consolidation) /\ row.consolidation > Roster.maxConsolidation THEN {}
     ELSE IF Roster.requireVolume /\ Known(row.volume) /\ ~confirmed THEN {}
     ELSE {Signal(dir, score \div 100, bar.close, stop, TargetAt("breakout", dir, bar, row))}

\* The part of the bar's range that is the wick away from the trade.
Rejection(bar, dir) ==
  IF bar.high <= bar.low THEN 0
  ELSE Share(IF dir = "LONG" THEN Min({bar.open, bar.close}) - bar.low
                             ELSE bar.high - Max({bar.open, bar.close}),
             bar.high - bar.low)

\* A rejection at a confirmed level on one side only, with the stop beyond it.
SupportResistance(row, bar, regime) ==
  LET near(distance, age) ==
        /\ Known(distance) /\ distance \in 0 .. Roster.proximity
        /\ age \in Roster.minAge .. Roster.maxAge
      up == near(row.toSupport, row.supportAge)
      down == near(row.toResistance, row.resistanceAge)
      dir == Side(up)
      level == IF up THEN row.support ELSE row.resistance
      age == IF up THEN row.supportAge ELSE row.resistanceAge
      position == Share(age - Roster.minAge, Larger(Roster.maxAge - Roster.minAge, 1))
      rejection == Rejection(bar, dir)
      stop == StopAt("support_resistance", dir, level, row)
      score == 40 * Capped((10 * rejection) \div 7)
               + 20 * Unit(100 - (100 * Gap(position, 35)) \div 65)
               + 40 * RegimeScore("support_resistance", regime, 15)
  IN IF ~Known(row.atr) \/ row.atr <= 0 THEN {}
     ELSE IF up = down THEN {}
     ELSE IF Roster.requireRejection /\ rejection < Roster.wickRatio THEN {}
     ELSE IF Toward(dir) * (bar.close - stop) <= 0 THEN {}
     ELSE {Signal(dir, score \div 100, bar.close, stop,
                  TargetAt("support_resistance", dir, bar, row))}

Generate(name, row, bar, regime) ==
  CASE name = "trend_following" -> TrendFollowing(row, bar, regime)
    [] name = "momentum" -> Momentum(row, bar, regime)
    [] name = "mean_reversion" -> MeanReversion(row, bar, regime)
    [] name = "breakout" -> Breakout(row, bar, regime)
    [] name = "support_resistance" -> SupportResistance(row, bar, regime)

---------------------------------------------------------------------------
\* _check_preconditions: the history is that of the whole frame the caller hands
\* over, not of the bars up to t.
MayRun(name, frame, features, t) ==
  /\ Config(name).supported
  /\ Len(frame) >= Config(name).minHistory
  /\ WarmAt(features, t)

\* generate_signal: a signal below the strategy's own floor is a WAIT.
Propose(name, frame, features, regime, t) ==
  IF ~MayRun(name, frame, features, t) THEN {}
  ELSE {s \in Generate(name, features.rows[t], frame[t], regime) :
          WellFormed(s) => s.confidence >= Config(name).minConfidence}
=============================================================================
