------------------------------ MODULE Regimes -------------------------------
(* The regime detector (app/regimes/detector.py): what kind of market is bar   *)
(* t?  Confidence, trend strength and percentiles are in percent.              *)
EXTENDS Features

CONSTANT Regime  \* RegimeConfig

RegimeConfig ==
  [adxTrending: Nat \ {0}, adxRanging: Nat \ {0}, slope: Nat,
   highVolatility: 1..99, lowVolatility: 1..99, minConfidence: 0..100]

ASSUME RegimeAssumption ==
  /\ Regime \in RegimeConfig
  /\ Regime.adxRanging <= Regime.adxTrending
  /\ Regime.lowVolatility < Regime.highVolatility

RegimeTypes == {"TRENDING_UP", "TRENDING_DOWN", "RANGING", "HIGH_VOLATILITY",
                "LOW_VOLATILITY", "BREAKOUT", "UNCERTAIN"}

Unit(x) == Max({0, Min({x, 100})})
\* _blend: scores, each clipped to the unit interval, with weights that add to 100.
Blend(parts) == Sum([i \in DOMAIN parts |-> Unit(parts[i][1]) * parts[i][2]]) \div 100
SignOf(x) == IF x > 0 THEN 1 ELSE IF x < 0 THEN -1 ELSE 0

UnknownRegime == [regime |-> "UNCERTAIN", confidence |-> 0]

Volatility(row) ==
  IF ~Known(row.percentile) THEN "UNKNOWN"
  ELSE IF row.percentile >= Regime.highVolatility THEN "HIGH"
  ELSE IF row.percentile <= Regime.lowVolatility THEN "LOW" ELSE "MEDIUM"

\* The directional evidence: the DI spread and the swing structure have no vote when
\* they are silent, a flat moving average votes for neither side.
Votes(row) ==
  (IF Known(row.plus) /\ Known(row.minus) /\ row.plus # row.minus
   THEN <<SignOf(row.plus - row.minus)>> ELSE <<>>)
  \o (IF ~Known(row.slope) THEN <<>>
      ELSE <<IF row.slope > Regime.slope THEN 1
             ELSE IF row.slope < -Regime.slope THEN -1 ELSE 0>>)
  \o (CASE row.structure = "UPTREND" -> <<1>>
        [] row.structure = "DOWNTREND" -> <<-1>>
        [] OTHER -> <<>>)

Direction(row) == SignOf(Sum(Votes(row)))
Agreement(row) ==
  IF Votes(row) = <<>> THEN 0 ELSE (100 * Gap(Sum(Votes(row)), 0)) \div Len(Votes(row))

Tight(row) == Known(row.consolidation) /\ row.consolidation < 100
BreaksOut(row) ==
  \/ row.freshUp /\ Direction(row) > 0
  \/ row.freshDown /\ Direction(row) < 0
Trends(row) ==
  row.adx >= Regime.adxTrending /\ Direction(row) # 0 /\ Agreement(row) >= 50
Calm(row) == 100 - (100 * row.adx) \div Regime.adxRanging

\* The label of the bar with the confidence in it, before _finalise.
Reading(row) ==
  LET reading(regime, confidence) == [regime |-> regime, confidence |-> confidence]
  IN IF BreaksOut(row)
     THEN reading("BREAKOUT",
            Blend(<<<<Agreement(row), 40>>,
                    <<(2 * Min({(100 * row.adx) \div Regime.adxTrending, 150})) \div 3, 30>>,
                    <<IF Tight(row) THEN 80 ELSE 40, 30>>>>))
     ELSE IF Trends(row)
     THEN reading(IF Direction(row) > 0 THEN "TRENDING_UP" ELSE "TRENDING_DOWN",
            Blend(<<<<Agreement(row), 45>>,
                    <<(50 * (row.adx - Regime.adxRanging)) \div Regime.adxTrending, 35>>,
                    <<2 * row.adx, 20>>>>))
     ELSE IF row.adx >= Regime.adxRanging THEN reading("UNCERTAIN", 30)
     ELSE CASE Volatility(row) = "HIGH" ->
                 reading("HIGH_VOLATILITY", Blend(<<<<Calm(row), 50>>, <<80, 50>>>>))
            [] Volatility(row) = "LOW" ->
                 reading("LOW_VOLATILITY", Blend(<<<<Calm(row), 50>>, <<80, 50>>>>))
            [] OTHER ->
                 reading("RANGING",
                   Blend(<<<<Calm(row), 60>>, <<100 - Agreement(row), 40>>>>))

\* _classify and _finalise: a label that is too weak is not asserted, its
\* confidence is kept.
Classify(row) ==
  IF ~Known(row.adx) THEN UnknownRegime
  ELSE IF Reading(row).confidence < Regime.minConfidence
       THEN [Reading(row) EXCEPT !.regime = "UNCERTAIN"]
       ELSE Reading(row)

Detect(features, t) ==
  IF WarmAt(features, t) THEN Classify(features.rows[t]) ELSE UnknownRegime
=============================================================================
