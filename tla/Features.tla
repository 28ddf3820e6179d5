------------------------------ MODULE Features ------------------------------
(* Confirmed market structure and the feature panel                            *)
(* (app/features/structure.py, engine.py): one row of features per bar.        *)
EXTENDS Indicators

CONSTANT Feature  \* FeatureConfig: the periods of the indicators

FeatureConfig ==
  [sma: Nat \ {0}, filter: Nat \ {0}, fast: Nat \ {0}, slow: Nat \ {0},
   slope: Nat \ {0}, adx: Nat \ {0}, rsi: Nat \ {0}, roc: Nat \ {0},
   macdFast: Nat \ {0}, macdSlow: Nat \ {0}, macdSignal: Nat \ {0},
   atr: Nat \ {0}, bb: Nat \ {0}, bbStd: Nat \ {0}, lookback: Nat \ {0},
   left: Nat \ {0}, right: Nat \ {0}, donchian: Nat \ {0}, volume: Nat \ {0},
   reliableVolume: BOOLEAN]

ASSUME FeatureAssumption ==
  Feature \in FeatureConfig /\ Feature.macdFast < Feature.macdSlow

\* How many bars before the current one must be free of a break (an argument of
\* breakout_levels that nothing overrides), and the least window of its median.
FreshnessWindow == 3
MedianWindow == Larger(3 * Feature.donchian, 20)

---------------------------------------------------------------------------
(* Swing points *)

\* Bar i of levels is a pivot high: above every bar to its left, at least as high
\* as every bar to its right.  A pivot low is a pivot high of the negated lows.
IsPivot(levels, i) ==
  /\ i > Feature.left /\ i + Feature.right <= Len(levels)
  /\ \A j \in i - Feature.left .. i - 1 : levels[i] > levels[j]
  /\ \A j \in i + 1 .. i + Feature.right : levels[i] >= levels[j]

\* The defect: a pivot is published at the bar where it occurred.
PublishedByUnconfirmed(levels, t) == {i \in 1..t : IsPivot(levels, i)}

\* The pivots published by bar t.
PublishedBy(levels, t) == {i \in 1..t - Feature.right : IsPivot(levels, i)}

\* swing_points at bar t: the last pivot, its age since it occurred, and the pivot
\* before it.
Swing(levels, t) ==
  LET pivots == PublishedBy(levels, t)
      last == Max(pivots)
      earlier == pivots \ {last}
  IN IF pivots = {} THEN [level |-> NaN, age |-> NaN, before |-> NaN]
     ELSE [level |-> levels[last], age |-> t - last,
           before |-> IF earlier = {} THEN NaN ELSE levels[Max(earlier)]]

\* trend_structure, from the swing of the highs and of the negated lows.
Structure(top, bottom) ==
  IF ~Known(top.before) \/ ~Known(bottom.before) THEN "UNCLEAR"
  ELSE IF top.level > top.before /\ bottom.level < bottom.before THEN "UPTREND"
  ELSE IF top.level < top.before /\ bottom.level > bottom.before THEN "DOWNTREND"
  ELSE "UNCLEAR"

---------------------------------------------------------------------------
(* Breakouts *)

\* donchian_channel over the bars before the current one.
Upper(frame) == Rolling(Shift(High(frame), 1), Feature.donchian, LargestOf)
Lower(frame) == Rolling(Shift(Low(frame), 1), Feature.donchian, SmallestOf)

Beyond(s, channel) == Lift(LAMBDA x, y : x > y, s, channel)
Below(s, channel) == Lift(LAMBDA x, y : x < y, s, channel)

\* The break at bar t with an intact channel over the bars before it.
Fresh(breaks, t) ==
  /\ breaks[t] = TRUE
  /\ \A j \in Larger(t - FreshnessWindow, 1) .. t - 1 : breaks[j] # TRUE

\* consolidation_ratio: the channel width against its own median, in percent.
Width(frame) == Quotient(Difference(Upper(frame), Lower(frame)), 10000, Close(frame))
Tightness(width, i) ==
  LET known == {j \in Larger(i - MedianWindow + 1, 1) .. i : Known(width[j])}
  IN IF Cardinality(known) >= Feature.donchian /\ Known(width[i])
     THEN Ratio(width[i], 100, Median(width, known)) ELSE NaN
Consolidation(frame) == LET width == Width(frame)
                        IN Series(Len(frame), LAMBDA i : Tightness(width, i))

---------------------------------------------------------------------------
(* The panel *)

\* FeatureConfig.warmup_bars.
WarmupBars ==
  Max({Feature.sma, Feature.filter, Feature.fast, Feature.slow, 2 * Feature.adx,
       2 * Feature.rsi, Feature.macdSlow + Feature.macdSignal, 2 * Feature.atr,
       Feature.bb, Feature.lookback, Feature.donchian + Feature.right,
       Feature.left + Feature.right + 1, 3 * Feature.volume})

Flipped(s) == Column(s, LAMBDA x : -x)

\* FeatureEngine.compute: the features that a decision reads, as series.  Averages and
\* the ATR are in hundredths; the lows are negated, to be read as highs are.
Columns(frame) ==
  LET close == Close(frame)
      atr == Atr(frame, Feature.atr)
      average == Sma(close, Feature.sma)
      upper == Upper(frame)
      lower == Lower(frame)
  IN [close |-> close, highs |-> High(frame),
      lows |-> Flipped(Low(frame)),
      atr |-> atr, percentile |-> Percentile(atr, Feature.lookback),
      middle |-> Sma(close, Feature.bb),
      band |-> BandPosition(close, Feature.bb, Feature.bbStd),
      slope |-> Slope(average, Feature.slope, atr),
      filter |-> Sma(close, Feature.filter),
      fast |-> Ema(Hundredths(close), Feature.fast),
      slow |-> Ema(Hundredths(close), Feature.slow),
      adx |-> Adx(frame, Feature.adx),
      plus |-> DiPlus(frame, Feature.adx), minus |-> DiMinus(frame, Feature.adx),
      rsi |-> Rsi(close, Feature.rsi), roc |-> RateOfChange(close, Feature.roc),
      hist |-> MacdHist(close, Feature.macdFast, Feature.macdSlow, Feature.macdSignal),
      upper |-> upper, lower |-> lower,
      ups |-> Beyond(close, upper), downs |-> Below(close, lower),
      consolidation |-> Consolidation(frame),
      volume |-> IF Feature.reliableVolume THEN RelativeVolume(frame, Feature.volume)
                 ELSE NoValues(Len(frame))]

\* A price distance in percent of an ATR.
InAtrs(distance, atr) ==
  IF Known(distance) /\ Known(atr) THEN Ratio(distance, 10000, atr) ELSE NaN

\* The row of bar t.
Row(c, t) ==
  LET top == Swing(c.highs, t)
      bottom == Swing(c.lows, t)
  IN [atr |-> c.atr[t], percentile |-> c.percentile[t], middle |-> c.middle[t],
      band |-> c.band[t], slope |-> c.slope[t], filter |-> c.filter[t],
      fast |-> c.fast[t], slow |-> c.slow[t], adx |-> c.adx[t], plus |-> c.plus[t],
      minus |-> c.minus[t], rsi |-> c.rsi[t], roc |-> c.roc[t], hist |-> c.hist[t],
      resistance |-> top.level, resistanceAge |-> top.age,
      support |-> IF Known(bottom.level) THEN -bottom.level ELSE NaN,
      supportAge |-> bottom.age, structure |-> Structure(top, bottom),
      toResistance |->
        InAtrs(IF Known(top.level) THEN top.level - c.close[t] ELSE NaN, c.atr[t]),
      toSupport |->
        InAtrs(IF Known(bottom.level) THEN c.close[t] + bottom.level ELSE NaN, c.atr[t]),
      upper |-> c.upper[t], lower |-> c.lower[t],
      freshUp |-> Fresh(c.ups, t), freshDown |-> Fresh(c.downs, t),
      consolidation |-> c.consolidation[t], volume |-> c.volume[t]]

Rows(frame) == LET c == Columns(frame) IN Series(Len(frame), LAMBDA t : Row(c, t))

Compute(frame) == [rows |-> Rows(frame), warmup |-> Min({WarmupBars, Len(frame)})]

\* FeatureSet.upto and is_warm_at, for bar t; positions in the code count from 0.
Upto(features, t) == [features EXCEPT !.rows = SubSeq(@, 1, t)]
WarmAt(features, t) == t \in DOMAIN features.rows /\ t - 1 >= features.warmup
=============================================================================
