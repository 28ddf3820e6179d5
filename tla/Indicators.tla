----------------------------- MODULE Indicators -----------------------------
(* Series and the indicators over them (app/features/indicators.py, volume.py).*)
(*                                                                             *)
(* Prices are integers.  Averages of prices are kept in hundredths, ratios in  *)
(* percent, the rate of change in basis points.  A series has one element for  *)
(* every bar of a frame; NaN marks a bar for which there is no value yet.      *)
EXTENDS Integers, Sequences, FiniteSetsExt, SequencesExt

CONSTANT NaN  \* the missing value

ASSUME NaNAssumption == NaN \notin Int

---------------------------------------------------------------------------
(* Series *)

Known(x) == x # NaN
Larger(x, y) == IF x > y THEN x ELSE y
Gap(x, y) == Larger(x - y, y - x)
Ratio(x, scale, y) == IF y = 0 THEN NaN ELSE (scale * x) \div y

\* A series is kept as a tuple.
Series(n, value(_)) == [i \in 1..n |-> value(i)] \o <<>>

NoValues(n) == Series(n, LAMBDA i : NaN)

Lift(op(_, _), s, u) ==
  Series(Len(s), LAMBDA i : IF Known(s[i]) /\ Known(u[i]) THEN op(s[i], u[i]) ELSE NaN)

Difference(s, u) == Lift(LAMBDA x, y : x - y, s, u)
Quotient(s, scale, u) == Lift(LAMBDA x, y : Ratio(x, scale, y), s, u)

Shift(s, k) == Series(Len(s), LAMBDA i : IF i > k THEN s[i - k] ELSE NaN)
Change(s, k) == Difference(s, Shift(s, k))

\* rolling(window, min_periods = window): the whole window must be known.
Rolling(s, window, value(_)) ==
  Series(Len(s), LAMBDA i :
    IF i >= window /\ \A j \in i - window + 1 .. i : Known(s[j])
    THEN value(SubSeq(s, i - window + 1, i)) ELSE NaN)

Sum(s) == SumFunction(s)
SmallestOf(s) == Min(ToSet(s))
LargestOf(s) == Max(ToSet(s))

\* The k-th smallest value at the bars, and the middle one.
Ranked(s, bars, k) ==
  CHOOSE x \in {s[j] : j \in bars} :
    /\ Cardinality({j \in bars : s[j] < x}) < k
    /\ Cardinality({j \in bars : s[j] <= x}) >= k
Median(s, bars) ==
  LET n == Cardinality(bars)
  IN (Ranked(s, bars, (n + 1) \div 2) + Ranked(s, bars, n \div 2 + 1)) \div 2

\* ewm(alpha = num/den, adjust = False, min_periods = least).  Series with no
\* value start late but have no gaps afterwards.
Smooth(s, num, den, least) ==
  LET level[i \in 1..Len(s)] ==
        IF ~Known(s[i]) THEN NaN
        ELSE LET last == IF i = 1 THEN NaN ELSE level[i - 1]
             IN IF Known(last) THEN ((den - num) * last + num * s[i]) \div den ELSE s[i]
      seen(i) == Cardinality({j \in 1..i : Known(s[j])})
  IN Series(Len(s), LAMBDA i : IF seen(i) >= least THEN level[i] ELSE NaN)

Sma(s, period) == Rolling(s, period, LAMBDA w : (100 * Sum(w)) \div period)
\* ema and wilder_smooth of a series in hundredths.
Ema(s, period) == Smooth(s, 2, period + 1, period)
Wilder(s, period) == Smooth(s, 1, period, period)

Column(frame, value(_)) == Series(Len(frame), LAMBDA i : value(frame[i]))
Close(frame) == Column(frame, LAMBDA bar : bar.close)
High(frame) == Column(frame, LAMBDA bar : bar.high)
Low(frame) == Column(frame, LAMBDA bar : bar.low)
Volume(frame) == Column(frame, LAMBDA bar : bar.volume)
Scaled(s, k) == Column(s, LAMBDA x : IF Known(x) THEN k * x ELSE NaN)
Hundredths(s) == Scaled(s, 100)

---------------------------------------------------------------------------
(* Indicators *)

\* true_range: the first bar has no previous close.
RangeFrom(previous, bar) ==
  Max({bar.high - bar.low, Gap(bar.high, previous.close), Gap(bar.low, previous.close)})
TrueRange(frame) ==
  Series(Len(frame), LAMBDA i :
    IF i = 1 THEN frame[i].high - frame[i].low ELSE RangeFrom(frame[i-1], frame[i]))

Atr(frame, period) == Wilder(Hundredths(TrueRange(frame)), period)

\* adx: a move counts for the side that clearly dominates the bar.
DirectionalMove(frame, this(_, _), other(_, _)) ==
  Series(Len(frame), LAMBDA i :
    IF i > 1 /\ this(frame[i], frame[i-1]) > Larger(other(frame[i], frame[i-1]), 0)
    THEN 100 * this(frame[i], frame[i-1]) ELSE 0)
UpMove(bar, previous) == bar.high - previous.high
DownMove(bar, previous) == previous.low - bar.low
DirectionalIndex(frame, moves, period) ==
  Quotient(Wilder(moves, period), 100, Atr(frame, period))
DiPlus(frame, period) ==
  DirectionalIndex(frame, DirectionalMove(frame, UpMove, DownMove), period)
DiMinus(frame, period) ==
  DirectionalIndex(frame, DirectionalMove(frame, DownMove, UpMove), period)
Imbalance(plus, minus) ==
  Lift(LAMBDA x, y : Ratio(Gap(x, y), 100, x + y), plus, minus)
Adx(frame, period) ==
  Wilder(Imbalance(DiPlus(frame, period), DiMinus(frame, period)), period)

\* rsi: pure gains are 100, no move at all is 50.
Gains(changes, sign) ==
  Column(changes, LAMBDA d : IF Known(d) THEN 100 * Larger(sign * d, 0) ELSE NaN)
Strength(gains, losses) ==
  Lift(LAMBDA gain, loss : IF gain + loss = 0 THEN 50 ELSE (100 * gain) \div (gain + loss),
       gains, losses)
Rsi(close, period) ==
  Strength(Wilder(Gains(Change(close, 1), 1), period),
           Wilder(Gains(Change(close, 1), -1), period))

\* macd: only the histogram is read.
MacdHist(close, fast, slow, signal) ==
  LET line == Difference(Ema(Hundredths(close), fast), Ema(Hundredths(close), slow))
  IN Difference(line, Ema(line, signal))

RateOfChange(close, period) ==
  Quotient(Change(close, period), 10000, Shift(close, period))

\* bollinger_bands: %B is at most 0 on and below the lower band and at least 1 on
\* and above the upper one, and has no value when the bands coincide.  Only that is
\* read.  The sums avoid the square root of the variance.
Position(w, period, std) ==
  LET total == Sum(w)
      stretch == period * w[period] - total
      variance == period * Sum([i \in DOMAIN w |-> w[i] * w[i]]) - total * total
      outside == stretch * stretch >= std * std * variance
  IN IF variance = 0 THEN NaN
     ELSE IF ~outside THEN 0 ELSE IF stretch < 0 THEN -1 ELSE 1
BandPosition(close, period, std) ==
  Rolling(close, period, LAMBDA w : Position(w, period, std))

\* rolling_percentile: the average rank of the newest value, in percent.
Rank(w, window) ==
  LET below == Cardinality({j \in DOMAIN w : w[j] < w[window]})
      equal == Cardinality({j \in DOMAIN w : w[j] = w[window]})
  IN (200 * below + 100 * (equal + 1)) \div (2 * window)
Percentile(s, window) == Rolling(s, window, LAMBDA w : Rank(w, window))

\* slope, normalised by the ATR: percent of an ATR per bar.
Slope(average, period, atr) ==
  Quotient(Change(average, period), 100, Scaled(atr, period))

\* relative_volume, with the rule of volume_features that a series without any
\* volume has none: percent of the average of the bars before.
RelativeVolume(frame, period) ==
  LET volume == Volume(frame)
  IN IF \A i \in DOMAIN volume : volume[i] = 0
     THEN NoValues(Len(frame))
     ELSE Quotient(volume, 10000, Sma(Shift(volume, 1), period))
=============================================================================
