---------------------------- MODULE OhlcvFrames ----------------------------
(* Frames of bars: the canonical schema, cleaning, merging and resampling.    *)
(*                                                                            *)
(* Time counts source bars.  A row is one bar a vendor reports: the bar it    *)
(* opens (t), whether it is the second report of that bar (again), whether    *)
(* the bar had closed when it was reported (closed) and the one thing that is *)
(* the matter with it (kind).  Prices and volumes are not modelled: two rows  *)
(* are the same data when they are the same record.  A frame is the set of    *)
(* its rows; frames are sorted by time throughout, so their order is that of  *)
(* t and again.                                                               *)
EXTENDS Integers, Sequences, SequencesExt, FiniteSets

Kinds == {"sound",       \* nothing the matter
          "missing",     \* the vendor reports no row for the bar
          "twice",       \* the vendor reports the bar twice
          "undated",     \* the timestamp does not parse
          "incomplete",  \* one of open, high, low, close is missing
          "worthless",   \* a price is zero or negative
          "inverted",    \* high < low
          "wick",        \* high or low inside the body of the candle
          "flat",        \* open = high = low = close, at the previous price
          "spike",       \* the return is an outlier of the series
          "untraded",    \* volume is zero
          "unmeasured",  \* volume is not a number
          "negative"}    \* volume is negative

Times(frame) == {row.t : row \in frame}

\* The order of the rows of a frame.
After(other, row) == other.t > row.t \/ (other.t = row.t /\ other.again /\ ~row.again)

\* coerce_schema: rows whose timestamp does not parse are dropped here, before
\* anything counts them.
Coerce(frame) == {row \in frame : row.kind # "undated"}

\* Of the rows of one timestamp the last stays.
LastOfEach(frame) ==
  {row \in frame : \A other \in frame : other.t = row.t /\ other.again => row.again}

Usable(row) == row.kind \notin {"incomplete", "worthless", "inverted"}

\* The minimal correction of a row that stays.
Repaired(row) ==
  [row EXCEPT !.kind = CASE @ = "wick" -> "sound"
                         [] @ = "negative" -> "unmeasured"
                         [] OTHER -> @]

\* clean_ohlcv: the rows that stay, and the counts of its report.
CleanOhlcv(frame) ==
  LET kept == {row \in LastOfEach(frame) : Usable(row)}
  IN [rows |-> {Repaired(row) : row \in kept},
      dropped |-> Cardinality(frame) - Cardinality(kept),
      repaired |-> Cardinality({row \in kept : row.kind = "wick"})]

\* The defect: cached rows win.
MergeKeepsCached(cached, fresh) ==
  LastOfEach(cached) \cup {row \in LastOfEach(fresh) : row.t \notin Times(cached)}

\* The defect: what is merged, and cached, has been cleaned already.
MergeCleans(cached, fresh) ==
  CleanOhlcv({row \in cached : row.t \notin Times(fresh)} \cup LastOfEach(fresh)).rows

\* MarketDataCache.merge: fresh rows win on overlap.
Merge(cached, fresh) ==
  IF fresh = {} THEN cached
  ELSE {row \in LastOfEach(cached) : row.t \notin Times(fresh)} \cup LastOfEach(fresh)

\* A bar of a timeframe of `width` source bars: when it opens and the rows it
\* aggregates.  Windows are closed and labelled on the left.
WindowOf(t, width) == width * (t \div width)

Resample(rows, width) ==
  {[open |-> o, parts |-> {row \in rows : WindowOf(row.t, width) = o}] :
     o \in {WindowOf(t, width) : t \in Times(rows)}}

\* best_source_timeframe, for a non-empty set of usable widths: the target
\* itself, else the coarsest that divides it, else the coarsest.
UsableSources(width, natives) == {n \in natives : n <= width}
BestSource(width, natives) ==
  LET usable == UsableSources(width, natives)
      dividing == {n \in usable : width % n = 0}
      pool == IF dividing # {} THEN dividing ELSE usable
  IN CHOOSE n \in pool : \A other \in pool : other <= n

\* A bound a request leaves open.
Unbounded == -1

WithinRequest(t, from, to) == /\ from # Unbounded => t >= from
                              /\ to # Unbounded => t <= to

\* The defect: the windows that resampling opened before the start stay.
SliceByRows(bars, from, to) ==
  {bar \in bars : \E row \in bar.parts : WithinRequest(row.t, from, to)}

\* MarketData.slice
Slice(bars, from, to) == {bar \in bars : WithinRequest(bar.open, from, to)}

\* Whether the window of a bar has ended when bar `now` is forming.
WindowEnded(bar, width, now) == bar.open + width <= now

\* The elements of a set, ordered by Later, that have fewer than `count` behind them.
LastOnes(set, count, Later(_, _)) ==
  {x \in set : Cardinality({y \in set : Later(y, x)}) < count}
LastRows(frame, count) == LastOnes(frame, count, After)
LastBars(bars, count) == LastOnes(bars, count, LAMBDA later, bar : later.open > bar.open)

\* The defect: a bar counts as complete once it has opened.
DropUnopenedBar(bars, width, now) == {bar \in bars : bar.open <= now}

\* _drop_forming_bar looks at the last bar only.
DropFormingBar(bars, width, now) ==
  {bar \in bars : bar \in LastBars(bars, 1) => WindowEnded(bar, width, now)}

\* The bars in a row, as they are graded.
InOrder(bars) == SetToSortSeq(bars, LAMBDA bar, later : bar.open < later.open)
=============================================================================
