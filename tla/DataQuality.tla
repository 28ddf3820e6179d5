---------------------------- MODULE DataQuality ----------------------------
(* DataQualityEngine: the grade of a series, the worst finding of its checks. *)
(* Ratios are in thousandths; `Quality` holds the thresholds of the           *)
(* configuration and the literals of the checks.                              *)
EXTENDS OhlcvFrames

CONSTANT Quality

Pass == 0
Warning == 1
Fail == 2
Grades == {Pass, Warning, Fail}

Limit == [warn : 0..1000, fail : 0..1000]

ASSUME QualityAssumption ==
  /\ Quality.missing \in Limit /\ Quality.duplicate \in Limit
  /\ Quality.invalid \in Limit /\ Quality.repaired \in Limit
  /\ Quality.jump \in Limit
  /\ \A limit \in {Quality.missing, Quality.duplicate, Quality.invalid,
                   Quality.repaired, Quality.jump} : limit.warn <= limit.fail
  /\ Quality.minRowsFail \in Nat /\ Quality.minRowsWarn \in Nat
  /\ Quality.minRowsFail <= Quality.minRowsWarn
  /\ Quality.gapTolerance \in Nat \ {0, 1}
  /\ Quality.jumpRows \in Nat /\ Quality.staleAge \in Nat
  /\ Quality.daily \in BOOLEAN /\ Quality.reliableVolume \in BOOLEAN
  /\ Quality.failOnFail \in BOOLEAN

\* _grade of the ratio count / total
GradeRatio(count, total, limit) ==
  CASE count * 1000 > limit.fail * total -> Fail
    [] count * 1000 > limit.warn * total -> Warning
    [] OTHER -> Pass

\* The bars some row of which is of one of the kinds, and those all of whose
\* rows are.
Touched(bars, kinds) ==
  Cardinality({i \in DOMAIN bars : \E row \in bars[i].parts : row.kind \in kinds})
Made(bars, kinds) ==
  Cardinality({i \in DOMAIN bars : \A row \in bars[i].parts : row.kind \in kinds})

CheckRowCount(bars) ==
  CASE Len(bars) < Quality.minRowsFail -> Fail
    [] Len(bars) < Quality.minRowsWarn -> Warning
    [] OTHER -> Pass

Opens(bars) == {bars[i].open : i \in DOMAIN bars}

CheckIndex(bars) ==
  IF \E i \in 2..Len(bars) : bars[i].open < bars[i-1].open
  THEN Fail
  ELSE LET duplicates == Len(bars) - Cardinality(Opens(bars))
       IN GradeRatio(duplicates, Len(bars), Quality.duplicate)

CheckMissingValues(bars) ==
  GradeRatio(Touched(bars, {"incomplete"}), Len(bars), Quality.missing)

CheckPriceValidity(bars) ==
  IF Touched(bars, {"worthless"}) > 0 THEN Fail ELSE Pass

CheckOhlcConsistency(bars) ==
  GradeRatio(Touched(bars, {"inverted", "wick"}), Len(bars), Quality.invalid)

\* The distances between successive bars.
Deltas(bars) == [i \in 1..(Len(bars) - 1) |-> bars[i+1].open - bars[i].open]

\* Twice the median, so that it stays an integer.
TwiceMedian(values) ==
  LET sorted == SortSeq(values, <)
      n == Len(values)
  IN sorted[(n + 1) \div 2] + sorted[n \div 2 + 1]

\* Bars lost inside a session: a distance of two or three intervals.  A wider
\* one is a session break.
MissingIntraday(bars, width) ==
  SumFunction([i \in 1..(Len(bars) - 1) |->
            LET delta == Deltas(bars)[i]
            IN IF 2 * delta > 3 * width /\ 2 * delta <= 7 * width
               THEN (2 * delta + width) \div (2 * width) - 1
               ELSE 0])

MissingDaily(bars, width) ==
  LET expected == (Last(bars).open - bars[1].open) \div width + 1
  IN IF expected > Cardinality(Opens(bars)) THEN expected - Cardinality(Opens(bars)) ELSE 0

LargeGaps(bars) ==
  \E i \in DOMAIN Deltas(bars) :
    2 * Deltas(bars)[i] > Quality.gapTolerance * TwiceMedian(Deltas(bars))

CheckGapsAndMissing(bars, width) ==
  IF Len(bars) < 3 THEN Pass
  ELSE LET missing == IF Quality.daily THEN MissingDaily(bars, width)
                                       ELSE MissingIntraday(bars, width)
           lost == GradeRatio(missing, Len(bars) + missing, Quality.missing)
       IN IF lost = Pass /\ LargeGaps(bars) THEN Warning ELSE lost

\* The median absolute deviation is zero when most bars repeat the price.
CheckPriceJumps(bars) ==
  IF Len(bars) < Quality.jumpRows \/ Len(bars) < 2 \/ 2 * Made(bars, {"flat"}) > Len(bars)
  THEN Pass
  ELSE GradeRatio(Touched(bars, {"spike"}), Len(bars) - 1, Quality.jump)

CheckStaleBars(bars) ==
  IF 1000 * Made(bars, {"flat"}) > 50 * Len(bars) THEN Warning ELSE Pass

\* A window has no volume when every one of its rows lacks it.
CheckVolume(bars) ==
  CASE ~Quality.reliableVolume -> Pass
    [] Made(bars, {"unmeasured"}) = Len(bars) -> Warning
    [] Touched(bars, {"negative"}) > 0 -> Fail
    [] 1000 * Made(bars, {"untraded", "unmeasured"}) > 100 * Len(bars) -> Warning
    [] OTHER -> Pass

CheckFreshness(bars, width, now) ==
  LET slack == IF 5 * width > Quality.staleAge THEN 5 * width ELSE Quality.staleAge
  IN IF now - Last(bars).open > slack THEN Warning ELSE Pass

\* The counts are those of the frame that was cleaned, the total is the number
\* of bars that are graded.
CheckRepairs(bars, cleaning) ==
  LET repairs == GradeRatio(cleaning.repaired, Len(bars), Quality.repaired)
      losses == GradeRatio(cleaning.dropped, Len(bars) + cleaning.dropped, Quality.missing)
  IN IF repairs > losses THEN repairs ELSE losses

\* validate: the worst of the findings.
Grade(bars, width, cleaning, now) ==
  IF bars = <<>> THEN Fail
  ELSE Max({CheckRowCount(bars), CheckIndex(bars), CheckMissingValues(bars),
            CheckPriceValidity(bars), CheckOhlcConsistency(bars),
            CheckGapsAndMissing(bars, width), CheckPriceJumps(bars),
            CheckStaleBars(bars), CheckVolume(bars),
            CheckFreshness(bars, width, now), CheckRepairs(bars, cleaning)})
=============================================================================
