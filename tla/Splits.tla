------------------------------- MODULE Splits -------------------------------
(* Where a study may look (app/research/splits.py).  Bars are positions from  *)
(* 0 as in the source; a SplitError is the empty set, a result the set of it. *)
(* A segment is scored on [start, end) and given [dataStart, end).            *)
EXTENDS Integers, Sequences, FiniteSets, FiniteSetsExt

Segment(name, start, end, warmup) ==
  [name |-> name, start |-> start, end |-> end, dataStart |-> Max({0, start - warmup})]

BarsOf(segment)   == segment.end - segment.start
WarmupOf(segment) == segment.start - segment.dataStart

\* mutant: the end counted in
SliceFrameInclusive(segment, series) ==
  SubSeq(series, segment.dataStart + 1, Min({segment.end + 1, Len(series)}))

\* slice_frame: the warm-up prefix and the window, as a sequence
SliceFrame(segment, series) == SubSeq(series, segment.dataStart + 1, segment.end)

\* the scored bars alone, as window_fingerprint selects them by their times
ScoredBars(segment, series) == SubSeq(series, segment.start + 1, segment.end)

ScoredPositions(segment) == segment.start .. segment.end - 1

\* no two windows in order of their starts overlap
TemporallySeparate(segments) ==
  \A i, j \in DOMAIN segments :
     i # j => ScoredPositions(segments[i]) \cap ScoredPositions(segments[j]) = {}

\* resolve_embargo
Embargo(bars) == Max({0, bars})

(* chronological_split: o.fractions are integer proportions                   *)
Tradable(n, o) == n - (o.warmup + 2 * Embargo(o.embargo))

SplitSizes(n, o) ==
  LET total   == o.fractions[1] + o.fractions[2] + o.fractions[3]
      size(i) == (Tradable(n, o) * o.fractions[i]) \div total
  IN  <<size(1), size(2), Tradable(n, o) - size(1) - size(2)>>

ChronologicalSplit(n, o) ==
  LET size    == SplitSizes(n, o)
      start   == [i \in 1 .. 3 |-> o.warmup + (IF i > 1 THEN size[1] + Embargo(o.embargo) ELSE 0)
                                            + (IF i > 2 THEN size[2] + Embargo(o.embargo) ELSE 0)]
      names   == <<"in_sample", "validation", "out_of_sample">>
      windows == [i \in 1 .. 3 |-> Segment(names[i], start[i], start[i] + size[i], o.warmup)]
  IN  IF Tradable(n, o) >= 3 /\ \A i \in 1 .. 3 : size[i] > 0 /\ size[i] >= o.minSegment
      THEN {w \in {windows} : TemporallySeparate(w)}
      ELSE {}

(* walk_forward_folds: a step or a limit of 0 is the None it may be           *)
Step(g) == IF g.step = 0 THEN g.test ELSE g.step

\* mutant: the test window opens where the training window closes
AdjacentFold(i, g) ==
  LET trainStart == g.warmup + (i - 1) * Step(g)
      trainEnd   == trainStart + g.train
  IN  [train |-> Segment(<<"train", i>>, IF g.anchored THEN g.warmup ELSE trainStart,
                         trainEnd, g.warmup),
       test  |-> Segment(<<"test", i>>, trainEnd, trainEnd + g.test, g.warmup)]

Fold(i, g) ==
  LET trainStart == g.warmup + (i - 1) * Step(g)
      trainEnd   == trainStart + g.train
      testStart  == trainEnd + Embargo(g.embargo)
  IN  [train |-> Segment(<<"train", i>>, IF g.anchored THEN g.warmup ELSE trainStart,
                         trainEnd, g.warmup),
       test  |-> Segment(<<"test", i>>, testStart, testStart + g.test, g.warmup)]

WalkForwardFolds(n, g) ==
  LET needed == g.warmup + g.train + Embargo(g.embargo) + g.test
      fitting == (n - needed) \div Step(g) + 1
      count   == IF g.maxFolds = 0 THEN fitting ELSE Min({fitting, g.maxFolds})
      folds   == [i \in 1 .. count |-> Fold(i, g)]
  IN  IF g.train > 0 /\ g.test > 0 /\ n >= needed
      THEN {f \in {folds} : TemporallySeparate([i \in DOMAIN f |-> f[i].test])}
      ELSE {}

\* suggest_walk_forward_geometry: the fraction is in percent
SuggestGeometry(n, warmup, wanted, percent) ==
  LET folds  == Max({1, wanted})
      usable == Max({0, n - warmup})
      test   == Max({1, (usable * percent) \div (100 * folds)})
  IN  IF usable < folds * 4
      THEN {}
      ELSE {[train |-> Max({1, usable - test * folds}), test |-> test]}
=============================================================================
