------------------------ MODULE ValidationStudyProofs ------------------------
(* Validation studies that share a ledger, a store and a directory of reports: *)
(* what holds of them for any number of sessions, studies and faults, whatever *)
(* the backtests return.  First, what the arithmetic of app/research/splits.py *)
(* guarantees, for every length of a series and every choice of options; and   *)
(* what the studies built on the harness can know of a series: the frame they  *)
(* were given and no more.                                                     *)
EXTENDS ValidationStudy, FiniteSetTheorems, SequenceTheorems, WellFoundedInduction, TLAPS

---------------------------------------------------------------------------
(* Frames and splits *)

\* A sequence, of whatever its elements are.
IsSeq(q) == q \in Seq({q[i] : i \in DOMAIN q})

\* The larger of two integers.
LEMMA MaxOfTwo ==
  ASSUME NEW a \in Int, NEW b \in Int
  PROVE  Max({a, b}) = IF a >= b THEN a ELSE b
<1> DEFINE m == IF a >= b THEN a ELSE b
<1>1. m \in {a, b} /\ \A y \in {a, b} : m >= y
  OBVIOUS
<1>2. \A x \in {a, b} : (\A y \in {a, b} : x >= y) => x = m
  OBVIOUS
<1> HIDE DEF m
<1>3. Max({a, b}) = m
  BY <1>1, <1>2 DEF Max
<1> QED  BY <1>3 DEF m

\* The smaller of two integers.
LEMMA MinOfTwo ==
  ASSUME NEW a \in Int, NEW b \in Int
  PROVE  Min({a, b}) = IF a <= b THEN a ELSE b
<1> DEFINE m == IF a <= b THEN a ELSE b
<1>1. m \in {a, b} /\ \A y \in {a, b} : m <= y
  OBVIOUS
<1>2. \A x \in {a, b} : (\A y \in {a, b} : x <= y) => x = m
  OBVIOUS
<1> HIDE DEF m
<1>3. Min({a, b}) = m
  BY <1>1, <1>2 DEF Min
<1> QED  BY <1>3 DEF m

\* resolve_embargo leaves what is not negative alone.
LEMMA EmbargoKept ==
  ASSUME NEW bars \in Nat
  PROVE  Embargo(bars) = bars
  BY MaxOfTwo DEF Embargo

\* A segment that starts behind its warm-up has all of it.
LEMMA SegmentWarm ==
  ASSUME NEW name, NEW start \in Int, NEW end \in Int, NEW warmup \in Nat, start >= warmup
  PROVE  /\ Segment(name, start, end, warmup).name = name
         /\ Segment(name, start, end, warmup).start = start
         /\ Segment(name, start, end, warmup).end = end
         /\ Segment(name, start, end, warmup).dataStart = start - warmup
         /\ WarmupOf(Segment(name, start, end, warmup)) = warmup
<1>1. Max({0, start - warmup}) = start - warmup
  BY MaxOfTwo
<1> QED  BY <1>1 DEF Segment, WarmupOf

(***************************** chronological_split **************************)
\* The three windows of a study: one after the other with the embargo between
\* them, each with its warm-up in front, from the first warm bar to the last.
THEOREM SplitKeepsApart ==
  ASSUME NEW n \in Nat, NEW o, o.warmup \in Nat, o.embargo \in Nat,
         \A i \in 1 .. 3 : o.fractions[i] \in Nat,
         o.fractions[1] + o.fractions[2] + o.fractions[3] > 0,
         NEW w \in ChronologicalSplit(n, o)
  PROVE  /\ DOMAIN w = 1 .. 3
         /\ w[1].name = "in_sample" /\ w[2].name = "validation" /\ w[3].name = "out_of_sample"
         /\ w[1].start = o.warmup /\ w[3].end = n
         /\ \A i \in 1 .. 2 : w[i + 1].start = w[i].end + o.embargo
         /\ \A i \in 1 .. 3 : /\ w[i].start \in Nat /\ w[i].end \in Nat /\ w[i].dataStart \in Nat
                              /\ w[i].start < w[i].end /\ w[i].end <= n
                              /\ WarmupOf(w[i]) = o.warmup /\ w[i].dataStart < w[i].end
<1> DEFINE size == SplitSizes(n, o)
           gap == Embargo(o.embargo)
           start == [i \in 1 .. 3 |-> o.warmup + (IF i > 1 THEN size[1] + gap ELSE 0)
                                              + (IF i > 2 THEN size[2] + gap ELSE 0)]
           names == <<"in_sample", "validation", "out_of_sample">>
           windows == [i \in 1 .. 3 |-> Segment(names[i], start[i], start[i] + size[i], o.warmup)]
<1>1. gap = o.embargo
  BY EmbargoKept
<1>2. /\ size[1] \in Int /\ size[2] \in Int
      /\ size[1] + size[2] + size[3] = n - (o.warmup + 2 * o.embargo)
  <2> DEFINE tradable == n - (o.warmup + 2 * o.embargo)
             total == o.fractions[1] + o.fractions[2] + o.fractions[3]
             part(i) == (tradable * o.fractions[i]) \div total
  <2>1. Tradable(n, o) = tradable
    BY <1>1 DEF Tradable
  <2>2. size = <<part(1), part(2), tradable - part(1) - part(2)>>
    BY <2>1 DEF SplitSizes
  <2>3. tradable \in Int /\ total \in Nat /\ total > 0
    OBVIOUS
  <2>4. part(1) \in Int /\ part(2) \in Int
    <3> HIDE DEF tradable, total
    <3>1. \A i \in 1 .. 3 : tradable * o.fractions[i] \in Int
      BY <2>3
    <3> QED  BY <2>3, <3>1
  <2> HIDE DEF part, size
  <2> QED  BY <2>2, <2>3, <2>4
<1> HIDE DEF size, gap
<1>3. w = windows /\ size[1] > 0 /\ size[2] > 0 /\ size[3] > 0
  BY DEF ChronologicalSplit, size, gap
<1>4. size[3] \in Int
  <2>1. size[3] = n - (o.warmup + 2 * o.embargo) - size[1] - size[2]
    BY <1>1 DEF size, gap, SplitSizes, Tradable
  <2> QED  BY <1>2, <2>1
<1>5. /\ start[1] = o.warmup /\ start[2] = o.warmup + size[1] + o.embargo
      /\ start[3] = o.warmup + size[1] + o.embargo + size[2] + o.embargo
  BY <1>1, <1>2
<1>6. \A i \in 1 .. 3 : w[i] = Segment(names[i], start[i], start[i] + size[i], o.warmup)
  BY <1>3
<1>7. DOMAIN w = 1 .. 3
  BY <1>3
<1> HIDE DEF start, names, windows
<1>8. \A i \in 1 .. 3 : start[i] \in Int /\ start[i] >= o.warmup /\ size[i] \in Int /\ size[i] > 0
  BY <1>2, <1>3, <1>4, <1>5
<1>9. \A i \in 1 .. 3 : /\ w[i].name = names[i] /\ w[i].start = start[i]
                        /\ w[i].end = start[i] + size[i] /\ w[i].dataStart = start[i] - o.warmup
                        /\ WarmupOf(w[i]) = o.warmup
  BY <1>6, <1>8, SegmentWarm
<1>10. names[1] = "in_sample" /\ names[2] = "validation" /\ names[3] = "out_of_sample"
  BY DEF names
<1> QED  BY <1>2, <1>4, <1>5, <1>7, <1>8, <1>9, <1>10

(***************************** walk_forward_folds ***************************)
\* The i-th fold starts i - 1 steps behind the warm-up.
Offset(i, g) == g.warmup + (i - 1) * Step(g)

\* Where the two halves of a fold begin and end.
LEMMA FoldParts ==
  ASSUME NEW g, g.warmup \in Nat, g.train \in Nat, g.test \in Nat, g.embargo \in Nat,
         NEW i \in Nat, Offset(i, g) \in Nat, Offset(i, g) >= g.warmup, g.anchored \in BOOLEAN
  PROVE  LET f == Fold(i, g) IN
         /\ f.train.end = Offset(i, g) + g.train /\ f.train.start \in Nat /\ f.train.dataStart \in Nat
         /\ f.train.start = IF g.anchored THEN g.warmup ELSE Offset(i, g)
         /\ f.test.start = Offset(i, g) + g.train + g.embargo
         /\ f.test.end = Offset(i, g) + g.train + g.embargo + g.test
         /\ WarmupOf(f.train) = g.warmup /\ WarmupOf(f.test) = g.warmup
<1> DEFINE a == Offset(i, g)
           first == IF g.anchored THEN g.warmup ELSE a
           train == Segment(<<"train", i>>, first, a + g.train, g.warmup)
           test == Segment(<<"test", i>>, a + g.train + g.embargo, a + g.train + g.embargo + g.test, g.warmup)
<1>1. Fold(i, g) = [train |-> train, test |-> test]
  BY EmbargoKept DEF Fold, Offset
<1>2. first \in Nat /\ first >= g.warmup
  OBVIOUS
<1> HIDE DEF first
<1>3. /\ train.start = first /\ train.end = a + g.train /\ train.dataStart = first - g.warmup
      /\ WarmupOf(train) = g.warmup
  BY <1>2, SegmentWarm
<1>4. /\ test.start = a + g.train + g.embargo /\ test.end = a + g.train + g.embargo + g.test
      /\ WarmupOf(test) = g.warmup
  BY SegmentWarm
<1> HIDE DEF train, test
<1>5. Fold(i, g).train = train /\ Fold(i, g).test = test
  BY <1>1
<1> QED  BY <1>2, <1>3, <1>4, <1>5 DEF first

\* Multiples of a step are ordered as their factors.
LEMMA Multiples ==
  ASSUME NEW a \in Nat, NEW b \in Nat, a <= b, NEW d \in Nat
  PROVE  a * d <= b * d /\ a * d \in Nat
<1>1. PICK k \in Nat : b = a + k
  <2>1. b - a \in Nat /\ b = a + (b - a)
    OBVIOUS
  <2> QED  BY <2>1
<1>2. (a + k) * d = a * d + k * d /\ k * d \in Nat /\ a * d \in Nat
  OBVIOUS
<1> QED  BY <1>1, <1>2

\* Every fold of a walk-forward keeps the embargo between its halves, has its
\* warm-up in front of both and ends within the series; and test halves follow
\* one another without sharing a bar.
THEOREM FoldsKeepApart ==
  ASSUME NEW n \in Nat, NEW g, g.warmup \in Nat, g.train \in Int, g.test \in Int, g.embargo \in Nat,
         g.step \in Nat, g.maxFolds \in Nat, g.anchored \in BOOLEAN, NEW f \in WalkForwardFolds(n, g)
  PROVE  /\ IsSeq(f) /\ Len(f) > 0
         /\ \A i \in DOMAIN f :
               /\ f[i].test.start >= f[i].train.end + g.embargo /\ f[i].test.end <= n
               /\ f[i].train.end <= n /\ f[i].train.end \in Nat /\ f[i].train.dataStart \in Nat
               /\ WarmupOf(f[i].train) = g.warmup /\ WarmupOf(f[i].test) = g.warmup
               /\ \A j \in 1 .. i - 1 : f[j].test.end <= f[i].test.start
<1> DEFINE needed == g.warmup + g.train + Embargo(g.embargo) + g.test
           step == Step(g)
           fitting == (n - needed) \div step + 1
           count == IF g.maxFolds = 0 THEN fitting ELSE Min({fitting, g.maxFolds})
           folds == [i \in 1 .. count |-> Fold(i, g)]
<1>1. /\ f = folds /\ g.train > 0 /\ g.test > 0 /\ n >= needed
      /\ TemporallySeparate([i \in DOMAIN f |-> f[i].test])
  BY DEF WalkForwardFolds
<1>2. Embargo(g.embargo) = g.embargo
  BY EmbargoKept
<1>3. step \in Nat /\ step > 0
  <2>1. g.test \in Nat /\ g.test > 0 /\ (g.step # 0 => g.step > 0)
    BY <1>1
  <2>2. step = IF g.step = 0 THEN g.test ELSE g.step
    BY DEF Step
  <2> HIDE DEF step
  <2> QED  BY <2>1, <2>2
<1>4. PICK room \in Nat : room = n - needed
  BY <1>1, <1>2
<1> HIDE DEF step
<1>5. PICK q \in Nat : q = room \div step /\ q * step <= room
  <2>1. room \div step \in Nat /\ (room \div step) * step <= room
    BY <1>3
  <2> QED  BY <2>1
<1>6. fitting = q + 1
  BY <1>4, <1>5
<1> HIDE DEF fitting, needed
<1>7. count \in Nat /\ count <= q + 1 /\ count > 0
  <2>1. fitting \in Nat /\ fitting > 0
    BY <1>6
  <2>2. Min({fitting, g.maxFolds}) = IF fitting <= g.maxFolds THEN fitting ELSE g.maxFolds
    BY <2>1, MinOfTwo
  <2> QED  BY <1>6, <2>1, <2>2
<1> HIDE DEF count
<1>8. DOMAIN f = 1 .. count /\ \A i \in DOMAIN f : f[i] = Fold(i, g)
  BY <1>1
<1>9. ASSUME NEW i \in DOMAIN f
      PROVE  /\ i \in Nat /\ i >= 1 /\ Offset(i, g) \in Nat /\ Offset(i, g) >= g.warmup
             /\ Offset(i, g) <= g.warmup + room
  <2>1. i \in Nat /\ i >= 1 /\ i - 1 \in Nat /\ i - 1 <= q
    BY <1>7, <1>8, <1>9
  <2>2. (i - 1) * step <= q * step /\ (i - 1) * step \in Nat
    BY <1>3, <2>1, Multiples
  <2>3. Offset(i, g) = g.warmup + (i - 1) * step
    BY DEF Offset, step
  <2>4. PICK x \in Nat, y \in Nat : x = (i - 1) * step /\ y = q * step /\ x <= y /\ y <= room
    BY <1>3, <1>5, <2>2
  <2> QED  BY <2>1, <2>3, <2>4
<1>10. ASSUME NEW i \in DOMAIN f
       PROVE  /\ f[i].train.end = Offset(i, g) + g.train
              /\ f[i].train.start \in Nat /\ f[i].train.dataStart \in Nat
              /\ f[i].test.start = Offset(i, g) + g.train + g.embargo
              /\ f[i].test.end = Offset(i, g) + g.train + g.embargo + g.test
              /\ WarmupOf(f[i].train) = g.warmup /\ WarmupOf(f[i].test) = g.warmup
  <2>1. g.train \in Nat /\ g.test \in Nat
    BY <1>1
  <2>2. f[i] = Fold(i, g)
    BY <1>8
  <2>3. i \in Nat /\ Offset(i, g) \in Nat /\ Offset(i, g) >= g.warmup
    BY <1>9
  <2>4. LET x == Fold(i, g) IN
         /\ x.train.end = Offset(i, g) + g.train /\ x.train.start \in Nat /\ x.train.dataStart \in Nat
         /\ x.test.start = Offset(i, g) + g.train + g.embargo
         /\ x.test.end = Offset(i, g) + g.train + g.embargo + g.test
         /\ WarmupOf(x.train) = g.warmup /\ WarmupOf(x.test) = g.warmup
    BY <2>1, <2>3, FoldParts
  <2> QED  BY <2>2, <2>4
<1>11. n = g.warmup + g.train + g.embargo + g.test + room
  BY <1>2, <1>4 DEF needed
<1>12. PICK train \in Nat, test \in Nat, gap \in Nat, warmup \in Nat :
         /\ train = g.train /\ test = g.test /\ gap = g.embargo /\ warmup = g.warmup
         /\ test > 0
  <2>1. g.train \in Nat /\ g.test \in Nat /\ g.test > 0
    BY <1>1
  <2> QED  BY <2>1
<1>13. ASSUME NEW i \in DOMAIN f, NEW j \in 1 .. i - 1
       PROVE  f[j].test.end <= f[i].test.start
  <2>1. j \in DOMAIN f /\ i \in Nat /\ j \in Nat /\ j < i
    BY <1>7, <1>8
  <2>2. Offset(j, g) <= Offset(i, g)
    <3>1. j - 1 \in Nat /\ i - 1 \in Nat /\ j - 1 <= i - 1
      BY <1>9, <2>1
    <3>2. (j - 1) * step <= (i - 1) * step /\ (j - 1) * step \in Nat /\ (i - 1) * step \in Nat
      BY <1>3, <3>1, Multiples
    <3>3. PICK x \in Nat, y \in Nat : x = (j - 1) * step /\ y = (i - 1) * step /\ x <= y
      BY <3>2
    <3>4. Offset(j, g) = g.warmup + x /\ Offset(i, g) = g.warmup + y
      BY <3>3 DEF Offset, step
    <3> QED  BY <3>3, <3>4
  <2>3. ScoredPositions(f[j].test) \cap ScoredPositions(f[i].test) = {}
    <3> DEFINE tests == [k \in DOMAIN f |-> f[k].test]
    <3>1. TemporallySeparate(tests)
      BY <1>1
    <3>2. tests[i] = f[i].test /\ tests[j] = f[j].test /\ i \in DOMAIN tests /\ j \in DOMAIN tests /\ i # j
      BY <2>1
    <3> HIDE DEF tests
    <3> QED  BY <3>1, <3>2 DEF TemporallySeparate
  <2> DEFINE a == f[j].test.start
             b == f[j].test.end
             c == f[i].test.start
             d == f[i].test.end
  <2>4. a \in Int /\ b \in Int /\ c \in Int /\ d \in Int /\ a <= c /\ c < d
    <3>1. PICK x \in Nat, y \in Nat : x = Offset(j, g) /\ y = Offset(i, g) /\ x <= y
      BY <1>9, <2>1, <2>2
    <3>2. a = x + train + gap /\ b = x + train + gap + test
      BY <1>10, <1>12, <2>1, <3>1
    <3>3. c = y + train + gap /\ d = y + train + gap + test
      BY <1>10, <1>12, <3>1
    <3> HIDE DEF a, b, c, d
    <3> QED  BY <1>12, <3>1, <3>2, <3>3
  <2>5. ScoredPositions(f[j].test) = a .. b - 1 /\ ScoredPositions(f[i].test) = c .. d - 1
    BY DEF ScoredPositions
  <2> HIDE DEF a, b, c, d
  <2>6. b <= c
    <3> SUFFICES ASSUME ~(b <= c) PROVE FALSE
      OBVIOUS
    <3>1. c \in a .. b - 1 /\ c \in c .. d - 1
      BY <2>4
    <3> QED  BY <2>3, <2>5, <3>1
  <2> QED  BY <2>6 DEF b, c
<1>14. IsSeq(f) /\ Len(f) > 0
  <2> DEFINE halves == {f[i] : i \in DOMAIN f}
  <2>1. f \in [1 .. count -> halves]
    BY <1>1, <1>8
  <2> HIDE DEF halves
  <2>2. f \in Seq(halves)
    BY <1>7, <2>1, SeqDef
  <2>3. Len(f) = count
    BY <1>7, <1>8, <2>2
  <2> QED  BY <1>7, <2>2, <2>3 DEF halves, IsSeq
<1> QED
  <2> SUFFICES ASSUME NEW i \in DOMAIN f
               PROVE  /\ f[i].test.start >= f[i].train.end + g.embargo /\ f[i].test.end <= n
                      /\ f[i].train.end <= n /\ f[i].train.end \in Nat
    BY <1>10, <1>13, <1>14
  <2>1. PICK x \in Nat : x = Offset(i, g) /\ x >= g.warmup /\ x <= g.warmup + room
    BY <1>9
  <2>2. PICK t, u, v : t = f[i].train.end /\ u = f[i].test.start /\ v = f[i].test.end
    OBVIOUS
  <2>3. t = x + train /\ u = x + train + gap /\ v = x + train + gap + test
    BY <1>10, <1>12, <2>1, <2>2
  <2>4. n = warmup + train + gap + test + room /\ x <= warmup + room
    BY <1>11, <1>12, <2>1
  <2>5. u >= t + gap /\ v <= n /\ t <= n /\ t \in Nat
    BY <2>3, <2>4
  <2> QED  BY <1>12, <2>2, <2>5

\* A suggested geometry has both halves.
LEMMA SuggestedSizes ==
  ASSUME NEW n \in Nat, NEW warmup \in Nat, NEW wanted \in Nat, NEW percent \in Nat,
         NEW z \in SuggestGeometry(n, warmup, wanted, percent)
  PROVE  z.train \in Nat /\ z.train > 0 /\ z.test \in Nat /\ z.test > 0
<1>1. PICK folds \in Nat : folds = Max({1, wanted}) /\ folds > 0
  BY MaxOfTwo
<1>2. PICK usable \in Nat : usable = Max({0, n - warmup})
  BY MaxOfTwo
<1>3. PICK part \in Int : part = (usable * percent) \div (100 * folds)
  <2>1. usable * percent \in Int /\ 100 * folds \in Nat /\ 100 * folds > 0
    BY <1>1
  <2>2. \A x \in Int, y \in Nat : y > 0 => x \div y \in Int
    OBVIOUS
  <2> QED  BY <2>1, <2>2
<1>4. PICK test \in Nat : test = Max({1, part}) /\ test > 0
  BY <1>3, MaxOfTwo
<1>5. PICK rest \in Int : rest = usable - test * folds
  OBVIOUS
<1>6. PICK train \in Nat : train = Max({1, rest}) /\ train > 0
  BY <1>5, MaxOfTwo
<1>7. z = [train |-> train, test |-> test]
  BY <1>1, <1>2, <1>3, <1>4, <1>5, <1>6 DEF SuggestGeometry
<1> QED  BY <1>4, <1>6, <1>7

(***************************** the frame of a window ************************)
\* The value a definition picks from a set, as an operator of the set.
AnyOf(S) == CHOOSE x \in S : TRUE

\* Runs on series that show a window the same frame are the same.
LEMMA SameRun ==
  ASSUME NEW a, NEW b, NEW segment, SliceFrame(segment, a) = SliceFrame(segment, b), NEW cfg
  PROVE  /\ HarnessRun(a, segment, cfg) = HarnessRun(b, segment, cfg)
         /\ Result(a, segment, cfg) = Result(b, segment, cfg)
<1>1. HarnessRun(a, segment, cfg) = HarnessRun(b, segment, cfg)
  BY DEF HarnessRun
<1>2. Result(a, segment, cfg) = AnyOf(HarnessRun(a, segment, cfg))
  BY DEF Result, AnyOf
<1>3. Result(b, segment, cfg) = AnyOf(HarnessRun(b, segment, cfg))
  BY DEF Result, AnyOf
<1> QED  BY <1>1, <1>2, <1>3

\* The robustness study of a window reads its frame only.
THEOREM SweepReadsFrame ==
  ASSUME NEW a, NEW b, NEW segment, SliceFrame(segment, a) = SliceFrame(segment, b), NEW cfg, NEW o
  PROVE  RobustnessStudy(a, segment, cfg, o) = RobustnessStudy(b, segment, cfg, o)
<1>1. ASSUME NEW p PROVE SweepParameter(a, segment, cfg, p, o) = SweepParameter(b, segment, cfg, p, o)
  <2> DEFINE ran(x, v) == {c \in SetParameter(cfg, p, v) : HarnessRun(x, segment, c) # {}}
             point(x, v) == {[cfg |-> c, metrics |-> Metrics(Result(x, segment, c))] : c \in ran(x, v)}
             grid == Neighbourhood(cfg[p], o.span, o.points) \cup {cfg[p]}
  <2>1. \A v : ran(a, v) = ran(b, v)
    BY SameRun
  <2> HIDE DEF ran
  <2>2. \A v : point(a, v) = point(b, v)
    BY <2>1, SameRun
  <2> HIDE DEF point
  <2>3. SweepParameter(a, segment, cfg, p, o) = [v \in grid |-> point(a, v)]
    BY DEF SweepParameter, point, ran
  <2>4. SweepParameter(b, segment, cfg, p, o) = [v \in grid |-> point(b, v)]
    BY DEF SweepParameter, point, ran
  <2> HIDE DEF grid
  <2> QED  BY <2>2, <2>3, <2>4
<1> QED  BY <1>1 DEF RobustnessStudy

\* The isolated runs of the strategies read the frame of their window only.
THEOREM IsolationReadsFrame ==
  ASSUME NEW a, NEW b, NEW segment, SliceFrame(segment, a) = SliceFrame(segment, b), NEW cfg, NEW isolate
  PROVE  IsolateStrategies(a, segment, cfg, isolate) = IsolateStrategies(b, segment, cfg, isolate)
<1> DEFINE solo(x, s) == HarnessRun(x, segment, [cfg EXCEPT !.enabled = {s}])
           names == IF isolate /\ Cardinality(cfg.enabled) >= 2 THEN cfg.enabled ELSE {}
<1>1. \A s : solo(a, s) = solo(b, s)
  BY SameRun
<1>2. IsolateStrategies(a, segment, cfg, isolate)
        = [s \in {x \in names : solo(a, x) # {}} |-> AnyOf(solo(a, s))]
  BY DEF IsolateStrategies, AnyOf
<1>3. IsolateStrategies(b, segment, cfg, isolate)
        = [s \in {x \in names : solo(b, x) # {}} |-> AnyOf(solo(b, s))]
  BY DEF IsolateStrategies, AnyOf
<1> HIDE DEF solo, names
<1>4. {x \in names : solo(a, x) # {}} = {x \in names : solo(b, x) # {}}
  BY <1>1
<1> QED  BY <1>1, <1>2, <1>3, <1>4

\* The choice of a candidate reads the frame of the training window only.
THEOREM ChoiceReadsFrame ==
  ASSUME NEW a, NEW b, NEW train, SliceFrame(train, a) = SliceFrame(train, b), NEW candidates
  PROVE  SelectCandidate(a, train, candidates) = SelectCandidate(b, train, candidates)
<1> DEFINE score(x, i) == Objective(Result(x, train, candidates[i].cfg))
           ranked(x) == {i \in DOMAIN candidates : score(x, i) # {}}
<1>1. \A i : score(a, i) = score(b, i)
  BY SameRun
<1> HIDE DEF score
<1>2. ranked(a) = ranked(b)
  BY <1>1
<1>3. Leaders(a, train, candidates)
        = {i \in ranked(a) : \A j \in ranked(a) : \A x \in score(a, i), y \in score(a, j) : x >= y}
  BY DEF Leaders, score
<1>4. Leaders(b, train, candidates)
        = {i \in ranked(b) : \A j \in ranked(b) : \A x \in score(b, i), y \in score(b, j) : x >= y}
  BY DEF Leaders, score
<1> HIDE DEF ranked
<1>5. Leaders(a, train, candidates) = Leaders(b, train, candidates)
  BY <1>1, <1>2, <1>3, <1>4
<1> QED  BY <1>5 DEF SelectCandidate

\* Series that agree up to the end of a window show it the same frame.
LEMMA SameFrame ==
  ASSUME NEW segment, segment.dataStart \in Nat, segment.end \in Nat,
         NEW a, NEW b, \A i \in 1 .. segment.end : a[i] = b[i]
  PROVE  SliceFrame(segment, a) = SliceFrame(segment, b)
<1> DEFINE m == segment.dataStart + 1
           n == segment.end
           S == {a[i] : i \in m .. n}
<1>1. m \in Int /\ n \in Int /\ n - m + 1 \in Int
  OBVIOUS
<1>2. \A i \in m .. n : a[i] \in S /\ b[i] \in S
  OBVIOUS
<1>3. \A i \in 1 .. n - m + 1 : m + i - 1 \in 1 .. n
  OBVIOUS
<1> HIDE DEF m, S
<1>4. /\ SubSeq(a, m, n) \in Seq(S) /\ Len(SubSeq(a, m, n)) = (IF m <= n THEN n - m + 1 ELSE 0)
      /\ \A i \in 1 .. n - m + 1 : SubSeq(a, m, n)[i] = a[m + i - 1]
  BY <1>1, <1>2, SubSeqProperties
<1>5. /\ SubSeq(b, m, n) \in Seq(S) /\ Len(SubSeq(b, m, n)) = (IF m <= n THEN n - m + 1 ELSE 0)
      /\ \A i \in 1 .. n - m + 1 : SubSeq(b, m, n)[i] = b[m + i - 1]
  BY <1>1, <1>2, SubSeqProperties
<1> DEFINE x == SubSeq(a, m, n)
           y == SubSeq(b, m, n)
<1>6. x \in Seq(S) /\ y \in Seq(S) /\ Len(x) = Len(y)
  BY <1>4, <1>5
<1>7. \A i \in 1 .. Len(x) : x[i] = y[i]
  <2>1. \A i \in 1 .. Len(x) : i \in 1 .. n - m + 1
    BY <1>1, <1>4
  <2> QED  BY <1>3, <1>4, <1>5, <2>1
<1> HIDE DEF x, y
<1>8. x = y
  BY <1>6, <1>7, SeqEqual
<1> QED  BY <1>8 DEF SliceFrame, x, y, m

---------------------------------------------------------------------------
(* Shapes *)

JobFields ==
  {"pc", "plan", "windows", "report", "session", "candidates", "folds", "holdout", "touch",
   "sealedBefore"}
ReportFields ==
  {"id", "symbol", "cfg", "inSample", "validation", "outOfSample", "sweeps", "costs", "walkForward",
   "holdout", "correlation", "compared", "trials", "findings", "verdict", "recommendations"}

Has(r, fields) == r = [f \in fields |-> r[f]]

Written == {"write", "record"}
Stages ==
  {"register", "develop", "door", "sweep", "stress", "plan", "folds", "final", "seal", "insert",
   "count", "access", "status", "compare", "assess", "save"} \cup Written

IsJob(job) ==
  /\ Has(job, JobFields) /\ job.pc \in Stages /\ job.plan \in Plans
  /\ job.pc \notin Written => Has(job.report, ReportFields)

\* Every session is idle or in the middle of a study.
Shape ==
  /\ run = [s \in Sessions |-> run[s]]
  /\ \A s \in Sessions : run[s] = Idle \/ IsJob(run[s])

Others(s) == \A u \in Sessions \ {s} : run'[u] = run[u]

\* Session s goes on with its study, from one stage to another: of the study only
\* the named fields may differ, of its report only the named parts.
Moves(s, before, after, fields, parts) ==
  /\ run[s].pc = before /\ run'[s].pc = after
  /\ IsJob(run[s]) /\ IsJob(run'[s])
  /\ \A f \in JobFields \ ({"pc"} \cup fields) : run'[s][f] = run[s][f]
  /\ \A f \in ReportFields \ parts : run'[s].report[f] = run[s].report[f]
  /\ Others(s)

Ends(s) == run'[s] = Idle /\ Others(s)

\* A session that is not idle is in the middle of a well-formed study.
LEMMA InAStudy ==
  ASSUME Shape, NEW s \in Sessions, run[s].pc # "idle"
  PROVE  IsJob(run[s])
  BY DEF Shape, Idle

\* A step that puts a well-formed job in the place of the session's.
LEMMA PutJob ==
  ASSUME Shape, NEW s \in Sessions, NEW job, run' = [run EXCEPT ![s] = job],
         job = Idle \/ IsJob(job)
  PROVE  run'[s] = job /\ Others(s) /\ Shape'
<1>1. run'[s] = job /\ Others(s)
  BY DEF Shape, Others
<1>2. run' = [u \in Sessions |-> run'[u]]
  BY DEF Shape
<1>3. Shape'
  BY <1>1, <1>2 DEF Shape, Others
<1> QED  BY <1>1, <1>3

\* A study that ends leaves its session idle.
LEMMA EndMoves ==
  ASSUME Shape, NEW s \in Sessions, End(s)
  PROVE  Ends(s) /\ Shape'
  BY PutJob DEF End, Ends

\* Going on to another stage changes the stage and nothing else.
LEMMA ContinueMoves ==
  ASSUME Shape, NEW s \in Sessions, NEW pc \in Stages, run[s].pc # "idle",
         run[s].pc \in Written => pc \in Written, Continue(s, pc)
  PROVE  Moves(s, run[s].pc, pc, {}, {}) /\ Shape'
<1> DEFINE job == [run[s] EXCEPT !.pc = pc]
<1>1. IsJob(run[s])
  BY InAStudy
<1>2. run' = [run EXCEPT ![s] = job]
  BY DEF Continue
<1>3. Has(job, JobFields) /\ job.pc = pc /\ \A f \in JobFields \ {"pc"} : job[f] = run[s][f]
  BY <1>1 DEF IsJob, Has, JobFields
<1> HIDE DEF job
<1>4. job.plan = run[s].plan /\ job.report = run[s].report
  BY <1>3 DEF JobFields
<1>5. IsJob(job)
  BY <1>1, <1>3, <1>4 DEF IsJob
<1>6. run'[s] = job /\ Others(s) /\ Shape'
  BY <1>2, <1>5, PutJob
<1> QED  BY <1>1, <1>3, <1>4, <1>5, <1>6 DEF Moves

\* Going on with another report changes the stage and the report.
LEMMA ContinueWithMoves ==
  ASSUME Shape, NEW s \in Sessions, NEW pc \in Stages, run[s].pc # "idle",
         NEW r, pc \notin Written => Has(r, ReportFields), ContinueWith(s, pc, r)
  PROVE  Moves(s, run[s].pc, pc, {"report"}, ReportFields) /\ run'[s].report = r /\ Shape'
<1> DEFINE job == [run[s] EXCEPT !.pc = pc, !.report = r]
<1>1. IsJob(run[s])
  BY InAStudy
<1>2. run' = [run EXCEPT ![s] = job]
  <2>1. run' = [run EXCEPT ![s].pc = pc, ![s].report = r]
    BY DEF ContinueWith
  <2> QED  BY <2>1 DEF Shape
<1>3. /\ Has(job, JobFields) /\ job.pc = pc /\ job.report = r
      /\ \A f \in JobFields \ {"pc", "report"} : job[f] = run[s][f]
  BY <1>1 DEF IsJob, Has, JobFields
<1> HIDE DEF job
<1>4. job.plan = run[s].plan
  BY <1>3 DEF JobFields
<1>5. IsJob(job)
  BY <1>1, <1>3, <1>4 DEF IsJob
<1>6. run'[s] = job /\ Others(s) /\ Shape'
  BY <1>2, <1>5, PutJob
<1> QED  BY <1>1, <1>3, <1>4, <1>5, <1>6 DEF Moves

---------------------------------------------------------------------------
(* Where each step takes the study. *)

\* The development windows are scored with the configuration of the plan.
LEMMA DevelopmentMoves ==
  ASSUME Shape, NEW s \in Sessions, RunDevelopmentWindows(s)
  PROVE  /\ Moves(s, "develop", "door", {"session", "report"}, {"inSample", "validation"}) /\ Shape'
         /\ run'[s].session = Session(s, {CfgOf(s)})
         /\ run'[s].report.inSample = Result(SeriesOf(s), WindowOf(s, "in_sample"), CfgOf(s))
         /\ run'[s].report.validation = Result(SeriesOf(s), WindowOf(s, "validation"), CfgOf(s))
<1>1. IsJob(run[s]) /\ run[s].pc = "develop" /\ run = [u \in Sessions |-> run[u]]
  BY InAStudy DEF RunDevelopmentWindows, Shape
<1>2. Has(run[s].report, ReportFields) /\ Has(run[s], JobFields)
  BY <1>1 DEF IsJob, Written
<1> DEFINE tried == Session(s, {CfgOf(s)})
           first == Result(SeriesOf(s), WindowOf(s, "in_sample"), CfgOf(s))
           second == Result(SeriesOf(s), WindowOf(s, "validation"), CfgOf(s))
           rep == [run[s].report EXCEPT !.inSample = first, !.validation = second]
           job == [run[s] EXCEPT !.pc = "door", !.session = tried, !.report = rep]
<1> HIDE DEF tried, first, second
<1>3. run' = [run EXCEPT ![s].pc = "door", ![s].session = tried,
                         ![s].report.inSample = first, ![s].report.validation = second]
  BY DEF RunDevelopmentWindows, tried, first, second
<1>4. run' = [run EXCEPT ![s] = job]
  BY <1>1, <1>2, <1>3 DEF Has, JobFields, ReportFields
<1>5. /\ Has(rep, ReportFields)
      /\ rep.inSample = first
      /\ rep.validation = second
      /\ \A f \in ReportFields \ {"inSample", "validation"} : rep[f] = run[s].report[f]
  BY <1>2 DEF Has, ReportFields
<1> HIDE DEF rep
<1>6. /\ Has(job, JobFields) /\ job.pc = "door"
      /\ job.session = tried
      /\ job.report = rep
      /\ \A f \in JobFields \ ({"pc"} \cup {"session", "report"}) : job[f] = run[s][f]
  BY <1>2 DEF Has, JobFields
<1> HIDE DEF job
<1>7. job.plan = run[s].plan
  BY <1>6 DEF JobFields
<1>8. IsJob(job)
  BY <1>1, <1>5, <1>2, <1>6, <1>7 DEF IsJob, Stages, Written
<1>9. run'[s] = job /\ Others(s) /\ Shape'
  BY <1>4, <1>8, PutJob
<1> QED
  BY <1>1, <1>5, <1>6, <1>7, <1>8, <1>9 DEF Moves, tried, first, second

\* The final window is scored with the configuration of the plan.
LEMMA FinalMoves ==
  ASSUME Shape, NEW s \in Sessions, ScoreFinalWindow(s)
  PROVE  /\ Moves(s, "final", IF run[s].plan.ledger THEN "seal" ELSE "compare",
                  {"session", "report"}, {"outOfSample"})
         /\ Shape'
         /\ run'[s].session = Session(s, {CfgOf(s)})
         /\ run'[s].report.outOfSample = Result(SeriesOf(s), WindowOf(s, "out_of_sample"), CfgOf(s))
<1>1. IsJob(run[s]) /\ run[s].pc = "final" /\ run = [u \in Sessions |-> run[u]]
  BY InAStudy DEF ScoreFinalWindow, Shape
<1>2. Has(run[s].report, ReportFields) /\ Has(run[s], JobFields)
  BY <1>1 DEF IsJob, Written
<1> DEFINE pc2 == IF run[s].plan.ledger THEN "seal" ELSE "compare"
           tried == Session(s, {CfgOf(s)})
           last == Result(SeriesOf(s), WindowOf(s, "out_of_sample"), CfgOf(s))
           rep == [run[s].report EXCEPT !.outOfSample = last]
           job == [run[s] EXCEPT !.pc = pc2, !.session = tried, !.report = rep]
<1>p. pc2 \in Stages \ Written
  BY DEF Stages, Written
<1> HIDE DEF pc2, tried, last
<1>3. run' = [run EXCEPT ![s].pc = pc2, ![s].session = tried, ![s].report.outOfSample = last]
  BY DEF ScoreFinalWindow, pc2, tried, last
<1>4. run' = [run EXCEPT ![s] = job]
  BY <1>1, <1>2, <1>3 DEF Has, JobFields, ReportFields
<1>5. /\ Has(rep, ReportFields)
      /\ rep.outOfSample = last
      /\ \A f \in ReportFields \ {"outOfSample"} : rep[f] = run[s].report[f]
  BY <1>2 DEF Has, ReportFields
<1> HIDE DEF rep
<1>6. /\ Has(job, JobFields) /\ job.pc = pc2
      /\ job.session = tried
      /\ job.report = rep
      /\ \A f \in JobFields \ ({"pc"} \cup {"session", "report"}) : job[f] = run[s][f]
  BY <1>2 DEF Has, JobFields
<1> HIDE DEF job
<1>7. job.plan = run[s].plan
  BY <1>6 DEF JobFields
<1>8. IsJob(job)
  BY <1>1, <1>5, <1>2, <1>6, <1>7, <1>p DEF IsJob, Stages, Written
<1>9. run'[s] = job /\ Others(s) /\ Shape'
  BY <1>4, <1>8, PutJob
<1> QED
  BY <1>1, <1>5, <1>6, <1>7, <1>8, <1>9 DEF Moves, pc2, tried, last

\* Counting the touches notes the number and nothing else.
LEMMA CountMoves ==
  ASSUME Shape, NEW s \in Sessions, CountTouches(s)
  PROVE  /\ Moves(s, "count", "access", {"touch"}, {}) /\ Shape'
         /\ run'[s].touch = TouchCount(FinalHoldout(s)) + 1
<1>1. IsJob(run[s]) /\ run[s].pc = "count" /\ run = [u \in Sessions |-> run[u]]
  BY InAStudy DEF CountTouches, Shape
<1>2. Has(run[s].report, ReportFields) /\ Has(run[s], JobFields)
  BY <1>1 DEF IsJob, Written
<1> DEFINE touch == TouchCount(FinalHoldout(s)) + 1
           job == [run[s] EXCEPT !.pc = "access", !.touch = touch]
<1> HIDE DEF touch
<1>3. run' = [run EXCEPT ![s].pc = "access", ![s].touch = touch]
  BY DEF CountTouches, touch
<1>4. run' = [run EXCEPT ![s] = job]
  BY <1>1, <1>2, <1>3 DEF Has, JobFields, ReportFields
<1>6. /\ Has(job, JobFields) /\ job.pc = "access"
      /\ job.touch = touch
      /\ \A f \in JobFields \ ({"pc"} \cup {"touch"}) : job[f] = run[s][f]
  BY <1>2 DEF Has, JobFields
<1> HIDE DEF job
<1>7. job.plan = run[s].plan /\ job.report = run[s].report
  BY <1>6 DEF JobFields
<1>8. IsJob(job)
  BY <1>1, <1>2, <1>6, <1>7 DEF IsJob, Stages, Written
<1>9. run'[s] = job /\ Others(s) /\ Shape'
  BY <1>4, <1>8, PutJob
<1> QED
  BY <1>1, <1>6, <1>7, <1>8, <1>9 DEF Moves, touch

\* Reading the status fills in the look at the final window.
LEMMA StatusMoves ==
  ASSUME Shape, NEW s \in Sessions, ReadStatus(s)
  PROVE  /\ Moves(s, "status", "compare", {"report"}, {"holdout"}) /\ Shape'
         /\ run'[s].report.holdout = {[id |-> FinalHoldout(s), touch |-> run[s].touch,
                                     touchCount |-> TouchCount(FinalHoldout(s)),
                                     overTouched |-> TouchCount(FinalHoldout(s)) > 1,
                                     integrityOk |-> seals[FinalHoldout(s)] = FinalFingerprint(s)]}
<1>1. IsJob(run[s]) /\ run[s].pc = "status" /\ run = [u \in Sessions |-> run[u]]
  BY InAStudy DEF ReadStatus, Shape
<1>2. Has(run[s].report, ReportFields) /\ Has(run[s], JobFields)
  BY <1>1 DEF IsJob, Written
<1> DEFINE look == {[id |-> FinalHoldout(s), touch |-> run[s].touch,
                                     touchCount |-> TouchCount(FinalHoldout(s)),
                                     overTouched |-> TouchCount(FinalHoldout(s)) > 1,
                                     integrityOk |-> seals[FinalHoldout(s)] = FinalFingerprint(s)]}
           rep == [run[s].report EXCEPT !.holdout = look]
           job == [run[s] EXCEPT !.pc = "compare", !.report = rep]
<1> HIDE DEF look
<1>3. run' = [run EXCEPT ![s].pc = "compare", ![s].report.holdout = look]
  BY DEF ReadStatus, look
<1>4. run' = [run EXCEPT ![s] = job]
  BY <1>1, <1>2, <1>3 DEF Has, JobFields, ReportFields
<1>5. /\ Has(rep, ReportFields)
      /\ rep.holdout = look
      /\ \A f \in ReportFields \ {"holdout"} : rep[f] = run[s].report[f]
  BY <1>2 DEF Has, ReportFields
<1> HIDE DEF rep
<1>6. /\ Has(job, JobFields) /\ job.pc = "compare"
      /\ job.report = rep
      /\ \A f \in JobFields \ ({"pc"} \cup {"report"}) : job[f] = run[s][f]
  BY <1>2 DEF Has, JobFields
<1> HIDE DEF job
<1>7. job.plan = run[s].plan
  BY <1>6 DEF JobFields
<1>8. IsJob(job)
  BY <1>1, <1>5, <1>2, <1>6, <1>7 DEF IsJob, Stages, Written
<1>9. run'[s] = job /\ Others(s) /\ Shape'
  BY <1>4, <1>8, PutJob
<1> QED
  BY <1>1, <1>5, <1>6, <1>7, <1>8, <1>9 DEF Moves, look

\* Comparing the variants tries every candidate.
LEMMA CompareMoves ==
  ASSUME Shape, NEW s \in Sessions, CompareVariants(s)
  PROVE  /\ Moves(s, "compare", "assess", {"session", "report"}, {"compared"}) /\ Shape'
         /\ run'[s].session = Session(s, {run[s].candidates[i].cfg : i \in DOMAIN run[s].candidates})
         /\ run'[s].report.compared = {run[s].candidates[i].name : i \in DOMAIN run[s].candidates}
<1>1. IsJob(run[s]) /\ run[s].pc = "compare" /\ run = [u \in Sessions |-> run[u]]
  BY InAStudy DEF CompareVariants, Shape
<1>2. Has(run[s].report, ReportFields) /\ Has(run[s], JobFields)
  BY <1>1 DEF IsJob, Written
<1> DEFINE tried == Session(s, {run[s].candidates[i].cfg : i \in DOMAIN run[s].candidates})
           named == {run[s].candidates[i].name : i \in DOMAIN run[s].candidates}
           rep == [run[s].report EXCEPT !.compared = named]
           job == [run[s] EXCEPT !.pc = "assess", !.session = tried, !.report = rep]
<1> HIDE DEF tried, named
<1>3. run' = [run EXCEPT ![s].pc = "assess", ![s].session = tried, ![s].report.compared = named]
  BY DEF CompareVariants, tried, named
<1>4. run' = [run EXCEPT ![s] = job]
  BY <1>1, <1>2, <1>3 DEF Has, JobFields, ReportFields
<1>5. /\ Has(rep, ReportFields)
      /\ rep.compared = named
      /\ \A f \in ReportFields \ {"compared"} : rep[f] = run[s].report[f]
  BY <1>2 DEF Has, ReportFields
<1> HIDE DEF rep
<1>6. /\ Has(job, JobFields) /\ job.pc = "assess"
      /\ job.session = tried
      /\ job.report = rep
      /\ \A f \in JobFields \ ({"pc"} \cup {"session", "report"}) : job[f] = run[s][f]
  BY <1>2 DEF Has, JobFields
<1> HIDE DEF job
<1>7. job.plan = run[s].plan
  BY <1>6 DEF JobFields
<1>8. IsJob(job)
  BY <1>1, <1>5, <1>2, <1>6, <1>7 DEF IsJob, Stages, Written
<1>9. run'[s] = job /\ Others(s) /\ Shape'
  BY <1>4, <1>8, PutJob
<1> QED
  BY <1>1, <1>5, <1>6, <1>7, <1>8, <1>9 DEF Moves, tried, named

\* The configurations a robustness study ran.
PointsOf(sweeps) ==
  UNION {UNION {{x.cfg : x \in sweeps[p][v]} : v \in DOMAIN sweeps[p]} : p \in DOMAIN sweeps}

InSample(s) == WindowOf(s, "in_sample")
SweepsOf(s) == RobustnessStudy(SeriesOf(s), InSample(s), CfgOf(s), SettingsOf(s))

\* The sweep records the robustness study and the points that ran.
LEMMA SweepMoves ==
  ASSUME Shape, NEW s \in Sessions, Sweep(s)
  PROVE  /\ Moves(s, "sweep", "stress", {"session", "report"}, {"sweeps"}) /\ Shape'
         /\ run'[s].session = Session(s, PointsOf(SweepsOf(s)))
         /\ run'[s].report.sweeps = SweepsOf(s)
<1>1. IsJob(run[s]) /\ run[s].pc = "sweep" /\ run = [u \in Sessions |-> run[u]]
  BY InAStudy DEF Sweep, Shape
<1>2. Has(run[s].report, ReportFields) /\ Has(run[s], JobFields)
  BY <1>1 DEF IsJob, Written
<1> DEFINE tried == Session(s, PointsOf(SweepsOf(s)))
           found == SweepsOf(s)
           rep == [run[s].report EXCEPT !.sweeps = found]
           job == [run[s] EXCEPT !.pc = "stress", !.session = tried, !.report = rep]
<1> HIDE DEF tried, found
<1>3. run' = [run EXCEPT ![s].pc = "stress", ![s].report.sweeps = found, ![s].session = tried]
  <2>1. PICK sweeps \in {SweepsOf(s)} :
          run' = [run EXCEPT ![s].pc = "stress", ![s].report.sweeps = sweeps,
                             ![s].session = Session(s, PointsOf(sweeps))]
    BY DEF Sweep, PointsOf, SweepsOf, InSample
  <2>2. sweeps = found /\ Session(s, PointsOf(sweeps)) = tried
    BY DEF found, tried
  <2> QED  BY <2>1, <2>2
<1>4. run' = [run EXCEPT ![s] = job]
  BY <1>1, <1>2, <1>3 DEF Has, JobFields, ReportFields
<1>5. /\ Has(rep, ReportFields)
      /\ rep.sweeps = found
      /\ \A f \in ReportFields \ {"sweeps"} : rep[f] = run[s].report[f]
  BY <1>2 DEF Has, ReportFields
<1> HIDE DEF rep
<1>6. /\ Has(job, JobFields) /\ job.pc = "stress"
      /\ job.session = tried
      /\ job.report = rep
      /\ \A f \in JobFields \ ({"pc"} \cup {"session", "report"}) : job[f] = run[s][f]
  BY <1>2 DEF Has, JobFields
<1> HIDE DEF job
<1>7. job.plan = run[s].plan
  BY <1>6 DEF JobFields
<1>8. IsJob(job)
  BY <1>1, <1>5, <1>2, <1>6, <1>7 DEF IsJob, Stages, Written
<1>9. run'[s] = job /\ Others(s) /\ Shape'
  BY <1>4, <1>8, PutJob
<1> QED
  BY <1>1, <1>5, <1>6, <1>7, <1>8, <1>9 DEF Moves, tried, found

CostsOf(s) ==
  {CostStressStudy(SeriesOf(s), WindowOf(s, cs.segment), DefaultScenarios(CfgOf(s), cs)) :
     cs \in SettingsOf(s).costs}
CorrelationOf(s) ==
  AnalyseCorrelations(ReportOf(s).inSample,
                      IsolateStrategies(SeriesOf(s), InSample(s), CfgOf(s), SettingsOf(s).isolate),
                      SettingsOf(s).threshold)
CandidatesOf(s) ==
  IF SettingsOf(s).testVariants /\ CorrelationOf(s).findings # <<>>
  THEN WeightVariants(CfgOf(s), CorrelationOf(s), SettingsOf(s).downWeight) ELSE <<>>

\* Cost stress, correlation and the candidates are filled in together.
LEMMA StressMoves ==
  ASSUME Shape, NEW s \in Sessions, StressAndCorrelate(s)
  PROVE  /\ Moves(s, "stress", "plan", {"candidates", "report"}, {"costs", "correlation"}) /\ Shape'
         /\ run'[s].candidates = CandidatesOf(s)
         /\ run'[s].report.costs = CostsOf(s)
         /\ run'[s].report.correlation = CorrelationOf(s)
<1>1. IsJob(run[s]) /\ run[s].pc = "stress" /\ run = [u \in Sessions |-> run[u]]
  BY InAStudy DEF StressAndCorrelate, Shape
<1>2. Has(run[s].report, ReportFields) /\ Has(run[s], JobFields)
  BY <1>1 DEF IsJob, Written
<1> DEFINE suggested == CandidatesOf(s)
           stressed == CostsOf(s)
           alike == CorrelationOf(s)
           rep == [run[s].report EXCEPT !.costs = stressed, !.correlation = alike]
           job == [run[s] EXCEPT !.pc = "plan", !.candidates = suggested, !.report = rep]
<1> HIDE DEF suggested, stressed, alike
<1>3. run' = [run EXCEPT ![s].pc = "plan", ![s].report.costs = stressed,
                         ![s].report.correlation = alike, ![s].candidates = suggested]
  <2>1. PICK correlation \in {CorrelationOf(s)} :
          run' = [run EXCEPT ![s].pc = "plan", ![s].report.costs = CostsOf(s),
                    ![s].report.correlation = correlation,
                    ![s].candidates =
                      IF SettingsOf(s).testVariants /\ correlation.findings # <<>>
                      THEN WeightVariants(CfgOf(s), correlation, SettingsOf(s).downWeight)
                      ELSE <<>>]
    BY DEF StressAndCorrelate, CostsOf, CorrelationOf, InSample
  <2>2. correlation = alike /\ CostsOf(s) = stressed
    BY DEF alike, stressed
  <2>3. (IF SettingsOf(s).testVariants /\ correlation.findings # <<>>
         THEN WeightVariants(CfgOf(s), correlation, SettingsOf(s).downWeight)
         ELSE <<>>) = suggested
    BY <2>1 DEF suggested, CandidatesOf
  <2> QED  BY <2>1, <2>2, <2>3
<1>4. run' = [run EXCEPT ![s] = job]
  BY <1>1, <1>2, <1>3 DEF Has, JobFields, ReportFields
<1>5. /\ Has(rep, ReportFields)
      /\ rep.costs = stressed
      /\ rep.correlation = alike
      /\ \A f \in ReportFields \ {"costs", "correlation"} : rep[f] = run[s].report[f]
  BY <1>2 DEF Has, ReportFields
<1> HIDE DEF rep
<1>6. /\ Has(job, JobFields) /\ job.pc = "plan"
      /\ job.candidates = suggested
      /\ job.report = rep
      /\ \A f \in JobFields \ ({"pc"} \cup {"candidates", "report"}) : job[f] = run[s][f]
  BY <1>2 DEF Has, JobFields
<1> HIDE DEF job
<1>7. job.plan = run[s].plan
  BY <1>6 DEF JobFields
<1>8. IsJob(job)
  BY <1>1, <1>5, <1>2, <1>6, <1>7 DEF IsJob, Stages, Written
<1>9. run'[s] = job /\ Others(s) /\ Shape'
  BY <1>4, <1>8, PutJob
<1> QED
  BY <1>1, <1>5, <1>6, <1>7, <1>8, <1>9 DEF Moves, suggested, stressed, alike

FoldNow(s) == run[s].folds[Len(FoldsDone(s)) + 1]
ChosenNow(s) ==
  IF run[s].candidates = <<>> THEN [name |-> <<"baseline", "">>, cfg |-> CfgOf(s)]
  ELSE SelectCandidate(SeriesOf(s), FoldNow(s).train, run[s].candidates)
FoldResult(s) ==
  [selected |-> ChosenNow(s).name, train |-> FoldNow(s).train, test |-> FoldNow(s).test,
   trained |-> Metrics(Result(SeriesOf(s), FoldNow(s).train, ChosenNow(s).cfg)),
   metrics |-> Metrics(Result(SeriesOf(s), FoldNow(s).test, ChosenNow(s).cfg))]

\* A fold adds one line to the walk-forward and tries every candidate.
LEMMA FoldMoves ==
  ASSUME Shape, NEW s \in Sessions, WalkFold(s)
  PROVE  /\ Moves(s, "folds", IF Len(FoldsDone(s)) + 1 = Len(run[s].folds) THEN "final" ELSE "folds",
                  {"session", "report"}, {"walkForward"})
         /\ Shape'
         /\ run'[s].session = Session(s, {run[s].candidates[i].cfg : i \in DOMAIN run[s].candidates})
         /\ run'[s].report.walkForward = {Append(FoldsDone(s), FoldResult(s))}
<1>1. IsJob(run[s]) /\ run[s].pc = "folds" /\ run = [u \in Sessions |-> run[u]]
  BY InAStudy DEF WalkFold, Shape
<1>2. Has(run[s].report, ReportFields) /\ Has(run[s], JobFields)
  BY <1>1 DEF IsJob, Written
<1> DEFINE pc2 == IF Len(FoldsDone(s)) + 1 = Len(run[s].folds) THEN "final" ELSE "folds"
           tried == Session(s, {run[s].candidates[i].cfg : i \in DOMAIN run[s].candidates})
           folded == {Append(FoldsDone(s), FoldResult(s))}
           rep == [run[s].report EXCEPT !.walkForward = folded]
           job == [run[s] EXCEPT !.pc = pc2, !.session = tried, !.report = rep]
<1>p. pc2 \in Stages \ Written
  BY DEF Stages, Written
<1> HIDE DEF pc2, tried, folded
<1>3. run' = [run EXCEPT ![s].session = tried, ![s].pc = pc2, ![s].report.walkForward = folded]
  <2>1. PICK chosen \in {ChosenNow(s)} :
          run' = [run EXCEPT
             ![s].session = Session(s, {run[s].candidates[i].cfg : i \in DOMAIN run[s].candidates}),
             ![s].pc = IF Len(FoldsDone(s)) + 1 = Len(run[s].folds) THEN "final" ELSE "folds",
             ![s].report.walkForward =
               {Append(FoldsDone(s),
                  [selected |-> chosen.name, train |-> FoldNow(s).train, test |-> FoldNow(s).test,
                   trained |-> Metrics(Result(SeriesOf(s), FoldNow(s).train, chosen.cfg)),
                   metrics |-> Metrics(Result(SeriesOf(s), FoldNow(s).test, chosen.cfg))])}]
    BY DEF WalkFold, ChosenNow, FoldNow
  <2>2. chosen = ChosenNow(s)
    BY <2>1
  <2> QED  BY <2>1, <2>2 DEF pc2, tried, folded, FoldResult
<1>4. run' = [run EXCEPT ![s] = job]
  BY <1>1, <1>2, <1>3 DEF Has, JobFields, ReportFields
<1>5. /\ Has(rep, ReportFields)
      /\ rep.walkForward = folded
      /\ \A f \in ReportFields \ {"walkForward"} : rep[f] = run[s].report[f]
  BY <1>2 DEF Has, ReportFields
<1> HIDE DEF rep
<1>6. /\ Has(job, JobFields) /\ job.pc = pc2
      /\ job.session = tried
      /\ job.report = rep
      /\ \A f \in JobFields \ ({"pc"} \cup {"session", "report"}) : job[f] = run[s][f]
  BY <1>2 DEF Has, JobFields
<1> HIDE DEF job
<1>7. job.plan = run[s].plan
  BY <1>6 DEF JobFields
<1>8. IsJob(job)
  BY <1>1, <1>5, <1>2, <1>6, <1>7, <1>p DEF IsJob, Stages, Written
<1>9. run'[s] = job /\ Others(s) /\ Shape'
  BY <1>4, <1>8, PutJob
<1> QED
  BY <1>1, <1>5, <1>6, <1>7, <1>8, <1>9 DEF Moves, pc2, tried, folded

\* Folds that can be planned are kept, and the walk-forward begins.
LEMMA PlanFoldsMoves ==
  ASSUME Shape, NEW s \in Sessions, PlanFolds(s), SettingsOf(s).walkForward # {}, PlannedFolds(s) # {}
  PROVE  /\ Moves(s, "plan", "folds", {"folds", "report"}, {"walkForward"}) /\ Shape'
         /\ run'[s].folds = CHOOSE f \in PlannedFolds(s) : TRUE
         /\ run'[s].report.walkForward = {<<>>}
<1>1. IsJob(run[s]) /\ run[s].pc = "plan" /\ run = [u \in Sessions |-> run[u]]
  BY InAStudy DEF PlanFolds, Shape
<1>2. Has(run[s].report, ReportFields) /\ Has(run[s], JobFields)
  BY <1>1 DEF IsJob, Written
<1> DEFINE planned == CHOOSE f \in PlannedFolds(s) : TRUE
           none == {<<>>}
           rep == [run[s].report EXCEPT !.walkForward = none]
           job == [run[s] EXCEPT !.pc = "folds", !.folds = planned, !.report = rep]
<1> HIDE DEF planned, none
<1>3. run' = [run EXCEPT ![s].pc = "folds", ![s].folds = planned, ![s].report.walkForward = none]
  BY DEF PlanFolds, planned, none
<1>4. run' = [run EXCEPT ![s] = job]
  BY <1>1, <1>2, <1>3 DEF Has, JobFields, ReportFields
<1>5. /\ Has(rep, ReportFields)
      /\ rep.walkForward = none
      /\ \A f \in ReportFields \ {"walkForward"} : rep[f] = run[s].report[f]
  BY <1>2 DEF Has, ReportFields
<1> HIDE DEF rep
<1>6. /\ Has(job, JobFields) /\ job.pc = "folds"
      /\ job.folds = planned
      /\ job.report = rep
      /\ \A f \in JobFields \ ({"pc"} \cup {"folds", "report"}) : job[f] = run[s][f]
  BY <1>2 DEF Has, JobFields
<1> HIDE DEF job
<1>7. job.plan = run[s].plan
  BY <1>6 DEF JobFields
<1>8. IsJob(job)
  BY <1>1, <1>5, <1>2, <1>6, <1>7 DEF IsJob, Stages, Written
<1>9. run'[s] = job /\ Others(s) /\ Shape'
  BY <1>4, <1>8, PutJob
<1> QED
  BY <1>1, <1>5, <1>6, <1>7, <1>8, <1>9 DEF Moves, planned, none

\* Without folds the study goes to its final window, or ends.
LEMMA PlanFoldsOtherwise ==
  ASSUME Shape, NEW s \in Sessions, PlanFolds(s),
         SettingsOf(s).walkForward = {} \/ PlannedFolds(s) = {}
  PROVE  (Moves(s, "plan", "final", {}, {}) \/ Ends(s)) /\ Shape'
<1>1. run[s].pc = "plan"
  BY DEF PlanFolds
<1>2. Continue(s, "final") \/ End(s)
  BY DEF PlanFolds
<1> QED  BY <1>1, <1>2, ContinueMoves, EndMoves DEF Stages, Written

---------------------------------------------------------------------------
(* Every step, coarsely. *)

Transitions ==
  {<<"register", "develop">>, <<"develop", "door">>, <<"door", "sweep">>, <<"sweep", "stress">>,
   <<"stress", "plan">>, <<"plan", "folds">>, <<"plan", "final">>, <<"folds", "folds">>,
   <<"folds", "final">>, <<"final", "seal">>, <<"final", "compare">>, <<"seal", "insert">>,
   <<"seal", "count">>, <<"insert", "count">>, <<"count", "access">>, <<"access", "status">>,
   <<"status", "compare">>, <<"compare", "assess">>, <<"assess", "save">>, <<"save", "write">>,
   <<"write", "record">>}

\* The stages that run backtests for the record, and those that fill in a part
\* of the report.
Trying == {"develop", "sweep", "folds", "final", "compare"}
StagesOf ==
  [cfg |-> {}, inSample |-> {"develop"}, validation |-> {"develop"}, outOfSample |-> {"final"},
   sweeps |-> {"sweep"}, costs |-> {"stress"}, correlation |-> {"stress"},
   walkForward |-> {"plan", "folds"}, compared |-> {"compare"}, findings |-> {"assess"},
   verdict |-> {"assess"}]
Findings == DOMAIN StagesOf

\* What no step of a study changes: what it is a study of, and whose report it
\* writes; the look at the final window is reported in one step only.
Goes(s) ==
  /\ IsJob(run[s]) /\ IsJob(run'[s]) /\ Others(s)
  /\ <<run[s].pc, run'[s].pc>> \in Transitions
  /\ run'[s].plan = run[s].plan /\ run'[s].windows = run[s].windows
  /\ run'[s].report.id = run[s].report.id /\ run'[s].report.symbol = run[s].report.symbol
  /\ run[s].pc # "status" => run'[s].report.holdout = run[s].report.holdout
  /\ run[s].pc = "final" => (run'[s].pc = "seal" <=> run[s].plan.ledger)
  /\ run[s].pc \notin Trying => run'[s].session = run[s].session
  /\ run[s].pc # "stress" => run'[s].candidates = run[s].candidates
  /\ run[s].pc # "plan" => run'[s].folds = run[s].folds
  /\ run[s].pc # "save" =>
       \A f \in Findings : run[s].pc \notin StagesOf[f] => run'[s].report[f] = run[s].report[f]

\* The windows a study of plan is made on.
SplitFor(plan) == ChronologicalSplit(Len(history[plan.data]), SplitOptions(plan))
WindowsFor(plan) == CHOOSE w \in SplitFor(plan) : TRUE

Begins(s) ==
  /\ run[s].pc = "idle" /\ IsJob(run'[s]) /\ run'[s].pc = "register" /\ Others(s)
  /\ run'[s].plan.data \in DOMAIN history /\ SplitFor(run'[s].plan) # {}
  /\ run'[s].windows = WindowsFor(run'[s].plan)
  /\ run'[s].report = NewReport(run'[s].plan)
  /\ run'[s].candidates = <<>> /\ run'[s].folds = <<>> /\ run'[s].session = {}

\* A new study starts with the windows of its plan and an empty report.
LEMMA StartBegins ==
  ASSUME Shape, NEW s \in Sessions, NEW plan \in Plans, Start(s, plan)
  PROVE  (Begins(s) \/ run' = run) /\ Shape'
<1>1. CASE SplitFor(plan) = {}
  <2>1. run' = run
    BY <1>1 DEF Start, SplitFor
  <2> QED  BY <2>1 DEF Shape
<1>2. CASE SplitFor(plan) # {}
  <2> DEFINE job == [pc |-> "register", plan |-> plan, windows |-> WindowsFor(plan),
                     report |-> NewReport(plan), session |-> {},
                     candidates |-> <<>>, folds |-> <<>>, holdout |-> <<>>, touch |-> 0,
                     sealedBefore |-> DOMAIN seals]
  <2>1. run' = [run EXCEPT ![s] = job]
    BY <1>2 DEF Start, SplitFor, WindowsFor
  <2>2. Has(NewReport(plan), ReportFields)
    BY DEF NewReport, Has, ReportFields
  <2>3. IsJob(job)
    BY <2>2 DEF IsJob, Has, JobFields, Stages
  <2>4. run'[s] = job /\ Others(s) /\ Shape'
    BY <2>1, <2>3, PutJob
  <2>5. run[s].pc = "idle" /\ plan.data \in DOMAIN history
    BY DEF Start
  <2> QED  BY <1>2, <2>3, <2>4, <2>5 DEF Begins
<1> QED  BY <1>1, <1>2

StepOf(s) ==
  \/ \E plan \in Plans : Start(s, plan)
  \/ Register(s) \/ RunDevelopmentWindows(s) \/ CheckDoor(s) \/ Sweep(s)
  \/ StressAndCorrelate(s) \/ PlanFolds(s) \/ WalkFold(s)
  \/ ScoreFinalWindow(s) \/ LookUpSeal(s) \/ InsertSeal(s)
  \/ CountTouches(s) \/ InsertAccess(s) \/ ReadStatus(s)
  \/ CompareVariants(s) \/ Conclude(s)
  \/ BeginSave(s) \/ FinishSave(s) \/ RecordVerdict(s) \/ Crash(s)

\* The table, entry by entry.
LEMMA FindingsKnown ==
  /\ Findings = {"cfg", "inSample", "validation", "outOfSample", "sweeps", "costs", "correlation",
                 "walkForward", "compared", "findings", "verdict"}
  /\ StagesOf["inSample"] = {"develop"} /\ StagesOf["validation"] = {"develop"}
  /\ StagesOf["outOfSample"] = {"final"} /\ StagesOf["sweeps"] = {"sweep"}
  /\ StagesOf["costs"] = {"stress"} /\ StagesOf["correlation"] = {"stress"}
  /\ StagesOf["walkForward"] = {"plan", "folds"} /\ StagesOf["compared"] = {"compare"}
  /\ StagesOf["findings"] = {"assess"} /\ StagesOf["verdict"] = {"assess"} /\ StagesOf["cfg"] = {}
  BY DEF Findings, StagesOf

\* A step with such fields at such stages keeps what no step changes.
LEMMA MovesGoes ==
  ASSUME NEW s \in Sessions, NEW before, NEW after, NEW fields, NEW parts,
         Moves(s, before, after, fields, parts), <<before, after>> \in Transitions,
         fields \subseteq {"session", "report", "candidates", "folds", "touch", "holdout"},
         "report" \in fields =>
           /\ before # "save" /\ parts \cap {"id", "symbol"} = {}
           /\ "holdout" \in parts => before = "status",
         before = "final" => (after = "seal" <=> run[s].plan.ledger),
         "session" \in fields => before \in Trying,
         "candidates" \in fields => before = "stress",
         "folds" \in fields => before = "plan",
         \A f \in Findings : f \in parts => before \in StagesOf[f]
  PROVE  Goes(s)
<1>f. Findings \subseteq ReportFields
  BY FindingsKnown DEF ReportFields
<1>0. /\ before \notin Trying => run'[s].session = run[s].session
      /\ before # "stress" => run'[s].candidates = run[s].candidates
      /\ before # "plan" => run'[s].folds = run[s].folds
  BY DEF Moves, JobFields
<1>1. run'[s].plan = run[s].plan /\ run'[s].windows = run[s].windows
  BY DEF Moves, JobFields
<1>2. CASE "report" \in fields
  <2>1. run'[s].report.id = run[s].report.id /\ run'[s].report.symbol = run[s].report.symbol
    BY <1>2 DEF Moves, ReportFields
  <2>2. before # "status" => run'[s].report.holdout = run[s].report.holdout
    BY <1>2 DEF Moves, ReportFields
  <2>3. \A f \in Findings : before \notin StagesOf[f] => run'[s].report[f] = run[s].report[f]
    BY <1>f, <1>2 DEF Moves
  <2> QED  BY <1>0, <1>1, <2>1, <2>2, <2>3 DEF Moves, Goes
<1>3. CASE "report" \notin fields
  <2>1. run'[s].report = run[s].report
    BY <1>3 DEF Moves, JobFields
  <2> QED  BY <1>0, <1>1, <2>1 DEF Moves, Goes
<1> QED  BY <1>2, <1>3

\* What Conclude adds to the report.
Concluded(s, total) ==
  LET r        == ReportOf(s)
      degraded == {w \in {r.inSample, r.validation, r.outOfSample} : Degraded(w)}
      assessed == [r EXCEPT !.trials = total,
                            !.findings = Assess(total, r.inSample, r.outOfSample, r.walkForward,
                                                FragileParameters(r.sweeps, r.cfg), degraded)]
  IN  [assessed EXCEPT !.verdict = Verdict(assessed),
                       !.recommendations = BuildRecommendations(assessed)]

\* The conclusion judges the report under some number of trials.
LEMMA ConcludeMoves ==
  ASSUME Shape, NEW s \in Sessions, Conclude(s)
  PROVE  /\ Moves(s, "assess", "save", {"report"},
                  {"trials", "findings", "verdict", "recommendations"})
         /\ Shape'
         /\ \E up \in BOOLEAN : StoreUp(s, up) /\ run'[s].report = Concluded(s, TotalTrials(s, up))
<1>1. PICK up \in BOOLEAN : StoreUp(s, up) /\ ContinueWith(s, "save", Concluded(s, TotalTrials(s, up)))
  BY DEF Conclude, Concluded
<1>2. run[s].pc = "assess" /\ IsJob(run[s])
  BY InAStudy DEF Conclude
<1>3. Has(ReportOf(s), ReportFields)
  BY <1>2 DEF IsJob, Written, ReportOf
<1> DEFINE t == TotalTrials(s, up)
           r == ReportOf(s)
           assessed == [r EXCEPT !.trials = t,
                          !.findings = Assess(t, r.inSample, r.outOfSample, r.walkForward,
                                         FragileParameters(r.sweeps, r.cfg),
                                         {w \in {r.inSample, r.validation, r.outOfSample} : Degraded(w)})]
           v == Verdict(assessed)
           recs == BuildRecommendations(assessed)
           done == [assessed EXCEPT !.verdict = v, !.recommendations = recs]
<1>4. done = Concluded(s, t)
  BY DEF Concluded
<1>5. /\ Has(assessed, ReportFields)
      /\ \A f \in ReportFields \ {"trials", "findings"} : assessed[f] = r[f]
  BY <1>3 DEF Has, ReportFields
<1> HIDE DEF assessed, v, recs, t, r
<1>6. /\ Has(done, ReportFields)
      /\ \A f \in ReportFields \ {"verdict", "recommendations"} : done[f] = assessed[f]
  BY <1>5 DEF Has, ReportFields
<1> HIDE DEF done
<1>7. /\ Moves(s, "assess", "save", {"report"}, ReportFields) /\ Shape'
      /\ run'[s].report = done
  BY <1>1, <1>2, <1>4, <1>6, ContinueWithMoves DEF Stages, Written, t
<1>8. \A f \in ReportFields \ {"trials", "findings", "verdict", "recommendations"} :
        run'[s].report[f] = run[s].report[f]
  BY <1>5, <1>6, <1>7 DEF r, ReportOf
<1> QED  BY <1>1, <1>4, <1>7, <1>8 DEF Moves, t

\* From its first write on, a study carries the file instead of the report.
LEMMA BeginSaveMoves ==
  ASSUME Shape, NEW s \in Sessions, BeginSave(s)
  PROVE  /\ Moves(s, "save", "write", {"report"}, ReportFields) /\ Shape'
         /\ run'[s].report = ToDict(ReportOf(s)) /\ Goes(s)
<1>1. run[s].pc = "save" /\ ContinueWith(s, "write", ToDict(ReportOf(s)))
  BY DEF BeginSave
<1>2. /\ Moves(s, "save", "write", {"report"}, ReportFields) /\ Shape'
      /\ run'[s].report = ToDict(ReportOf(s))
  BY <1>1, ContinueWithMoves DEF Stages, Written
<1>3. /\ run'[s].report.id = run[s].report.id /\ run'[s].report.symbol = run[s].report.symbol
      /\ run'[s].report.holdout = run[s].report.holdout
  BY <1>2 DEF ToDict, ReportOf
<1>4. /\ run'[s].plan = run[s].plan /\ run'[s].windows = run[s].windows
      /\ run'[s].session = run[s].session
      /\ run'[s].candidates = run[s].candidates /\ run'[s].folds = run[s].folds
  BY <1>2 DEF Moves, JobFields
<1>5. <<"save", "write">> \in Transitions
  BY DEF Transitions
<1> QED  BY <1>1, <1>2, <1>3, <1>4, <1>5 DEF Goes, Moves

\* A step of a session begins a study, goes on with it, or ends it.
LEMMA StepGoes ==
  ASSUME Shape, NEW s \in Sessions, StepOf(s)
  PROVE  Shape' /\ (Begins(s) \/ Goes(s) \/ Ends(s) \/ (run' = run /\ run[s].pc = "idle"))
<1>1. CASE \E plan \in Plans : Start(s, plan)
  BY <1>1, StartBegins DEF Start
<1>2. CASE Register(s)
  <2>1. Moves(s, "register", "develop", {}, {}) /\ Shape'
    BY <1>2, ContinueMoves DEF Register, Stages, Written
  <2>2. <<"register", "develop">> \in Transitions
    BY DEF Transitions
  <2>3. Goes(s)
    BY <2>1, <2>2, MovesGoes
  <2> QED  BY <2>1, <2>3
<1>3. CASE RunDevelopmentWindows(s)
  <2>1. Moves(s, "develop", "door", {"session", "report"}, {"inSample", "validation"}) /\ Shape'
    BY <1>3, DevelopmentMoves
  <2>2. <<"develop", "door">> \in Transitions /\ "develop" \in Trying
    BY DEF Transitions, Trying
  <2>3. \A f \in Findings : f \in {"inSample", "validation"} => "develop" \in StagesOf[f]
    BY FindingsKnown
  <2>4. Goes(s)
    BY <2>1, <2>2, <2>3, MovesGoes
  <2> QED  BY <2>1, <2>4
<1>4. CASE CheckDoor(s)
  <2>1. run[s].pc = "door" /\ (End(s) \/ Continue(s, "sweep"))
    BY <1>4 DEF CheckDoor
  <2>2. CASE End(s)
    BY <2>2, EndMoves
  <2>3. CASE Continue(s, "sweep")
    <3>1. Moves(s, "door", "sweep", {}, {}) /\ Shape'
      BY <2>1, <2>3, ContinueMoves DEF Stages, Written
    <3> QED  BY <3>1, MovesGoes, FindingsKnown DEF Transitions, Trying
  <2> QED  BY <2>1, <2>2, <2>3
<1>5. CASE Sweep(s)
  <2>1. Goes(s)
    BY <1>5, SweepMoves, MovesGoes, FindingsKnown DEF Transitions, Trying
  <2> QED  BY <1>5, <2>1, SweepMoves
<1>6. CASE StressAndCorrelate(s)
  <2>1. Goes(s)
    BY <1>6, StressMoves, MovesGoes, FindingsKnown DEF Transitions, Trying
  <2> QED  BY <1>6, <2>1, StressMoves
<1>7. CASE PlanFolds(s)
  <2>1. CASE SettingsOf(s).walkForward # {} /\ PlannedFolds(s) # {}
    <3>1. Goes(s)
      BY <1>7, <2>1, PlanFoldsMoves, MovesGoes, FindingsKnown DEF Transitions, Trying
    <3> QED  BY <1>7, <2>1, <3>1, PlanFoldsMoves
  <2>2. CASE ~(SettingsOf(s).walkForward # {} /\ PlannedFolds(s) # {})
    <3>1. (Moves(s, "plan", "final", {}, {}) \/ Ends(s)) /\ Shape'
      BY <1>7, <2>2, PlanFoldsOtherwise
    <3> QED  BY <3>1, MovesGoes, FindingsKnown DEF Transitions, Trying
  <2> QED  BY <2>1, <2>2
<1>8. CASE WalkFold(s)
  <2> DEFINE pc2 == IF Len(FoldsDone(s)) + 1 = Len(run[s].folds) THEN "final" ELSE "folds"
  <2>1. Moves(s, "folds", pc2, {"session", "report"}, {"walkForward"}) /\ Shape'
    BY <1>8, FoldMoves
  <2>2. <<"folds", pc2>> \in Transitions
    BY DEF Transitions
  <2> HIDE DEF pc2
  <2>3. Goes(s)
    BY <2>1, <2>2, MovesGoes, FindingsKnown DEF Trying
  <2> QED  BY <2>1, <2>3
<1>9. CASE ScoreFinalWindow(s)
  <2> DEFINE pc2 == IF run[s].plan.ledger THEN "seal" ELSE "compare"
  <2>1. Moves(s, "final", pc2, {"session", "report"}, {"outOfSample"}) /\ Shape'
    BY <1>9, FinalMoves
  <2>2. <<"final", pc2>> \in Transitions /\ (pc2 = "seal" <=> run[s].plan.ledger)
    BY DEF Transitions
  <2> HIDE DEF pc2
  <2>3. Goes(s)
    BY <2>1, <2>2, MovesGoes, FindingsKnown DEF Trying
  <2> QED  BY <2>1, <2>3
<1>10. CASE LookUpSeal(s)
  <2>1. run[s].pc = "seal" /\ (End(s) \/ Continue(s, "insert") \/ Continue(s, "count"))
    BY <1>10 DEF LookUpSeal
  <2>2. CASE End(s)
    BY <2>2, EndMoves
  <2>3. CASE Continue(s, "insert") \/ Continue(s, "count")
    <3>1. (Moves(s, "seal", "insert", {}, {}) \/ Moves(s, "seal", "count", {}, {})) /\ Shape'
      BY <2>1, <2>3, ContinueMoves DEF Stages, Written
    <3> QED  BY <3>1, MovesGoes, FindingsKnown DEF Transitions, Trying
  <2> QED  BY <2>1, <2>2, <2>3
<1>11. CASE InsertSeal(s)
  <2>1. run[s].pc = "insert" /\ (End(s) \/ Continue(s, "count"))
    BY <1>11 DEF InsertSeal
  <2>2. CASE End(s)
    BY <2>2, EndMoves
  <2>3. CASE Continue(s, "count")
    <3>1. Moves(s, "insert", "count", {}, {}) /\ Shape'
      BY <2>1, <2>3, ContinueMoves DEF Stages, Written
    <3> QED  BY <3>1, MovesGoes, FindingsKnown DEF Transitions, Trying
  <2> QED  BY <2>1, <2>2, <2>3
<1>12. CASE CountTouches(s)
  <2>1. Goes(s)
    BY <1>12, CountMoves, MovesGoes, FindingsKnown DEF Transitions, Trying
  <2> QED  BY <1>12, <2>1, CountMoves
<1>13. CASE InsertAccess(s)
  <2>1. Moves(s, "access", "status", {}, {}) /\ Shape'
    BY <1>13, ContinueMoves DEF InsertAccess, Stages, Written
  <2> QED  BY <2>1, MovesGoes, FindingsKnown DEF Transitions, Trying
<1>14. CASE ReadStatus(s)
  <2>1. Goes(s)
    BY <1>14, StatusMoves, MovesGoes, FindingsKnown DEF Transitions, Trying
  <2> QED  BY <1>14, <2>1, StatusMoves
<1>15. CASE CompareVariants(s)
  <2>1. Moves(s, "compare", "assess", {"session", "report"}, {"compared"}) /\ Shape'
    BY <1>15, CompareMoves
  <2>2. <<"compare", "assess">> \in Transitions /\ "compare" \in Trying
    BY DEF Transitions, Trying
  <2>3. \A f \in Findings : f \in {"compared"} => "compare" \in StagesOf[f]
    BY FindingsKnown
  <2>4. Goes(s)
    BY <2>1, <2>2, <2>3, MovesGoes
  <2> QED  BY <2>1, <2>4
<1>16. CASE Conclude(s)
  <2>1. Goes(s)
    BY <1>16, ConcludeMoves, MovesGoes, FindingsKnown DEF Transitions, Trying
  <2> QED  BY <1>16, <2>1, ConcludeMoves
<1>17. CASE BeginSave(s)
  BY <1>17, BeginSaveMoves
<1>18. CASE FinishSave(s)
  <2>1. Moves(s, "write", "record", {}, {}) /\ Shape'
    BY <1>18, ContinueMoves DEF FinishSave, Stages, Written
  <2> QED  BY <2>1, MovesGoes, FindingsKnown DEF Transitions, Trying
<1>19. CASE RecordVerdict(s) \/ Crash(s)
  BY <1>19, EndMoves DEF RecordVerdict, Crash
<1> QED
  BY <1>1, <1>2, <1>3, <1>4, <1>5, <1>6, <1>7, <1>8, <1>9, <1>10, <1>11, <1>12, <1>13, <1>14,
     <1>15, <1>16, <1>17, <1>18, <1>19 DEF StepOf

---------------------------------------------------------------------------
(* What a study is of, and what the ledger says of its final window. *)

LedgerStages == {"seal", "insert", "count", "access", "status"}
SealSeen     == {"count", "access", "status"}
Looked       == {"compare", "assess", "save"} \cup Written

Named(windows, name) == windows[CHOOSE i \in DOMAIN windows : windows[i].name = name]
FinalFor(plan)       == Named(WindowsFor(plan), "out_of_sample")
HoldoutFor(plan)     == HoldoutId(plan, FinalFor(plan))
FingerprintFor(plan) == WindowFingerprint(FinalFor(plan), history[plan.data])

Origin(s) ==
  run[s].pc # "idle" =>
    LET plan == run[s].plan
    IN  /\ plan.data \in DOMAIN history /\ SplitFor(plan) # {}
        /\ run[s].windows = WindowsFor(plan)
        /\ run[s].report.id = ExperimentId(plan) /\ run[s].report.symbol = plan.symbol
        /\ run[s].pc \in LedgerStages => plan.ledger

\* The report names the look at the final window once it was had, and no other.
Reported(s) ==
  run[s].pc # "idle" =>
    IF run[s].pc \in Looked /\ run[s].plan.ledger
    THEN \E h : run[s].report.holdout = {h} /\ h.id = HoldoutFor(run[s].plan)
    ELSE run[s].report.holdout = {}

Sealed(plan) ==
  HoldoutFor(plan) \in DOMAIN seals /\ seals[HoldoutFor(plan)] = FingerprintFor(plan)

SealKnown(s) ==
  run[s].pc \in SealSeen \/ (run[s].pc \in Looked /\ run[s].plan.ledger) => Sealed(run[s].plan)

StudyOK(s) == Origin(s) /\ Reported(s) /\ SealKnown(s)

\* With the windows of the plan, the final window of a session is the plan's.
LEMMA FinalIsPlans ==
  ASSUME NEW s \in Sessions, run[s].pc # "idle", Origin(s)
  PROVE  /\ FinalWindow(s) = FinalFor(run[s].plan) /\ FinalHoldout(s) = HoldoutFor(run[s].plan)
         /\ FinalFingerprint(s) = FingerprintFor(run[s].plan)
  BY DEF Origin, FinalWindow, FinalHoldout, FinalFingerprint, WindowOf, FinalFor, Named,
         HoldoutFor, FingerprintFor, SeriesOf

\* Market data does not change under a study, and a seal is never replaced.
LEMMA SealsGrow ==
  ASSUME NEW s \in Sessions, StepOf(s)
  PROVE  /\ history' = history
         /\ \A h \in DOMAIN seals : h \in DOMAIN seals' /\ seals'[h] = seals[h]
<1>1. CASE InsertSeal(s)
  BY <1>1 DEF InsertSeal
<1>2. CASE ~InsertSeal(s)
  BY <1>2 DEF StepOf, Start, Register, RunDevelopmentWindows, CheckDoor, Sweep, StressAndCorrelate,
     PlanFolds, WalkFold, ScoreFinalWindow, LookUpSeal, CountTouches, InsertAccess, ReadStatus,
     CompareVariants, Conclude, BeginSave, FinishSave, RecordVerdict, Crash
<1> QED  BY <1>1, <1>2

\* A session that takes no step keeps what is known of it.
LEMMA StudyStaysOK ==
  ASSUME NEW u \in Sessions, StudyOK(u), run'[u] = run[u], history' = history,
         \A h \in DOMAIN seals : h \in DOMAIN seals' /\ seals'[h] = seals[h]
  PROVE  StudyOK(u)'
<1>1. Origin(u)'
  BY DEF StudyOK, Origin, SplitFor, WindowsFor
<1>2. Reported(u)'
  BY DEF StudyOK, Reported, HoldoutFor, FinalFor, WindowsFor, SplitFor
<1>3. SealKnown(u)'
  BY DEF StudyOK, SealKnown, Sealed, HoldoutFor, FingerprintFor, FinalFor, WindowsFor, SplitFor
<1> QED  BY <1>1, <1>2, <1>3 DEF StudyOK

\* The action is known from the stage, unless the study ends.
LEMMA ActionAt ==
  ASSUME Shape, NEW s \in Sessions, StepOf(s), Goes(s)
  PROVE  /\ run[s].pc = "develop" => RunDevelopmentWindows(s)
         /\ run[s].pc = "door" => CheckDoor(s)
         /\ run[s].pc = "sweep" => Sweep(s)
         /\ run[s].pc = "stress" => StressAndCorrelate(s)
         /\ run[s].pc = "plan" => PlanFolds(s)
         /\ run[s].pc = "folds" => WalkFold(s)
         /\ run[s].pc = "final" => ScoreFinalWindow(s)
         /\ run[s].pc = "seal" => LookUpSeal(s)
         /\ run[s].pc = "insert" => InsertSeal(s)
         /\ run[s].pc = "access" => InsertAccess(s)
         /\ run[s].pc = "status" => ReadStatus(s)
         /\ run[s].pc = "assess" => Conclude(s)
         /\ run[s].pc = "save" => BeginSave(s)
         /\ run[s].pc = "write" => FinishSave(s)
         /\ run[s].pc # "idle" /\ run'[s].pc # "idle"
<1>1. run[s].pc # "idle" /\ run'[s].pc # "idle"
  BY DEF Goes, IsJob, Stages, Written
<1>2. ~Crash(s) /\ \A plan \in Plans : ~Start(s, plan)
  <2>1. ~Crash(s)
    BY <1>1, EndMoves DEF Crash, Ends, Idle
  <2> QED  BY <1>1, <2>1 DEF Start
<1> QED
  BY <1>1, <1>2 DEF StepOf, Register, RunDevelopmentWindows, CheckDoor, Sweep, StressAndCorrelate,
     PlanFolds, WalkFold, ScoreFinalWindow, LookUpSeal, InsertSeal, CountTouches, InsertAccess,
     ReadStatus, CompareVariants, Conclude, BeginSave, FinishSave, RecordVerdict

\* A step of its session leaves a study consistent.
LEMMA OwnStudyStaysOK ==
  ASSUME Shape, NEW s \in Sessions, StudyOK(s), StepOf(s)
  PROVE  StudyOK(s)'
<1>g. /\ history' = history
      /\ \A h \in DOMAIN seals : h \in DOMAIN seals' /\ seals'[h] = seals[h]
  BY SealsGrow
<1>h. \A plan : /\ SplitFor(plan)' = SplitFor(plan) /\ WindowsFor(plan)' = WindowsFor(plan)
                /\ HoldoutFor(plan)' = HoldoutFor(plan) /\ FinalFor(plan)' = FinalFor(plan)
                /\ FingerprintFor(plan)' = FingerprintFor(plan)
  BY <1>g DEF SplitFor, WindowsFor, HoldoutFor, FingerprintFor, FinalFor
<1>1. CASE run' = run
  BY <1>1, <1>g, StudyStaysOK
<1>2. CASE Ends(s)
  BY <1>2 DEF Ends, Idle, StudyOK, Origin, Reported, SealKnown, SealSeen, Looked, Written
<1>3. CASE Begins(s)
  <2> DEFINE plan == run'[s].plan
  <2>1. /\ run'[s].pc = "register" /\ run'[s].report = NewReport(plan)
        /\ plan.data \in DOMAIN history /\ SplitFor(plan) # {} /\ run'[s].windows = WindowsFor(plan)
    BY <1>3 DEF Begins
  <2>2. /\ NewReport(plan).id = ExperimentId(plan) /\ NewReport(plan).symbol = plan.symbol
        /\ NewReport(plan).holdout = {}
    BY DEF NewReport
  <2> HIDE DEF plan
  <2>3. Origin(s)'
    BY <1>g, <1>h, <2>1, <2>2 DEF Origin, LedgerStages, plan
  <2>4. Reported(s)'
    BY <2>1, <2>2 DEF Reported, Looked, Written
  <2>5. SealKnown(s)'
    BY <2>1 DEF SealKnown, SealSeen, Looked, Written
  <2> QED  BY <2>3, <2>4, <2>5 DEF StudyOK
<1>4. CASE Goes(s)
  <2>1. /\ run'[s].plan = run[s].plan /\ run'[s].windows = run[s].windows
        /\ run'[s].report.id = run[s].report.id /\ run'[s].report.symbol = run[s].report.symbol
        /\ run[s].pc # "status" => run'[s].report.holdout = run[s].report.holdout
        /\ run[s].pc = "final" => (run'[s].pc = "seal" <=> run[s].plan.ledger)
        /\ run[s].pc # "idle" /\ run'[s].pc # "idle"
        /\ <<run[s].pc, run'[s].pc>> \in Transitions
    BY <1>4, ActionAt DEF Goes
  <2>2. Origin(s) /\ Reported(s) /\ SealKnown(s)
    BY DEF StudyOK
  <2>3. /\ FinalHoldout(s) = HoldoutFor(run[s].plan)
        /\ FinalFingerprint(s) = FingerprintFor(run[s].plan)
    BY <2>1, <2>2, FinalIsPlans
  <2>4. Origin(s)'
    <3>1. run'[s].pc \in LedgerStages => run[s].plan.ledger
      BY <2>1, <2>2 DEF Origin, LedgerStages, Transitions
    <3> QED  BY <1>g, <1>h, <2>1, <2>2, <3>1 DEF Origin
  <2>5. Reported(s)'
    <3>1. CASE run[s].pc = "status"
      <4>1. ReadStatus(s)
        BY <1>4, <3>1, ActionAt
      <4>2. \E h : run'[s].report.holdout = {h} /\ h.id = HoldoutFor(run[s].plan)
        <5> DEFINE look == [id |-> FinalHoldout(s), touch |-> run[s].touch,
                            touchCount |-> TouchCount(FinalHoldout(s)),
                            overTouched |-> TouchCount(FinalHoldout(s)) > 1,
                            integrityOk |-> seals[FinalHoldout(s)] = FinalFingerprint(s)]
        <5>1. run'[s].report.holdout = {look}
          BY <4>1, StatusMoves
        <5>2. look.id = HoldoutFor(run[s].plan)
          BY <2>3
        <5> HIDE DEF look
        <5> QED  BY <5>1, <5>2
      <4>3. run'[s].pc = "compare" /\ run[s].plan.ledger
        BY <2>1, <2>2, <3>1 DEF Transitions, Origin, LedgerStages
      <4> QED  BY <1>h, <2>1, <4>2, <4>3 DEF Reported, Looked
    <3>2. CASE run[s].pc # "status"
      <4>1. run'[s].pc \in Looked /\ run[s].plan.ledger <=> run[s].pc \in Looked /\ run[s].plan.ledger
        BY <2>1, <3>2 DEF Looked, Written, Transitions
      <4> QED  BY <1>h, <2>1, <2>2, <3>2, <4>1 DEF Reported
    <3> QED  BY <3>1, <3>2
  <2>6. SealKnown(s)'
    <3>1. Sealed(run[s].plan) => Sealed(run[s].plan)'
      BY <1>g, <1>h, <2>1 DEF Sealed
    <3>2. CASE run[s].pc = "seal"
      <4>1. LookUpSeal(s)
        BY <1>4, <3>2, ActionAt
      <4>2. run'[s].pc = "count" => Sealed(run[s].plan)
        <5>1. CASE FinalHoldout(s) \notin DOMAIN seals
          <6>1. Continue(s, "insert")
            BY <4>1, <5>1 DEF LookUpSeal
          <6>2. run'[s].pc = "insert"
            BY <3>2, <6>1, ContinueMoves DEF Moves, Stages, Written
          <6> QED  BY <6>2
        <5>2. CASE FinalHoldout(s) \in DOMAIN seals /\ seals[FinalHoldout(s)] # FinalFingerprint(s)
          <6>1. End(s)
            BY <4>1, <5>2 DEF LookUpSeal
          <6> QED  BY <2>1, <6>1, EndMoves DEF Ends, Idle
        <5>3. CASE FinalHoldout(s) \in DOMAIN seals /\ seals[FinalHoldout(s)] = FinalFingerprint(s)
          BY <2>3, <5>3 DEF Sealed
        <5> QED  BY <5>1, <5>2, <5>3
      <4> QED  BY <2>1, <3>1, <3>2, <4>2 DEF SealKnown, SealSeen, Looked, Written, Transitions
    <3>3. CASE run[s].pc = "insert"
      <4>1. InsertSeal(s)
        BY <1>4, <3>3, ActionAt
      <4>2. FinalHoldout(s) \in DOMAIN seals => run'[s] = Idle
        BY <4>1, EndMoves DEF InsertSeal, Ends
      <4>3. FinalHoldout(s) \notin DOMAIN seals
        BY <2>1, <4>2 DEF Idle
      <4>4. FinalHoldout(s) \in DOMAIN seals' /\ seals'[FinalHoldout(s)] = FinalFingerprint(s)
        BY <4>1, <4>3 DEF InsertSeal
      <4>5. Sealed(run[s].plan)'
        BY <1>h, <2>1, <2>3, <4>4 DEF Sealed
      <4> QED  BY <2>1, <4>5 DEF SealKnown
    <3>4. CASE run[s].pc \notin {"seal", "insert"}
      <4>1. \/ run'[s].pc \in SealSeen \/ (run'[s].pc \in Looked /\ run[s].plan.ledger)
            => run[s].pc \in SealSeen \/ (run[s].pc \in Looked /\ run[s].plan.ledger)
        BY <2>1, <3>4 DEF SealSeen, Looked, Written, Transitions
      <4> QED  BY <2>1, <2>2, <3>1, <4>1 DEF SealKnown
    <3> QED  BY <3>2, <3>3, <3>4
  <2> QED  BY <2>4, <2>5, <2>6 DEF StudyOK
<1> QED  BY <1>1, <1>2, <1>3, <1>4, StepGoes

---------------------------------------------------------------------------
(* Looks at the final window: every report stands for an entry of the ledger *)
(* of its own, and the one that says its look was the first has the first.   *)

Fresh(report) == report.holdout # {} /\ \A h \in report.holdout : ~h.overTouched

\* A file makes the claim only of a fresh look.
FileOK(s) == run[s].pc \in Written /\ ClaimsFreshLook(run[s].report) => Fresh(run[s].report)

PublishedOK(i) ==
  /\ \E plan \in Plans :
       /\ plan.data \in DOMAIN history /\ published[i].id = ExperimentId(plan)
       /\ \A h \in published[i].holdout : h.id = HoldoutFor(plan) /\ Sealed(plan)
  /\ ClaimsFreshLook(published[i]) => Fresh(published[i])

\* The session's own entry is in the ledger and its report is not yet out.
Holds(s) ==
  run[s].pc \in {"status", "compare", "assess", "save", "write"} /\ run[s].plan.ledger

FirstLook(k) ==
  \A j \in DOMAIN accesses : accesses[j].holdout = accesses[k].holdout => k <= j

\* own[s] is the entry of session s, shown[i] that of the i-th published report.
Entries(own, shown) ==
  /\ \A s \in Sessions : Holds(s) =>
       /\ own[s] \in DOMAIN accesses
       /\ accesses[own[s]].holdout = HoldoutFor(run[s].plan)
       /\ accesses[own[s]].experiment = ExperimentId(run[s].plan)
       /\ run[s].pc # "status" /\ Fresh(run[s].report) => FirstLook(own[s])
  /\ \A i \in DOMAIN published : published[i].holdout # {} =>
       /\ shown[i] \in DOMAIN accesses
       /\ \A h \in published[i].holdout : accesses[shown[i]].holdout = h.id
       /\ accesses[shown[i]].experiment = published[i].id
       /\ Fresh(published[i]) => FirstLook(shown[i])

Distinct(own, shown) ==
  /\ \A s, u \in Sessions : Holds(s) /\ Holds(u) /\ own[s] = own[u] => s = u
  /\ \A i, j \in DOMAIN published :
       published[i].holdout # {} /\ published[j].holdout # {} /\ shown[i] = shown[j] => i = j
  /\ \A s \in Sessions, i \in DOMAIN published :
       Holds(s) /\ published[i].holdout # {} => own[s] # shown[i]

LedgerOK ==
  \E own \in [Sessions -> Nat], shown \in [DOMAIN published -> Nat] :
    Entries(own, shown) /\ Distinct(own, shown)

LooksOK ==
  /\ IsSeq(accesses) /\ IsSeq(published)
  /\ \A s \in Sessions : FileOK(s)
  /\ \A i \in DOMAIN published : PublishedOK(i)
  /\ LedgerOK

\* A sequence, and the sequence with one element more.
LEMMA SeqFacts ==
  ASSUME NEW q, IsSeq(q), NEW x
  PROVE  /\ Len(q) \in Nat /\ DOMAIN q = 1 .. Len(q)
         /\ IsSeq(Append(q, x)) /\ DOMAIN Append(q, x) = 1 .. Len(q) + 1
         /\ \A i \in DOMAIN q : i \in DOMAIN Append(q, x) /\ Append(q, x)[i] = q[i]
         /\ Append(q, x)[Len(q) + 1] = x
<1> DEFINE S == {q[i] : i \in DOMAIN q} \cup {x}
           a == Append(q, x)
<1>1. q \in Seq(S) /\ x \in S
  BY DEF IsSeq
<1>2. Len(q) \in Nat /\ DOMAIN q = 1 .. Len(q)
  BY <1>1
<1> HIDE DEF S
<1>3. /\ a \in Seq(S) /\ Len(a) = Len(q) + 1
      /\ \A i \in 1 .. Len(q) : a[i] = q[i]
      /\ a[Len(q) + 1] = x
  BY <1>1
<1>4. DOMAIN a = 1 .. Len(q) + 1
  BY <1>2, <1>3
<1> HIDE DEF a
<1>5. a \in Seq({a[i] : i \in DOMAIN a})
  <2>1. a = [i \in 1 .. Len(q) + 1 |-> a[i]]
    BY <1>3, <1>4
  <2>2. Len(q) + 1 \in Nat /\ \A i \in 1 .. Len(q) + 1 : a[i] \in {a[k] : k \in DOMAIN a}
    BY <1>2, <1>4
  <2> QED  BY <2>1, <2>2, IsASeq
<1> QED  BY <1>2, <1>3, <1>4, <1>5 DEF a, IsSeq

\* Nothing but an entry, a look at the count and a publication changes the picture.
LEMMA LooksUndisturbed ==
  ASSUME LooksOK, history' = history, accesses' = accesses, published' = published,
         \A h \in DOMAIN seals : h \in DOMAIN seals' /\ seals'[h] = seals[h],
         \A s \in Sessions :
           /\ Holds(s)' => /\ Holds(s) /\ run'[s].plan = run[s].plan
                           /\ run'[s].pc # "status" /\ Fresh(run'[s].report) =>
                                run[s].pc # "status" /\ Fresh(run[s].report)
           /\ FileOK(s)'
  PROVE  LooksOK'
<1>h. \A plan : HoldoutFor(plan)' = HoldoutFor(plan) /\ (Sealed(plan) => Sealed(plan)')
  BY DEF HoldoutFor, FinalFor, WindowsFor, SplitFor, Sealed, FingerprintFor
<1>1. ASSUME NEW i \in DOMAIN published' PROVE PublishedOK(i)'
  <2>1. PublishedOK(i)
    BY <1>1 DEF LooksOK
  <2> QED  BY <1>h, <2>1 DEF PublishedOK
<1>2. PICK own \in [Sessions -> Nat], shown \in [DOMAIN published -> Nat] :
        Entries(own, shown) /\ Distinct(own, shown)
  BY DEF LooksOK, LedgerOK
<1>3. Entries(own, shown)'
  BY <1>2, <1>h DEF Entries, FirstLook
<1>4. Distinct(own, shown)'
  BY <1>2 DEF Distinct
<1>5. LedgerOK'
  BY <1>2, <1>3, <1>4 DEF LedgerOK
<1> QED  BY <1>1, <1>5 DEF LooksOK, IsSeq

\* A file that claims a fresh look reports one that was not over-touched.
LEMMA EvidenceOfLook ==
  ASSUME NEW r, ClaimsFreshLook(ToDict(r))
  PROVE  Fresh(ToDict(r))
<1>1. ToDict(r).evidence = EvidenceSummary(r) /\ ToDict(r).holdout = r.holdout
  BY DEF ToDict
<1>2. EvidenceSummary(r).holdout = HoldoutEvidence(r)
  BY DEF EvidenceSummary
<1>3. HoldoutEvidence(r) = "PARTIAL"
  BY <1>1, <1>2 DEF ClaimsFreshLook
<1>4. r.holdout # {} /\ \A h \in r.holdout : h.integrityOk /\ ~h.overTouched
  BY <1>3 DEF HoldoutEvidence
<1> QED  BY <1>1, <1>4 DEF Fresh

\* What the file of the session says, after any step of it.
LEMMA FileStaysOK ==
  ASSUME Shape, NEW s \in Sessions, StepOf(s), FileOK(s)
  PROVE  FileOK(s)'
<1>1. CASE run' = run
  BY <1>1 DEF FileOK
<1>2. CASE Ends(s) \/ Begins(s)
  BY <1>2 DEF Ends, Begins, Idle, FileOK, Written
<1>3. CASE Goes(s)
  <2>1. CASE run[s].pc = "save"
    <3>1. run'[s].report = ToDict(ReportOf(s))
      BY <1>3, <2>1, ActionAt, BeginSaveMoves
    <3> QED  BY <3>1, EvidenceOfLook DEF FileOK
  <2>2. CASE run[s].pc = "write"
    <3>1. FinishSave(s)
      BY <1>3, <2>2, ActionAt
    <3>2. Moves(s, "write", "record", {}, {})
      BY <2>2, <3>1, ContinueMoves DEF FinishSave, Stages, Written
    <3>3. run'[s].report = run[s].report
      BY <3>2 DEF Moves, JobFields
    <3> QED  BY <2>2, <3>3 DEF FileOK, Written
  <2>3. CASE run[s].pc \notin {"save", "write"}
    BY <1>3, <2>3 DEF Goes, Transitions, FileOK, Written
  <2> QED  BY <2>1, <2>2, <2>3
<1> QED  BY <1>1, <1>2, <1>3, StepGoes

\* InsertAccess: the entry is new, and the last.
LEMMA LooksAfterEntry ==
  ASSUME Shape, LooksOK, NEW s \in Sessions, StudyOK(s), InsertAccess(s)
  PROVE  LooksOK'
<1> DEFINE entry == [holdout |-> FinalHoldout(s), touch |-> run[s].touch,
                     experiment |-> ExperimentId(run[s].plan),
                     integrityOk |-> seals[FinalHoldout(s)] = FinalFingerprint(s)]
<1>1. /\ run[s].pc = "access" /\ accesses' = Append(accesses, entry) /\ Continue(s, "status")
      /\ history' = history /\ seals' = seals /\ published' = published
  BY DEF InsertAccess
<1>2. Moves(s, "access", "status", {}, {}) /\ Others(s)
  BY <1>1, ContinueMoves DEF Moves, Stages, Written
<1>3. run'[s].plan = run[s].plan /\ run'[s].pc = "status"
  BY <1>2 DEF Moves, JobFields
<1>4. entry.holdout = HoldoutFor(run[s].plan) /\ entry.experiment = ExperimentId(run[s].plan)
  BY <1>1, FinalIsPlans DEF StudyOK
<1> HIDE DEF entry
<1>n. PICK n \in Nat : n = Len(accesses) + 1 /\ n > 0
  BY SeqFacts DEF LooksOK
<1>5. /\ Len(accesses) \in Nat /\ DOMAIN accesses = 1 .. Len(accesses) /\ IsSeq(accesses')
      /\ DOMAIN accesses' = 1 .. n /\ accesses'[n] = entry
      /\ \A k \in DOMAIN accesses : k \in DOMAIN accesses' /\ accesses'[k] = accesses[k]
  BY <1>1, <1>n, SeqFacts DEF LooksOK
<1>6. n \in Nat /\ n > 0 /\ n \notin DOMAIN accesses
  BY <1>5, <1>n
<1>7. PICK own \in [Sessions -> Nat], shown \in [DOMAIN published -> Nat] :
        Entries(own, shown) /\ Distinct(own, shown)
  BY DEF LooksOK, LedgerOK
<1> DEFINE own2 == [u \in Sessions |-> IF u = s THEN n ELSE own[u]]
<1>8. own2 \in [Sessions -> Nat] /\ own2[s] = n /\ \A u \in Sessions \ {s} : own2[u] = own[u]
  BY <1>6, <1>7
<1> HIDE DEF own2
<1>9. \A k \in DOMAIN accesses : FirstLook(k) => FirstLook(k)'
  <2> SUFFICES ASSUME NEW k \in DOMAIN accesses, FirstLook(k), NEW j \in DOMAIN accesses',
                      accesses'[j].holdout = accesses'[k].holdout
               PROVE  k <= j
    BY DEF FirstLook
  <2>1. CASE j \in DOMAIN accesses
    BY <1>5, <2>1 DEF FirstLook
  <2>2. CASE j \notin DOMAIN accesses
    BY <1>5, <1>n, <2>2
  <2> QED  BY <2>1, <2>2
<1>h. \A plan : HoldoutFor(plan)' = HoldoutFor(plan) /\ Sealed(plan)' = Sealed(plan)
  BY <1>1 DEF HoldoutFor, FinalFor, WindowsFor, SplitFor, Sealed, FingerprintFor
<1>10. \A u \in Sessions \ {s} : Holds(u)' = Holds(u) /\ run'[u] = run[u]
  BY <1>2 DEF Others, Holds
<1>11. ~Holds(s)
  BY <1>1 DEF Holds
<1>12. Entries(own2, shown)'
  <2>1. ASSUME NEW u \in Sessions, Holds(u)'
        PROVE  /\ own2[u] \in DOMAIN accesses'
               /\ accesses'[own2[u]].holdout = HoldoutFor(run'[u].plan)
               /\ accesses'[own2[u]].experiment = ExperimentId(run'[u].plan)
               /\ run'[u].pc # "status" /\ Fresh(run'[u].report) => FirstLook(own2[u])'
    <3>1. CASE u = s
      <4>1. n \in DOMAIN accesses'
        BY <1>5, <1>6
      <4> QED  BY <1>3, <1>4, <1>5, <1>8, <3>1, <4>1
    <3>2. CASE u # s
      <4>1. Holds(u) /\ run'[u] = run[u] /\ own2[u] = own[u]
        BY <1>8, <1>10, <2>1, <3>2
      <4>2. /\ own[u] \in DOMAIN accesses /\ accesses[own[u]].holdout = HoldoutFor(run[u].plan)
            /\ accesses[own[u]].experiment = ExperimentId(run[u].plan)
            /\ run[u].pc # "status" /\ Fresh(run[u].report) => FirstLook(own[u])
        BY <1>7, <4>1 DEF Entries
      <4> QED  BY <1>5, <1>9, <4>1, <4>2
    <3> QED  BY <3>1, <3>2
  <2>2. ASSUME NEW i \in DOMAIN published, published[i].holdout # {}
        PROVE  /\ shown[i] \in DOMAIN accesses'
               /\ \A h \in published[i].holdout : accesses'[shown[i]].holdout = h.id
               /\ accesses'[shown[i]].experiment = published[i].id
               /\ Fresh(published[i]) => FirstLook(shown[i])'
    BY <1>5, <1>7, <1>9, <2>2 DEF Entries
  <2> QED  BY <1>1, <1>h, <2>1, <2>2 DEF Entries
<1>13. Distinct(own2, shown)'
  <2>1. \A u \in Sessions \ {s} : Holds(u) => own2[u] \in DOMAIN accesses
    BY <1>7, <1>8 DEF Entries
  <2>2. \A i \in DOMAIN published : published[i].holdout # {} => shown[i] \in DOMAIN accesses
    BY <1>7 DEF Entries
  <2>3. \A u, v \in Sessions : Holds(u)' /\ Holds(v)' /\ own2[u] = own2[v] => u = v
    BY <1>6, <1>7, <1>8, <1>10, <2>1 DEF Distinct
  <2>4. \A u \in Sessions, i \in DOMAIN published :
          Holds(u)' /\ published[i].holdout # {} => own2[u] # shown[i]
    BY <1>6, <1>7, <1>8, <1>10, <2>2 DEF Distinct
  <2> QED  BY <1>1, <1>7, <2>3, <2>4 DEF Distinct
<1>14. LedgerOK'
  BY <1>1, <1>7, <1>8, <1>12, <1>13 DEF LedgerOK
<1>15. \A u \in Sessions : FileOK(u)'
  BY <1>3, <1>10 DEF FileOK, LooksOK, Written
<1>16. \A i \in DOMAIN published' : PublishedOK(i)'
  BY <1>1, <1>h DEF LooksOK, PublishedOK
<1> QED  BY <1>1, <1>5, <1>14, <1>15, <1>16 DEF LooksOK, IsSeq

\* A finite set that has not more than one element has one at most.
LEMMA OnlyOne ==
  ASSUME NEW S, IsFiniteSet(S), ~(Cardinality(S) > 1), NEW a \in S, NEW b \in S
  PROVE  a = b
<1> SUFFICES ASSUME a # b PROVE FALSE
  OBVIOUS
<1>1. IsFiniteSet({a}) /\ Cardinality({a}) = 1
  BY FS_Singleton
<1>2. Cardinality({a} \cup {b}) = 2
  BY <1>1, FS_AddElement
<1>3. {a} \cup {b} \subseteq S
  OBVIOUS
<1>4. Cardinality({a} \cup {b}) <= Cardinality(S)
  BY <1>3, FS_Subset
<1>5. Cardinality(S) \in Nat
  BY FS_CardinalityType
<1> QED  BY <1>2, <1>4, <1>5

\* ReadStatus: one touch in all means that the session's own entry is the first.
LEMMA LooksAfterStatus ==
  ASSUME Shape, LooksOK, NEW s \in Sessions, StudyOK(s), ReadStatus(s)
  PROVE  LooksOK'
<1> DEFINE look == [id |-> FinalHoldout(s), touch |-> run[s].touch,
                    touchCount |-> TouchCount(FinalHoldout(s)),
                    overTouched |-> TouchCount(FinalHoldout(s)) > 1,
                    integrityOk |-> seals[FinalHoldout(s)] = FinalFingerprint(s)]
<1>1. /\ run[s].pc = "status" /\ accesses' = accesses /\ published' = published
      /\ history' = history /\ seals' = seals
  BY DEF ReadStatus
<1>2. Moves(s, "status", "compare", {"report"}, {"holdout"}) /\ run'[s].report.holdout = {look}
  BY StatusMoves
<1>3. run'[s].plan = run[s].plan /\ run'[s].pc = "compare" /\ Others(s)
  BY <1>2 DEF Moves, JobFields
<1>4. look.overTouched = (TouchCount(FinalHoldout(s)) > 1)
  OBVIOUS
<1> HIDE DEF look
<1>5. FinalHoldout(s) = HoldoutFor(run[s].plan) /\ run[s].plan.ledger
  BY <1>1, FinalIsPlans DEF StudyOK, Origin, LedgerStages
<1>6. PICK own \in [Sessions -> Nat], shown \in [DOMAIN published -> Nat] :
        Entries(own, shown) /\ Distinct(own, shown)
  BY DEF LooksOK, LedgerOK
<1>7. Holds(s) /\ own[s] \in DOMAIN accesses /\ accesses[own[s]].holdout = HoldoutFor(run[s].plan)
  BY <1>1, <1>5, <1>6 DEF Holds, Entries
<1>8. Fresh(run'[s].report) => FirstLook(own[s])
  <2> SUFFICES ASSUME Fresh(run'[s].report), NEW j \in DOMAIN accesses,
                      accesses[j].holdout = accesses[own[s]].holdout
               PROVE  own[s] <= j
    BY DEF FirstLook
  <2> DEFINE touches == {i \in DOMAIN accesses : accesses[i].holdout = FinalHoldout(s)}
  <2>1. ~(TouchCount(FinalHoldout(s)) > 1)
    BY <1>2, <1>4 DEF Fresh
  <2>2. DOMAIN accesses = 1 .. Len(accesses) /\ Len(accesses) \in Nat
    BY SeqFacts DEF LooksOK
  <2>3. IsFiniteSet(DOMAIN accesses)
    BY <2>2, FS_Interval
  <2>4. IsFiniteSet(touches)
    BY <2>3, FS_Subset
  <2>5. own[s] \in touches /\ j \in touches
    BY <1>5, <1>7
  <2>6. ~(Cardinality(touches) > 1)
    BY <2>1 DEF TouchCount
  <2> HIDE DEF touches
  <2>7. own[s] = j
    BY <2>4, <2>5, <2>6, OnlyOne
  <2>8. own[s] \in Nat
    BY <1>6
  <2> QED  BY <2>7, <2>8
<1>h. \A plan : HoldoutFor(plan)' = HoldoutFor(plan) /\ Sealed(plan)' = Sealed(plan)
  BY <1>1 DEF HoldoutFor, FinalFor, WindowsFor, SplitFor, Sealed, FingerprintFor
<1>f. \A k : FirstLook(k)' = FirstLook(k)
  BY <1>1 DEF FirstLook
<1>9. \A u \in Sessions : u # s => run'[u] = run[u] /\ Holds(u)' = Holds(u)
  BY <1>3 DEF Others, Holds
<1>10. Holds(s)'
  BY <1>3, <1>5 DEF Holds
<1>11. Entries(own, shown)'
  <2>1. ASSUME NEW u \in Sessions, Holds(u)'
        PROVE  /\ own[u] \in DOMAIN accesses'
               /\ accesses'[own[u]].holdout = HoldoutFor(run'[u].plan)
               /\ accesses'[own[u]].experiment = ExperimentId(run'[u].plan)
               /\ run'[u].pc # "status" /\ Fresh(run'[u].report) => FirstLook(own[u])'
    <3>1. Holds(u) /\ run'[u].plan = run[u].plan
      BY <1>3, <1>7, <1>9, <2>1
    <3>2. /\ own[u] \in DOMAIN accesses /\ accesses[own[u]].holdout = HoldoutFor(run[u].plan)
          /\ accesses[own[u]].experiment = ExperimentId(run[u].plan)
          /\ run[u].pc # "status" /\ Fresh(run[u].report) => FirstLook(own[u])
      BY <1>6, <3>1 DEF Entries
    <3>3. run'[u].pc # "status" /\ Fresh(run'[u].report) => FirstLook(own[u])
      BY <1>8, <1>9, <3>2
    <3> QED  BY <1>1, <1>f, <3>1, <3>2, <3>3
  <2>2. ASSUME NEW i \in DOMAIN published, published[i].holdout # {}
        PROVE  /\ shown[i] \in DOMAIN accesses
               /\ \A h \in published[i].holdout : accesses[shown[i]].holdout = h.id
               /\ accesses[shown[i]].experiment = published[i].id
               /\ Fresh(published[i]) => FirstLook(shown[i])
    BY <1>6, <2>2 DEF Entries
  <2> QED  BY <1>1, <1>h, <1>f, <2>1, <2>2 DEF Entries
<1>12. Distinct(own, shown)'
  <2>1. \A u \in Sessions : Holds(u)' => Holds(u)
    BY <1>7, <1>9
  <2> QED  BY <1>1, <1>6, <2>1 DEF Distinct
<1>13. LedgerOK'
  BY <1>1, <1>6, <1>11, <1>12 DEF LedgerOK
<1>14. \A u \in Sessions : FileOK(u)'
  BY <1>3, <1>9 DEF FileOK, LooksOK, Written
<1>15. \A i \in DOMAIN published' : PublishedOK(i)'
  BY <1>1, <1>h DEF LooksOK, PublishedOK
<1> QED  BY <1>1, <1>13, <1>14, <1>15 DEF LooksOK, IsSeq

\* A published report: the session's entry becomes the entry of the report.
LEMMA LooksAfterPublication ==
  ASSUME Shape, LooksOK, NEW s \in Sessions, StudyOK(s), FinishSave(s),
         published' = Append(published, ReportOf(s))
  PROVE  LooksOK'
<1>1. /\ run[s].pc = "write" /\ accesses' = accesses /\ history' = history /\ seals' = seals
      /\ Continue(s, "record")
  BY DEF FinishSave
<1>2. Moves(s, "write", "record", {}, {}) /\ Others(s)
  BY <1>1, ContinueMoves DEF Moves, Stages, Written
<1>3. /\ run'[s].pc = "record" /\ run'[s].report = run[s].report /\ IsJob(run[s])
  BY <1>2 DEF Moves, JobFields
<1>n. PICK m \in Nat : m = Len(published) + 1 /\ m > 0
  BY SeqFacts DEF LooksOK
<1>4. /\ DOMAIN published = 1 .. m - 1 /\ IsSeq(published') /\ DOMAIN published' = 1 .. m
      /\ published'[m] = run[s].report
      /\ \A i \in DOMAIN published : i \in DOMAIN published' /\ published'[i] = published[i]
  BY <1>n, SeqFacts DEF LooksOK, ReportOf
<1>5. m \notin DOMAIN published /\ \A i \in DOMAIN published' : i = m \/ i \in DOMAIN published
  BY <1>4
<1>6. PICK own \in [Sessions -> Nat], shown \in [DOMAIN published -> Nat] :
        Entries(own, shown) /\ Distinct(own, shown)
  BY DEF LooksOK, LedgerOK
<1>h. \A plan : HoldoutFor(plan)' = HoldoutFor(plan) /\ Sealed(plan)' = Sealed(plan)
  BY <1>1 DEF HoldoutFor, FinalFor, WindowsFor, SplitFor, Sealed, FingerprintFor
<1>f. \A k : FirstLook(k)' = FirstLook(k)
  BY <1>1 DEF FirstLook
<1>7. /\ run[s].report.id = ExperimentId(run[s].plan) /\ run[s].plan.data \in DOMAIN history
      /\ run[s].plan \in Plans
  BY <1>1, <1>3 DEF StudyOK, Origin, IsJob
<1>8. run[s].report.holdout # {} =>
        /\ run[s].plan.ledger /\ Sealed(run[s].plan) /\ Holds(s)
        /\ \A h \in run[s].report.holdout : h.id = HoldoutFor(run[s].plan)
  BY <1>1 DEF StudyOK, Reported, SealKnown, Looked, Written, Holds
<1>9. ClaimsFreshLook(run[s].report) => Fresh(run[s].report)
  BY <1>1 DEF LooksOK, FileOK, Written
<1> DEFINE shown2 == [i \in DOMAIN published' |-> IF i = m THEN own[s] ELSE shown[i]]
<1>10. PICK see \in [DOMAIN published' -> Nat] : see = shown2
  BY <1>5, <1>6
<1>11. see[m] = own[s] /\ \A i \in DOMAIN published : see[i] = shown[i]
  BY <1>4, <1>5, <1>10
<1> HIDE DEF shown2
<1>12. \A u \in Sessions : Holds(u)' => u # s /\ Holds(u) /\ run'[u] = run[u]
  BY <1>2, <1>3 DEF Others, Holds
<1>13. ASSUME NEW i \in DOMAIN published', published'[i].holdout # {}
       PROVE  /\ see[i] \in DOMAIN accesses
              /\ \A h \in published'[i].holdout : accesses[see[i]].holdout = h.id
              /\ accesses[see[i]].experiment = published'[i].id
              /\ Fresh(published'[i]) => FirstLook(see[i])
  <2>1. CASE i = m
    <3>1. Holds(s) /\ \A h \in run[s].report.holdout : h.id = HoldoutFor(run[s].plan)
      BY <1>4, <1>8, <1>13, <2>1
    <3>2. /\ own[s] \in DOMAIN accesses
          /\ accesses[own[s]].holdout = HoldoutFor(run[s].plan)
          /\ accesses[own[s]].experiment = ExperimentId(run[s].plan)
          /\ Fresh(run[s].report) => FirstLook(own[s])
      BY <1>1, <1>6, <3>1 DEF Entries
    <3> QED  BY <1>4, <1>7, <1>11, <2>1, <3>1, <3>2
  <2>2. CASE i \in DOMAIN published
    <3>1. published'[i] = published[i] /\ see[i] = shown[i]
      BY <1>4, <1>11, <2>2
    <3>2. published[i].holdout # {} =>
            /\ shown[i] \in DOMAIN accesses
            /\ \A h \in published[i].holdout : accesses[shown[i]].holdout = h.id
            /\ accesses[shown[i]].experiment = published[i].id
            /\ Fresh(published[i]) => FirstLook(shown[i])
      BY <1>6, <2>2 DEF Entries
    <3> QED  BY <1>13, <3>1, <3>2
  <2> QED  BY <1>5, <2>1, <2>2
<1>14. ASSUME NEW u \in Sessions, Holds(u)'
       PROVE  /\ own[u] \in DOMAIN accesses /\ accesses[own[u]].holdout = HoldoutFor(run'[u].plan)
              /\ accesses[own[u]].experiment = ExperimentId(run'[u].plan)
              /\ run'[u].pc # "status" /\ Fresh(run'[u].report) => FirstLook(own[u])
  <2>1. Holds(u) /\ run'[u] = run[u]
    BY <1>12, <1>14
  <2>2. /\ own[u] \in DOMAIN accesses /\ accesses[own[u]].holdout = HoldoutFor(run[u].plan)
        /\ accesses[own[u]].experiment = ExperimentId(run[u].plan)
        /\ run[u].pc # "status" /\ Fresh(run[u].report) => FirstLook(own[u])
    BY <1>6, <2>1 DEF Entries
  <2> QED  BY <2>1, <2>2
<1>15. Entries(own, see)'
  BY <1>1, <1>h, <1>f, <1>13, <1>14 DEF Entries
<1>16. Distinct(own, see)'
  <2>1. \A u, v \in Sessions : Holds(u)' /\ Holds(v)' /\ own[u] = own[v] => u = v
    BY <1>6, <1>12 DEF Distinct
  <2>2. \A i \in DOMAIN published : published[i].holdout # {} /\ Holds(s) => own[s] # shown[i]
    BY <1>6 DEF Distinct
  <2>3. \A i, j \in DOMAIN published :
          published[i].holdout # {} /\ published[j].holdout # {} /\ shown[i] = shown[j] => i = j
    BY <1>6 DEF Distinct
  <2>4. published'[m].holdout # {} => Holds(s)
    BY <1>4, <1>8
  <2>5. \A i, j \in DOMAIN published' :
          published'[i].holdout # {} /\ published'[j].holdout # {} /\ see[i] = see[j] => i = j
    <3> SUFFICES ASSUME NEW i \in DOMAIN published', NEW j \in DOMAIN published',
                        published'[i].holdout # {}, published'[j].holdout # {}, see[i] = see[j]
                 PROVE  i = j
      OBVIOUS
    <3>1. CASE i = m /\ j = m
      BY <3>1
    <3>2. CASE i = m /\ j \in DOMAIN published
      BY <1>4, <1>11, <2>2, <2>4, <3>2
    <3>3. CASE j = m /\ i \in DOMAIN published
      BY <1>4, <1>11, <2>2, <2>4, <3>3
    <3>4. CASE i \in DOMAIN published /\ j \in DOMAIN published
      <4>1. published[i].holdout # {} /\ published[j].holdout # {} /\ shown[i] = shown[j]
        BY <1>4, <1>11, <3>4
      <4> QED  BY <2>3, <3>4, <4>1
    <3> QED  BY <1>5, <3>1, <3>2, <3>3, <3>4
  <2>6. \A u \in Sessions, i \in DOMAIN published :
          Holds(u)' /\ published[i].holdout # {} => own[u] # shown[i]
    BY <1>6, <1>12 DEF Distinct
  <2>7. \A u \in Sessions : Holds(u)' /\ Holds(s) => own[u] # own[s]
    BY <1>6, <1>12 DEF Distinct
  <2>8. \A u \in Sessions, i \in DOMAIN published' :
          Holds(u)' /\ published'[i].holdout # {} => own[u] # see[i]
    BY <1>4, <1>5, <1>11, <2>4, <2>6, <2>7
  <2> QED  BY <2>1, <2>5, <2>8 DEF Distinct
<1>17. LedgerOK'
  BY <1>6, <1>10, <1>15, <1>16 DEF LedgerOK
<1>18. \A u \in Sessions : FileOK(u)'
  BY <1>1, <1>2, <1>3 DEF FileOK, LooksOK, Written, Others
<1>19. ASSUME NEW i \in DOMAIN published' PROVE PublishedOK(i)'
  <2>1. CASE i = m
    <3>1. /\ published'[i].id = ExperimentId(run[s].plan)
          /\ \A h \in published'[i].holdout : h.id = HoldoutFor(run[s].plan) /\ Sealed(run[s].plan)
      BY <1>4, <1>7, <1>8, <2>1
    <3> QED  BY <1>1, <1>h, <1>4, <1>7, <1>9, <2>1, <3>1 DEF PublishedOK
  <2>2. CASE i \in DOMAIN published
    BY <1>1, <1>h, <1>4, <2>2 DEF LooksOK, PublishedOK
  <2> QED  BY <1>5, <2>1, <2>2
<1> QED  BY <1>1, <1>4, <1>17, <1>18, <1>19 DEF LooksOK, IsSeq

\* Any step of any session.
LEMMA LooksStep ==
  ASSUME Shape, LooksOK, NEW s \in Sessions, StudyOK(s), StepOf(s)
  PROVE  LooksOK'
<1>1. CASE InsertAccess(s)
  BY <1>1, LooksAfterEntry
<1>2. CASE ReadStatus(s)
  BY <1>2, LooksAfterStatus
<1>3. CASE FinishSave(s) /\ published' = Append(published, ReportOf(s))
  BY <1>3, LooksAfterPublication
<1>4. CASE /\ ~InsertAccess(s) /\ ~ReadStatus(s)
           /\ ~(FinishSave(s) /\ published' = Append(published, ReportOf(s)))
  <2>1. accesses' = accesses /\ published' = published
    <3>1. CASE FinishSave(s)
      BY <1>4, <3>1 DEF FinishSave
    <3>2. CASE ~FinishSave(s)
      BY <1>4, <3>2 DEF StepOf, Start, Register, RunDevelopmentWindows, CheckDoor, Sweep,
         StressAndCorrelate, PlanFolds, WalkFold, ScoreFinalWindow, LookUpSeal, InsertSeal,
         CountTouches, CompareVariants, Conclude, BeginSave, RecordVerdict, Crash
    <3> QED  BY <3>1, <3>2
  <2>2. /\ history' = history
        /\ \A h \in DOMAIN seals : h \in DOMAIN seals' /\ seals'[h] = seals[h]
    BY SealsGrow
  <2>3. FileOK(s)'
    BY FileStaysOK DEF LooksOK
  <2>4. Holds(s)' => /\ Holds(s) /\ run'[s].plan = run[s].plan
                     /\ run'[s].pc # "status" /\ Fresh(run'[s].report) =>
                          run[s].pc # "status" /\ Fresh(run[s].report)
    <3>1. CASE run' = run
      BY <3>1 DEF Holds
    <3>2. CASE Ends(s) \/ Begins(s)
      BY <3>2 DEF Ends, Begins, Idle, Holds
    <3>3. CASE Goes(s)
      <4>1. run[s].pc # "access" /\ run[s].pc # "status"
        BY <1>4, <3>3, ActionAt
      <4>2. /\ <<run[s].pc, run'[s].pc>> \in Transitions /\ run'[s].plan = run[s].plan
            /\ run'[s].report.holdout = run[s].report.holdout
            /\ run[s].pc = "final" => (run'[s].pc = "seal" <=> run[s].plan.ledger)
        BY <3>3, <4>1 DEF Goes
      <4>3. Fresh(run'[s].report) = Fresh(run[s].report)
        BY <4>2 DEF Fresh
      <4> QED  BY <4>1, <4>2, <4>3 DEF Holds, Transitions
    <3> QED  BY <3>1, <3>2, <3>3, StepGoes
  <2>5. \A u \in Sessions \ {s} : run'[u] = run[u]
    BY StepGoes DEF Ends, Begins, Goes, Others
  <2>6. \A u \in Sessions : /\ Holds(u)' => /\ Holds(u) /\ run'[u].plan = run[u].plan
                                            /\ run'[u].pc # "status" /\ Fresh(run'[u].report) =>
                                                 run[u].pc # "status" /\ Fresh(run[u].report)
                            /\ FileOK(u)'
    BY <2>3, <2>4, <2>5 DEF Holds, FileOK, LooksOK
  <2> QED  BY <2>1, <2>2, <2>6, LooksUndisturbed
<1> QED  BY <1>1, <1>2, <1>3, <1>4

---------------------------------------------------------------------------
(* The invariant and what follows from it. *)

IndInv == Shape /\ (\A s \in Sessions : StudyOK(s)) /\ LooksOK

\* Before any study there is nothing to keep.
LEMMA InitIndInv ==
  ASSUME Init
  PROVE  IndInv
<1>1. /\ accesses = <<>> /\ published = <<>> /\ run = [s \in Sessions |-> Idle]
  BY DEF Init
<1>2. \A s \in Sessions : run[s] = Idle /\ run[s].pc = "idle"
  BY <1>1 DEF Idle
<1>3. Shape
  BY <1>1, <1>2 DEF Shape
<1>4. \A s \in Sessions : StudyOK(s)
  BY <1>2 DEF StudyOK, Origin, Reported, SealKnown, SealSeen, Looked, Written
<1>5. DOMAIN accesses = {} /\ DOMAIN published = {} /\ IsSeq(accesses) /\ IsSeq(published)
  BY <1>1 DEF IsSeq
<1>6. \A s \in Sessions : ~Holds(s) /\ FileOK(s)
  BY <1>2 DEF Holds, FileOK, Written
<1>7. LedgerOK
  <2> DEFINE own == [s \in Sessions |-> 0]
             shown == [i \in DOMAIN published |-> 0]
  <2>1. own \in [Sessions -> Nat] /\ shown \in [DOMAIN published -> Nat]
    OBVIOUS
  <2> HIDE DEF own, shown
  <2>2. Entries(own, shown) /\ Distinct(own, shown)
    BY <1>5, <1>6 DEF Entries, Distinct
  <2> QED  BY <2>1, <2>2 DEF LedgerOK
<1>8. LooksOK
  BY <1>5, <1>6, <1>7 DEF LooksOK
<1> QED  BY <1>3, <1>4, <1>8 DEF IndInv

\* Every step of the studies keeps the invariant.
LEMMA NextIndInv ==
  ASSUME IndInv, [Next]_vars
  PROVE  IndInv'
<1>1. CASE UNCHANGED vars
  <2>1. history' = history /\ accesses' = accesses /\ published' = published /\ run' = run
        /\ \A h \in DOMAIN seals : h \in DOMAIN seals' /\ seals'[h] = seals[h]
    BY <1>1 DEF vars
  <2>2. Shape'
    BY <2>1 DEF IndInv, Shape
  <2>3. \A s \in Sessions : StudyOK(s)'
    BY <2>1, StudyStaysOK DEF IndInv
  <2>4. \A s \in Sessions : /\ Holds(s)' => /\ Holds(s) /\ run'[s].plan = run[s].plan
                                            /\ run'[s].pc # "status" /\ Fresh(run'[s].report) =>
                                                 run[s].pc # "status" /\ Fresh(run[s].report)
                            /\ FileOK(s)'
    BY <2>1 DEF IndInv, LooksOK, Holds, FileOK
  <2>5. LooksOK'
    BY <2>1, <2>4, LooksUndisturbed DEF IndInv
  <2> QED  BY <2>2, <2>3, <2>5 DEF IndInv
<1>2. CASE Next
  <2>1. PICK s \in Sessions : StepOf(s)
    BY <1>2 DEF Next, StepOf
  <2>2. Shape' /\ \A u \in Sessions \ {s} : run'[u] = run[u]
    BY <2>1, StepGoes DEF IndInv, Begins, Goes, Ends, Others
  <2>3. StudyOK(s)'
    BY <2>1, OwnStudyStaysOK DEF IndInv
  <2>4. \A u \in Sessions \ {s} : StudyOK(u)'
    BY <2>1, <2>2, SealsGrow, StudyStaysOK DEF IndInv
  <2>5. LooksOK'
    BY <2>1, LooksStep DEF IndInv
  <2> QED  BY <2>2, <2>3, <2>4, <2>5 DEF IndInv
<1> QED  BY <1>1, <1>2

\* Whatever the sessions do, however they interleave and wherever they crash:
\* studies are of their plans, and reports and ledger belong together.
THEOREM StudiesStayConsistent == Spec => []IndInv
<1>1. Init => IndInv
  BY InitIndInv
<1>2. IndInv /\ [Next]_vars => IndInv'
  BY NextIndInv
<1> QED  BY <1>1, <1>2, PTL DEF Spec

\* At most one of the reports ever published about one sealed window says that
\* its look was the first one.
THEOREM FreshLookIsAlwaysUnique == Spec => []FreshLookIsUnique
<1>1. IndInv => FreshLookIsUnique
  <2> SUFFICES ASSUME IndInv, NEW i \in DOMAIN published, NEW j \in DOMAIN published,
                      ClaimsFreshLook(published[i]), ClaimsFreshLook(published[j]),
                      published[i].holdout = published[j].holdout
               PROVE  i = j
    BY DEF FreshLookIsUnique
  <2>1. Fresh(published[i]) /\ Fresh(published[j])
    BY DEF IndInv, LooksOK, PublishedOK
  <2>2. PICK own \in [Sessions -> Nat], shown \in [DOMAIN published -> Nat] :
          Entries(own, shown) /\ Distinct(own, shown)
    BY DEF IndInv, LooksOK, LedgerOK
  <2>3. PICK h : h \in published[i].holdout
    BY <2>1 DEF Fresh
  <2>4. /\ shown[i] \in DOMAIN accesses /\ shown[j] \in DOMAIN accesses
        /\ accesses[shown[i]].holdout = h.id /\ accesses[shown[j]].holdout = h.id
        /\ FirstLook(shown[i]) /\ FirstLook(shown[j])
    BY <2>1, <2>2, <2>3 DEF Entries
  <2>5. shown[i] <= shown[j] /\ shown[j] <= shown[i]
    BY <2>4 DEF FirstLook
  <2>6. shown[i] \in Nat /\ shown[j] \in Nat
    BY <2>2
  <2>7. shown[i] = shown[j]
    BY <2>5, <2>6
  <2> QED  BY <2>2, <2>3, <2>7 DEF Distinct
<1> QED  BY <1>1, StudiesStayConsistent, PTL

\* The ledger holds a look for every published report that shows a result on a
\* sealed window, and what is sealed there are the bars of the window.
THEOREM PublishedLooksAreAlwaysLedgered == Spec => []PublishedLooksAreLedgered
<1>1. IndInv => PublishedLooksAreLedgered
  <2> SUFFICES ASSUME IndInv, NEW i \in DOMAIN published, NEW h \in published[i].holdout
               PROVE  LET r     == published[i]
                          looks == {k \in DOMAIN accesses : /\ accesses[k].holdout = h.id
                                                            /\ accesses[k].experiment = r.id}
                          same  == {j \in DOMAIN published : published[j].id = r.id /\ published[j].holdout # {}}
                      IN  /\ Cardinality(looks) >= Cardinality(same)
                          /\ seals[h.id] = <<h.id[2], SubSeq(history[r.id.data], h.id[2] + 1, h.id[3])>>
    BY DEF PublishedLooksAreLedgered
  <2> DEFINE r     == published[i]
             looks == {k \in DOMAIN accesses : accesses[k].holdout = h.id /\ accesses[k].experiment = r.id}
             same  == {j \in DOMAIN published : published[j].id = r.id /\ published[j].holdout # {}}
  <2>1. PICK plan \in Plans :
          r.id = ExperimentId(plan) /\ h.id = HoldoutFor(plan) /\ Sealed(plan)
    BY DEF IndInv, LooksOK, PublishedOK
  <2>2. seals[h.id] = <<h.id[2], SubSeq(history[r.id.data], h.id[2] + 1, h.id[3])>>
    <3>1. r.id.data = plan.data
      BY <2>1 DEF ExperimentId
    <3>2. h.id = <<plan.symbol, FinalFor(plan).start, FinalFor(plan).end>>
      BY <2>1 DEF HoldoutFor, HoldoutId
    <3>3. seals[h.id] = <<FinalFor(plan).start, ScoredBars(FinalFor(plan), history[plan.data])>>
      BY <2>1 DEF Sealed, FingerprintFor, WindowFingerprint
    <3>4. h.id[2] = FinalFor(plan).start /\ h.id[3] = FinalFor(plan).end
      BY <3>2
    <3>5. ScoredBars(FinalFor(plan), history[plan.data])
            = SubSeq(history[r.id.data], h.id[2] + 1, h.id[3])
      BY <3>1, <3>4 DEF ScoredBars
    <3> HIDE DEF r
    <3> QED  BY <3>3, <3>4, <3>5
  <2>3. PICK own \in [Sessions -> Nat], shown \in [DOMAIN published -> Nat] :
          Entries(own, shown) /\ Distinct(own, shown)
    BY DEF IndInv, LooksOK, LedgerOK
  <2>4. \A j \in same : shown[j] \in looks
    <3> SUFFICES ASSUME NEW j \in DOMAIN published, published[j].id = r.id,
                        NEW g \in published[j].holdout
                 PROVE  shown[j] \in looks
      OBVIOUS
    <3>1. PICK other \in Plans : published[j].id = ExperimentId(other) /\ g.id = HoldoutFor(other)
      BY DEF IndInv, LooksOK, PublishedOK
    <3>2. other.data = plan.data /\ other.cfg = plan.cfg /\ other.spec = plan.spec
      BY <2>1, <3>1 DEF ExperimentId
    <3>3. other.symbol = plan.symbol
      BY <3>2, InstrumentAssumption
    <3>4. HoldoutFor(other) = HoldoutFor(plan)
      BY <3>2, <3>3 DEF HoldoutFor, HoldoutId, FinalFor, WindowsFor, SplitFor, SplitOptions
    <3>5. /\ shown[j] \in DOMAIN accesses /\ accesses[shown[j]].holdout = g.id
          /\ accesses[shown[j]].experiment = published[j].id
      BY <2>3 DEF Entries
    <3> QED  BY <2>1, <3>1, <3>4, <3>5
  <2>5. \A j, k \in same : shown[j] = shown[k] => j = k
    BY <2>3 DEF Distinct
  <2>6. IsFiniteSet(looks)
    <3>1. DOMAIN accesses = 1 .. Len(accesses) /\ Len(accesses) \in Nat
      BY SeqFacts DEF IndInv, LooksOK
    <3>2. IsFiniteSet(DOMAIN accesses)
      BY <3>1, FS_Interval
    <3> QED  BY <3>2, FS_Subset
  <2>7. IsFiniteSet(same)
    <3>1. DOMAIN published = 1 .. Len(published) /\ Len(published) \in Nat
      BY SeqFacts DEF IndInv, LooksOK
    <3>2. IsFiniteSet(DOMAIN published)
      BY <3>1, FS_Interval
    <3> QED  BY <3>2, FS_Subset
  <2>8. Cardinality(same) <= Cardinality(looks)
    <3> DEFINE f == [j \in same |-> shown[j]]
    <3>1. f \in Injection(same, looks)
      BY <2>4, <2>5 DEF Injection, IsInjective
    <3> HIDE DEF f, same, looks
    <3> QED  BY <2>6, <2>7, <3>1, FS_Injection
  <2>9. Cardinality(same) \in Nat /\ Cardinality(looks) \in Nat
    BY <2>6, <2>7, FS_CardinalityType
  <2> HIDE DEF same, looks
  <2>10. Cardinality(looks) >= Cardinality(same)
    BY <2>8, <2>9
  <2> QED  BY <2>2, <2>10 DEF same, looks
<1> QED  BY <1>1, StudiesStayConsistent, PTL

---------------------------------------------------------------------------
(* The search is counted: whatever the store heard is among its trials. *)

\* The values of a function on a finite set are finitely many.
LEMMA FiniteValues ==
  ASSUME NEW f, IsFiniteSet(DOMAIN f)
  PROVE  IsFiniteSet({f[x] : x \in DOMAIN f})
<1> DEFINE T == {f[x] : x \in DOMAIN f}
           g == [x \in DOMAIN f |-> f[x]]
<1>1. g \in Surjection(DOMAIN f, T)
  BY DEF Surjection
<1> HIDE DEF g, T
<1>2. IsFiniteSet(T)
  BY <1>1, FS_Surjection
<1> QED  BY <1>2 DEF T

\* A finite family of finite sets has a finite union.
LEMMA FiniteFamily ==
  ASSUME NEW f, IsFiniteSet(DOMAIN f), \A x \in DOMAIN f : IsFiniteSet(f[x])
  PROVE  IsFiniteSet(UNION {f[x] : x \in DOMAIN f})
<1> DEFINE T == {f[x] : x \in DOMAIN f}
<1>1. IsFiniteSet(T) /\ \A t \in T : IsFiniteSet(t)
  BY FiniteValues
<1> HIDE DEF T
<1>2. IsFiniteSet(UNION T)
  BY <1>1, FS_UNION
<1> QED  BY <1>2 DEF T

\* The largest of three integers.
LEMMA MaxOfThree ==
  ASSUME NEW a \in Int, NEW b \in Int, NEW c \in Int
  PROVE  Max({a, b} \cup {c}) >= c /\ Max({a, b} \cup {c}) \in Int
<1> DEFINE S == {a, b} \cup {c}
           m == IF a >= b THEN IF a >= c THEN a ELSE c ELSE IF b >= c THEN b ELSE c
<1>1. m \in S /\ \A y \in S : m >= y
  OBVIOUS
<1>2. c \in S
  OBVIOUS
<1> HIDE DEF m, S
<1>3. Max(S) \in S /\ \A y \in S : Max(S) >= y
  BY <1>1 DEF Max
<1>4. S \subseteq Int
  BY DEF S
<1> QED  BY <1>2, <1>3, <1>4 DEF S

\* The grid around a parameter is finite.
LEMMA FiniteNeighbourhood ==
  ASSUME NEW base, NEW span, NEW wanted \in Nat
  PROVE  IsFiniteSet(Neighbourhood(base, span, wanted))
<1> DEFINE odd == IF wanted % 2 = 0 THEN wanted + 1 ELSE wanted
           points == Max({3, odd})
           value(i) == Max({1, RoundHalfEven(base * ((points - 1) * (100 - span) + 2 * span * i),
                                             100 * (points - 1))})
           f == [i \in 0 .. points - 1 |-> value(i)]
<1>1. odd \in Int
  OBVIOUS
<1> HIDE DEF odd
<1>2. points \in Int
  BY <1>1, MaxOfTwo
<1> HIDE DEF points, value
<1>3. IsFiniteSet(0 .. points - 1)
  BY <1>2, FS_Interval
<1>4. IsFiniteSet({f[i] : i \in DOMAIN f})
  BY <1>3, FiniteValues
<1>5. Neighbourhood(base, span, wanted) = {value(i) : i \in 0 .. points - 1}
  BY DEF Neighbourhood, points, odd, value
<1>6. {f[i] : i \in DOMAIN f} = {value(i) : i \in 0 .. points - 1}
  OBVIOUS
<1> QED  BY <1>4, <1>5, <1>6

\* A robustness study runs finitely many configurations.
LEMMA FinitePoints ==
  ASSUME NEW series, NEW segment, NEW cfg, NEW o, IsFiniteSet(o.parameters), o.points \in Nat
  PROVE  IsFiniteSet(PointsOf(RobustnessStudy(series, segment, cfg, o)))
<1> DEFINE sweeps == RobustnessStudy(series, segment, cfg, o)
           grid(p) == Neighbourhood(cfg[p], o.span, o.points) \cup {cfg[p]}
           at(p) == [v \in grid(p) |-> {x.cfg : x \in sweeps[p][v]}]
           of == [p \in DOMAIN sweeps |-> UNION {at(p)[v] : v \in DOMAIN at(p)}]
<1>1. DOMAIN sweeps = o.parameters \cap DOMAIN cfg
      /\ \A p \in DOMAIN sweeps : sweeps[p] = SweepParameter(series, segment, cfg, p, o)
  BY DEF RobustnessStudy
<1>2. IsFiniteSet(DOMAIN sweeps)
  BY <1>1, FS_Subset
<1> HIDE DEF sweeps
<1>3. ASSUME NEW p \in DOMAIN sweeps
      PROVE  /\ DOMAIN sweeps[p] = grid(p) /\ IsFiniteSet(grid(p))
             /\ \A v \in grid(p) : IsFiniteSet({x.cfg : x \in sweeps[p][v]})
  <2>1. sweeps[p] =
          [v \in grid(p) |->
             {[cfg |-> c, metrics |-> Metrics(Result(series, segment, c))] :
                c \in {x \in SetParameter(cfg, p, v) : HarnessRun(series, segment, x) # {}}}]
    BY <1>1, <1>3 DEF SweepParameter
  <2>2. IsFiniteSet(grid(p))
    BY FiniteNeighbourhood, FS_AddElement
  <2>3. ASSUME NEW v \in grid(p) PROVE IsFiniteSet({x.cfg : x \in sweeps[p][v]})
    <3> DEFINE point(c) == [cfg |-> c, metrics |-> Metrics(Result(series, segment, c))]
               ran == {x \in SetParameter(cfg, p, v) : HarnessRun(series, segment, x) # {}}
    <3>1. sweeps[p][v] = {point(c) : c \in ran}
      BY <2>1, <2>3
    <3>2. \A c : point(c).cfg = c
      OBVIOUS
    <3>3. PICK changed : changed = [cfg EXCEPT ![p] = v]
      OBVIOUS
    <3>4. ran \subseteq {changed}
      BY <3>3 DEF SetParameter
    <3> HIDE DEF point, ran
    <3>5. {x.cfg : x \in sweeps[p][v]} \subseteq {changed}
      BY <3>1, <3>2, <3>4
    <3>6. IsFiniteSet({changed})
      BY FS_Singleton
    <3> QED  BY <3>5, <3>6, FS_Subset
  <2> QED  BY <2>1, <2>2, <2>3
<1> HIDE DEF grid
<1>4. ASSUME NEW p \in DOMAIN sweeps PROVE IsFiniteSet(UNION {at(p)[v] : v \in DOMAIN at(p)})
  <2>1. DOMAIN at(p) = grid(p) /\ \A v \in DOMAIN at(p) : at(p)[v] = {x.cfg : x \in sweeps[p][v]}
    OBVIOUS
  <2> HIDE DEF at
  <2> QED  BY <1>3, <1>4, <2>1, FiniteFamily
<1>5. DOMAIN of = DOMAIN sweeps /\ \A p \in DOMAIN of : IsFiniteSet(of[p])
  BY <1>4
<1>6. PointsOf(sweeps) = UNION {of[p] : p \in DOMAIN of}
  <2>1. \A p \in DOMAIN sweeps :
          UNION {{x.cfg : x \in sweeps[p][v]} : v \in DOMAIN sweeps[p]}
            = of[p]
    BY <1>3
  <2>2. DOMAIN of = DOMAIN sweeps
    OBVIOUS
  <2> HIDE DEF of
  <2> QED  BY <2>1, <2>2 DEF PointsOf
<1> HIDE DEF of
<1>7. IsFiniteSet(UNION {of[p] : p \in DOMAIN of})
  BY <1>2, <1>5, FiniteFamily
<1> QED  BY <1>6, <1>7 DEF sweeps
\* What a step leaves of the session, whichever it is.
LEMMA SessionKept ==
  ASSUME Shape, NEW s \in Sessions, StepOf(s), Goes(s),
         ~RunDevelopmentWindows(s), ~ScoreFinalWindow(s), ~CompareVariants(s), ~WalkFold(s), ~Sweep(s)
  PROVE  run'[s].session = run[s].session
<1>1. run[s].pc \notin Trying
  <2>1. ~Crash(s) /\ \A plan \in Plans : ~Start(s, plan)
    <3>1. run'[s].pc # "idle" /\ run[s].pc # "idle"
      BY ActionAt
    <3>2. ~Crash(s)
      BY <3>1, EndMoves DEF Crash, Ends, Idle
    <3> QED  BY <3>1, <3>2 DEF Start
  <2> QED  BY <2>1 DEF StepOf, Trying, Register, CheckDoor, StressAndCorrelate, PlanFolds, LookUpSeal,
       InsertSeal, CountTouches, InsertAccess, ReadStatus, Conclude, BeginSave, FinishSave,
       RecordVerdict
<1> QED  BY <1>1 DEF Goes

\* The variants suggested are finitely many.
LEMMA FiniteVariants ==
  ASSUME NEW cfg, NEW correlation, NEW downWeight
  PROVE  IsFiniteSet(DOMAIN WeightVariants(cfg, correlation, downWeight))
<1> DEFINE targets == {Target(correlation.findings[i], correlation.counts) : i \in DOMAIN correlation.findings}
           ordered == SelectSeq(Roster, LAMBDA x : x \in targets)
           halve(t) == [name |-> <<"halve", t>>, cfg |-> [cfg EXCEPT !.weight[t] = downWeight]]
           drop(t)  == [name |-> <<"drop", t>>, cfg |-> [cfg EXCEPT !.enabled = @ \ {t}]]
           first == [name |-> <<"baseline", "">>, cfg |-> cfg]
           rest == [i \in 1 .. 2 * Len(ordered) |-> IF i % 2 = 1 THEN halve(ordered[(i + 1) \div 2])
                                                       ELSE drop(ordered[i \div 2])]
<1>1. WeightVariants(cfg, correlation, downWeight) = <<first>> \o rest
  BY DEF WeightVariants
<1>2. PICK n \in Nat : n = 2 * Len(ordered)
  <2> HIDE DEF ordered
  <2>1. Len(ordered) \in Nat
    OBVIOUS
  <2> QED  BY <2>1
<1>3. DOMAIN rest = 1 .. n
  BY <1>2
<1> HIDE DEF first, rest
<1>4. DOMAIN (<<first>> \o rest) \subseteq 0 .. n + 1
  <2>1. Len(rest) = n /\ Len(<<first>>) = 1
    BY <1>3
  <2>2. DOMAIN (<<first>> \o rest) = 1 .. 1 + n
    BY <2>1
  <2> QED  BY <2>2
<1>5. IsFiniteSet(0 .. n + 1)
  BY FS_Interval
<1> QED  BY <1>1, <1>4, <1>5, FS_Subset

\* What a session tried and the store heard, in one step.
CountsAll(s, cfgs) ==
  /\ IsFiniteSet(cfgs) /\ run'[s].session = Session(s, cfgs)
  /\ \E up \in BOOLEAN : CountTrials(s, cfgs, up) /\ Tried(s, cfgs, up)

Counts(s) == \E cfgs : CountsAll(s, cfgs)

Keeps(s) == trials' = trials /\ searched' = searched /\ run'[s].session = run[s].session

\* Nothing is ever heard that is not also a trial.
HeardOK ==
  /\ faults \in Nat /\ IsFiniteSet(trials)
  /\ \A x \in searched : x = <<x[1], x[2]>> /\ [data |-> x[1], cfg |-> x[2]] \in trials

CandidateCfgs(s) == {run[s].candidates[i].cfg : i \in DOMAIN run[s].candidates}

TriedOK(s) ==
  run[s].pc # "idle" => IsFiniteSet(run[s].session) /\ IsFiniteSet(DOMAIN run[s].candidates)

\* What the store has heard stays among its trials when more is counted.
LEMMA CountsKeepsHeard ==
  ASSUME NEW s \in Sessions, HeardOK, Counts(s), faults' \in Nat
  PROVE  HeardOK' /\ (IsFiniteSet(run[s].session) => IsFiniteSet(run'[s].session))
<1>0. PICK cfgs : CountsAll(s, cfgs)
  BY DEF Counts
<1>1. PICK up \in BOOLEAN :
        /\ IsFiniteSet(cfgs) /\ run'[s].session = Session(s, cfgs)
        /\ CountTrials(s, cfgs, up) /\ Tried(s, cfgs, up)
  BY <1>0 DEF CountsAll
<1> DEFINE data == run[s].plan.data
           heard == {x \in cfgs : Listening(s, up)}
           f == [c \in heard |-> [data |-> data, cfg |-> c]]
           new == {[data |-> data, cfg |-> c] : c \in heard}
<1>2. trials' = trials \cup new
  BY <1>1 DEF CountTrials
<1>3. IsFiniteSet(new)
  <2>1. IsFiniteSet(heard)
    BY <1>1, FS_Subset
  <2>2. IsFiniteSet({f[c] : c \in DOMAIN f})
    BY <2>1, FiniteValues
  <2>3. {f[c] : c \in DOMAIN f} = new
    OBVIOUS
  <2> QED  BY <2>2, <2>3
<1>4. IsFiniteSet(trials')
  <2> HIDE DEF new
  <2> QED  BY <1>2, <1>3, FS_Union DEF HeardOK
<1>5. ASSUME NEW x \in searched' PROVE x = <<x[1], x[2]>> /\ [data |-> x[1], cfg |-> x[2]] \in trials'
  <2>1. CASE x \in searched
    BY <1>2, <2>1 DEF HeardOK
  <2>2. CASE x \notin searched
    <3>1. Listening(s, up) /\ x \in {data} \X cfgs
      BY <1>1, <1>5, <2>2 DEF Tried
    <3>2. x = <<x[1], x[2]>> /\ x[1] = data /\ x[2] \in heard
      BY <3>1
    <3> QED  BY <1>2, <3>2
  <2> QED  BY <2>1, <2>2
<1>6. IsFiniteSet(run[s].session) => IsFiniteSet(run'[s].session)
  BY <1>1, FS_Union DEF Session
<1> QED  BY <1>4, <1>5, <1>6 DEF HeardOK

\* Only the steps that run a backtest for the record are heard.
LEMMA StepCounts ==
  ASSUME Shape, NEW s \in Sessions, TriedOK(s), StepOf(s), Goes(s)
  PROVE  Counts(s) \/ Keeps(s)
<1>1. IsFiniteSet({CfgOf(s)})
  BY FS_Singleton
<1>2. IsFiniteSet(CandidateCfgs(s))
  <2> DEFINE f == [i \in DOMAIN run[s].candidates |-> run[s].candidates[i].cfg]
  <2>1. run[s].pc # "idle"
    BY ActionAt
  <2>2. IsFiniteSet({f[i] : i \in DOMAIN f})
    BY <2>1, FiniteValues DEF TriedOK
  <2>3. {f[i] : i \in DOMAIN f} = CandidateCfgs(s)
    BY DEF CandidateCfgs
  <2> QED  BY <2>2, <2>3
<1>3. CASE RunDevelopmentWindows(s)
  <2>1. PICK up \in BOOLEAN : CountTrials(s, {CfgOf(s)}, up) /\ Tried(s, {CfgOf(s)}, up)
    BY <1>3 DEF RunDevelopmentWindows
  <2>2. run'[s].session = Session(s, {CfgOf(s)})
    BY <1>3, DevelopmentMoves
  <2>3. CountsAll(s, {CfgOf(s)})
    BY <1>1, <2>1, <2>2 DEF CountsAll
  <2> QED  BY <2>3 DEF Counts
<1>4. CASE ScoreFinalWindow(s)
  <2>1. PICK up \in BOOLEAN : CountTrials(s, {CfgOf(s)}, up) /\ Tried(s, {CfgOf(s)}, up)
    BY <1>4 DEF ScoreFinalWindow
  <2>2. run'[s].session = Session(s, {CfgOf(s)})
    BY <1>4, FinalMoves
  <2>3. CountsAll(s, {CfgOf(s)})
    BY <1>1, <2>1, <2>2 DEF CountsAll
  <2> QED  BY <2>3 DEF Counts
<1>5. CASE CompareVariants(s)
  <2>1. PICK up \in BOOLEAN : CountTrials(s, CandidateCfgs(s), up) /\ Tried(s, CandidateCfgs(s), up)
    BY <1>5 DEF CompareVariants, CandidateCfgs
  <2>2. run'[s].session = Session(s, CandidateCfgs(s))
    BY <1>5, CompareMoves DEF CandidateCfgs
  <2>3. CountsAll(s, CandidateCfgs(s))
    BY <1>2, <2>1, <2>2 DEF CountsAll
  <2> QED  BY <2>3 DEF Counts
<1>6. CASE WalkFold(s)
  <2>1. PICK up \in BOOLEAN : CountTrials(s, CandidateCfgs(s), up) /\ Tried(s, CandidateCfgs(s), up)
    BY <1>6 DEF WalkFold, CandidateCfgs
  <2>2. run'[s].session = Session(s, CandidateCfgs(s))
    BY <1>6, FoldMoves DEF CandidateCfgs
  <2>3. CountsAll(s, CandidateCfgs(s))
    BY <1>2, <2>1, <2>2 DEF CountsAll
  <2> QED  BY <2>3 DEF Counts
<1>7. CASE Sweep(s)
  <2>1. run[s].plan \in Plans
    BY DEF Goes, IsJob
  <2>2. IsFiniteSet(SettingsOf(s).parameters) /\ SettingsOf(s).points \in Nat
    BY <2>1, PlanAssumption, SettingsAssumption DEF SettingsOf
  <2>3. IsFiniteSet(PointsOf(SweepsOf(s)))
    BY <2>2, FinitePoints DEF SweepsOf
  <2>4. PICK up \in BOOLEAN : CountTrials(s, PointsOf(SweepsOf(s)), up) /\ Tried(s, PointsOf(SweepsOf(s)), up)
    <3>1. PICK sweeps \in {SweepsOf(s)}, up \in BOOLEAN :
            CountTrials(s, PointsOf(sweeps), up) /\ Tried(s, PointsOf(sweeps), up)
      BY <1>7 DEF Sweep, PointsOf, SweepsOf, InSample
    <3> QED  BY <3>1
  <2>5. run'[s].session = Session(s, PointsOf(SweepsOf(s)))
    BY <1>7, SweepMoves
  <2>6. CountsAll(s, PointsOf(SweepsOf(s)))
    BY <2>3, <2>4, <2>5 DEF CountsAll
  <2> QED  BY <2>6 DEF Counts
<1>8. CASE /\ ~RunDevelopmentWindows(s) /\ ~ScoreFinalWindow(s) /\ ~CompareVariants(s)
           /\ ~WalkFold(s) /\ ~Sweep(s)
  <2>1. run'[s].session = run[s].session
    BY <1>8, SessionKept
  <2>2. trials' = trials /\ searched' = searched
    BY <1>8 DEF StepOf, Start, Register, CheckDoor, StressAndCorrelate, PlanFolds, LookUpSeal,
       InsertSeal, CountTouches, InsertAccess, ReadStatus, Conclude, BeginSave, FinishSave,
       RecordVerdict, Crash
  <2> QED  BY <2>1, <2>2 DEF Keeps
<1> QED  BY <1>3, <1>4, <1>5, <1>6, <1>7, <1>8

\* The steps that are heard go on with the study.
LEMMA SearchGoes ==
  ASSUME Shape, NEW s \in Sessions, StepOf(s),
         \/ RunDevelopmentWindows(s) \/ ScoreFinalWindow(s) \/ CompareVariants(s)
         \/ WalkFold(s) \/ Sweep(s)
  PROVE  Goes(s)
<1>2. run[s].pc # "idle" /\ run'[s].pc # "idle"
  BY DevelopmentMoves, FinalMoves, CompareMoves, FoldMoves, SweepMoves DEF Moves
<1> QED  BY <1>2, StepGoes DEF Begins, Ends, Idle

\* The trials of an assessed report are those it was assessed under.
LEMMA ConcludedTrials ==
  ASSUME Shape, NEW s \in Sessions, Conclude(s), NEW total
  PROVE  Concluded(s, total).trials = total
<1>1. Has(ReportOf(s), ReportFields)
  BY InAStudy DEF Conclude, IsJob, Written, ReportOf
<1> QED  BY <1>1 DEF Concluded, Has, ReportFields

SearchOK == HeardOK /\ \A s \in Sessions : TriedOK(s)

\* The count of faults stays a number.
LEMMA FaultsCount ==
  ASSUME NEW s \in Sessions, StepOf(s), faults \in Nat
  PROVE  faults' \in Nat
<1>1. faults' = faults \/ faults' = faults + 1
  BY DEF StepOf, Start, Register, RunDevelopmentWindows, CheckDoor, Sweep, StressAndCorrelate,
     PlanFolds, WalkFold, ScoreFinalWindow, LookUpSeal, InsertSeal, CountTouches, InsertAccess,
     ReadStatus, CompareVariants, Conclude, BeginSave, FinishSave, RecordVerdict, Crash, StoreUp
<1> QED  BY <1>1

\* Every step of a session keeps the count of its search.
LEMMA SearchStep ==
  ASSUME Shape, SearchOK, NEW s \in Sessions, StepOf(s)
  PROVE  SearchOK'
<1>1. faults' \in Nat
  BY FaultsCount DEF SearchOK, HeardOK
<1>2. \A u \in Sessions \ {s} : run'[u] = run[u]
  BY StepGoes DEF Begins, Goes, Ends, Others
<1>3. \A u \in Sessions \ {s} : TriedOK(u)'
  BY <1>2 DEF SearchOK, TriedOK
<1>4. CASE ~Goes(s)
  <2>1. run' = run \/ Begins(s) \/ Ends(s)
    BY <1>4, StepGoes
  <2>2. TriedOK(s)'
    <3>1. CASE run' = run
      BY <3>1 DEF SearchOK, TriedOK
    <3>2. CASE Ends(s)
      BY <3>2 DEF Ends, Idle, TriedOK
    <3>3. CASE Begins(s)
      <4>1. run'[s].session = {} /\ DOMAIN run'[s].candidates = {}
        BY <3>3 DEF Begins
      <4> QED  BY <4>1, FS_EmptySet DEF TriedOK
    <3> QED  BY <2>1, <3>1, <3>2, <3>3
  <2>3. trials' = trials /\ searched' = searched
    <3>1. /\ ~RunDevelopmentWindows(s) /\ ~ScoreFinalWindow(s) /\ ~CompareVariants(s)
          /\ ~WalkFold(s) /\ ~Sweep(s)
      BY <1>4, SearchGoes
    <3> QED
      BY <3>1 DEF StepOf, Start, Register, CheckDoor, StressAndCorrelate, PlanFolds, LookUpSeal,
         InsertSeal, CountTouches, InsertAccess, ReadStatus, Conclude, BeginSave, FinishSave,
         RecordVerdict, Crash
  <2>4. HeardOK'
    BY <1>1, <2>3 DEF SearchOK, HeardOK
  <2> QED  BY <1>3, <2>2, <2>4 DEF SearchOK
<1>5. CASE Goes(s)
  <2>1. Counts(s) \/ Keeps(s)
    BY <1>5, StepCounts DEF SearchOK
  <2>2. IsFiniteSet(run[s].session) /\ IsFiniteSet(DOMAIN run[s].candidates)
    BY <1>5, ActionAt DEF SearchOK, TriedOK
  <2>3. HeardOK' /\ IsFiniteSet(run'[s].session)
    <3>1. CASE Counts(s)
      BY <1>1, <2>2, <3>1, CountsKeepsHeard DEF SearchOK
    <3>2. CASE Keeps(s)
      BY <1>1, <2>2, <3>2 DEF Keeps, SearchOK, HeardOK
    <3> QED  BY <2>1, <3>1, <3>2
  <2>4. IsFiniteSet(DOMAIN run'[s].candidates)
    <3>1. CASE run[s].pc = "stress"
      <4>1. run'[s].candidates = CandidatesOf(s)
        BY <1>5, <3>1, ActionAt, StressMoves
      <4>2. IsFiniteSet(DOMAIN WeightVariants(CfgOf(s), CorrelationOf(s), SettingsOf(s).downWeight))
        BY FiniteVariants
      <4>3. IsFiniteSet(DOMAIN <<>>)
        BY FS_EmptySet
      <4> QED  BY <4>1, <4>2, <4>3 DEF CandidatesOf
    <3>2. CASE run[s].pc # "stress"
      BY <1>5, <2>2, <3>2 DEF Goes
    <3> QED  BY <3>1, <3>2
  <2> QED  BY <1>3, <2>3, <2>4 DEF SearchOK, TriedOK
<1> QED  BY <1>4, <1>5

\* Whatever the store heard of is counted among the trials of its data.
THEOREM SearchStaysCounted == Spec => [](Shape /\ SearchOK)
<1>1. Init => Shape /\ SearchOK
  <2> SUFFICES ASSUME Init PROVE Shape /\ SearchOK
    OBVIOUS
  <2>1. Shape
    BY InitIndInv DEF IndInv
  <2>2. \A s \in Sessions : run[s].pc = "idle"
    BY DEF Init, Idle
  <2>3. HeardOK
    BY FS_EmptySet DEF Init, HeardOK
  <2> QED  BY <2>1, <2>2, <2>3 DEF SearchOK, TriedOK
<1>2. Shape /\ SearchOK /\ [Next]_vars => (Shape /\ SearchOK)'
  <2> SUFFICES ASSUME Shape, SearchOK, [Next]_vars PROVE (Shape /\ SearchOK)'
    OBVIOUS
  <2>1. CASE UNCHANGED vars
    BY <2>1 DEF vars, Shape, SearchOK, HeardOK, TriedOK
  <2>2. CASE Next
    <3>1. PICK s \in Sessions : StepOf(s)
      BY <2>2 DEF Next, StepOf
    <3> QED  BY <3>1, StepGoes, SearchStep
  <2> QED  BY <2>1, <2>2
<1> QED  BY <1>1, <1>2, PTL DEF Spec

\* The trials a study is assessed under are at least the configurations tried on
\* its data, by whomever, while the store was listening.
THEOREM SearchIsAlwaysCounted == Spec => SearchCounted
<1>1. Shape /\ SearchOK /\ [Next]_vars =>
        \A s \in Sessions :
          run[s].pc = "assess" /\ run'[s].pc = "save" /\ run[s].plan.store /\ faults' = faults =>
            run'[s].report.trials >= Cardinality({x \in searched : x[1] = run[s].plan.data})
  <2> SUFFICES ASSUME Shape, SearchOK, [Next]_vars, NEW s \in Sessions,
                      run[s].pc = "assess", run'[s].pc = "save", run[s].plan.store, faults' = faults
               PROVE  run'[s].report.trials >= Cardinality({x \in searched : x[1] = run[s].plan.data})
    OBVIOUS
  <2>1. StepOf(s)
    <3>1. PICK u \in Sessions : StepOf(u)
      BY DEF Next, StepOf, vars
    <3>2. u = s
      BY <3>1, StepGoes DEF Begins, Goes, Ends, Others
    <3> QED  BY <3>1, <3>2
  <2>2. Goes(s)
    BY <2>1, StepGoes DEF Begins, Ends, Idle
  <2>3. Conclude(s)
    BY <2>1, <2>2, ActionAt
  <2>4. PICK up \in BOOLEAN : StoreUp(s, up) /\ run'[s].report = Concluded(s, TotalTrials(s, up))
    BY <2>3, ConcludeMoves
  <2>5. up
    BY <2>4 DEF StoreUp, SearchOK, HeardOK
  <2> DEFINE data == run[s].plan.data
             heard == {x \in searched : x[1] = data}
             counted == {t \in trials : t.data = data}
             f == [x \in heard |-> [data |-> x[1], cfg |-> x[2]]]
  <2>6. IsFiniteSet(counted)
    BY FS_Subset DEF SearchOK, HeardOK
  <2>7. f \in Injection(heard, counted)
    <3>1. \A x \in heard : x = <<x[1], x[2]>> /\ [data |-> x[1], cfg |-> x[2]] \in counted
      BY DEF SearchOK, HeardOK
    <3>2. \A x, y \in heard : f[x] = f[y] => x[1] = y[1] /\ x[2] = y[2]
      <4> SUFFICES ASSUME NEW x \in heard, NEW y \in heard, f[x] = f[y]
                   PROVE  x[1] = y[1] /\ x[2] = y[2]
        OBVIOUS
      <4>1. f[x].data = x[1] /\ f[x].cfg = x[2] /\ f[y].data = y[1] /\ f[y].cfg = y[2]
        OBVIOUS
      <4> HIDE DEF f, heard
      <4> QED  BY <4>1
    <3>3. \A x, y \in heard : f[x] = f[y] => x = y
      <4> SUFFICES ASSUME NEW x \in heard, NEW y \in heard, f[x] = f[y] PROVE x = y
        OBVIOUS
      <4> HIDE DEF f, heard
      <4>1. x = <<x[1], x[2]>> /\ y = <<y[1], y[2]>>
        BY <3>1
      <4>2. x[1] = y[1] /\ x[2] = y[2]
        BY <3>2
      <4>3. <<x[1], x[2]>> = <<y[1], y[2]>>
        BY <4>2
      <4> QED  BY ONLY <4>1, <4>3
    <3>4. f \in [heard -> counted]
      BY <3>1
    <3> HIDE DEF f, heard, counted
    <3> QED  BY <3>3, <3>4 DEF Injection, IsInjective
  <2> HIDE DEF f, heard, counted
  <2>8. IsFiniteSet(heard) /\ Cardinality(heard) <= Cardinality(counted)
    BY <2>6, <2>7, FS_Injection
  <2>9. IsFiniteSet(run[s].session)
    BY DEF SearchOK, TriedOK
  <2> DEFINE own == Cardinality(run[s].session)
             all == Cardinality(counted)
  <2>10. own \in Nat /\ all \in Nat /\ Cardinality(heard) \in Nat
    BY <2>6, <2>8, <2>9, FS_CardinalityType
  <2>11. TotalTrials(s, up) = Max({1, own} \cup {all})
    BY <2>5 DEF TotalTrials, counted, data
  <2> HIDE DEF own, all, data
  <2>i. own \in Int /\ all \in Int /\ 1 \in Int
    BY <2>10
  <2>12. Max({1, own} \cup {all}) >= all /\ Max({1, own} \cup {all}) \in Int
    BY <2>i, MaxOfThree
  <2>13. run'[s].report.trials = TotalTrials(s, up)
    BY <2>3, <2>4, ConcludedTrials
  <2>14. TotalTrials(s, up) >= Cardinality(heard)
    <3>1. \A m : m >= all /\ m \in Int => m >= Cardinality(heard)
      BY <2>8, <2>10 DEF all
    <3> QED  BY <2>11, <2>12, <3>1
  <2> QED  BY <2>13, <2>14 DEF heard, data
<1>2. Shape /\ SearchOK /\ [Next]_vars =>
        [\A s \in Sessions :
          run[s].pc = "assess" /\ run'[s].pc = "save" /\ run[s].plan.store /\ faults' = faults =>
            run'[s].report.trials >= Cardinality({x \in searched : x[1] = run[s].plan.data})]_vars
  BY <1>1
<1> QED  BY <1>2, SearchStaysCounted, PTL DEF Spec, SearchCounted

---------------------------------------------------------------------------
(* The verdict and the evidence table judge alike. *)

\* The two functions, on the same report.
LEMMA SurvivalIsEvidenced ==
  ASSUME NEW r, Verdict(r) = "SURVIVED"
  PROVE  /\ OutOfSampleEvidence(r) = "PARTIAL" /\ RobustnessEvidence(r) # "NOT_ESTABLISHED"
         /\ OverfittingEvidence(r) = "PARTIAL"
<1>1. ~(r.outOfSample.trades < 30) /\ ~(r.outOfSample.expectancy <= 0)
  BY DEF Verdict
<1>2. Severe(r.findings) = {} /\ FragileParameters(r.sweeps, r.cfg) = {}
  BY <1>1 DEF Verdict
<1> QED  BY <1>1, <1>2 DEF OutOfSampleEvidence, RobustnessEvidence, OverfittingEvidence

\* What is added to a report once it is judged is not judged.
LEMMA ConcludedVerdict ==
  ASSUME Shape, NEW s \in Sessions, Conclude(s), NEW total
  PROVE  Concluded(s, total).verdict = Verdict(Concluded(s, total))
<1> DEFINE r == ReportOf(s)
           degraded == {w \in {r.inSample, r.validation, r.outOfSample} : Degraded(w)}
           found == Assess(total, r.inSample, r.outOfSample, r.walkForward,
                           FragileParameters(r.sweeps, r.cfg), degraded)
           assessed == [r EXCEPT !.trials = total, !.findings = found]
           verdict == Verdict(assessed)
           recs == BuildRecommendations(assessed)
           done == [assessed EXCEPT !.verdict = verdict, !.recommendations = recs]
<1>1. Has(r, ReportFields)
  BY InAStudy DEF Conclude, IsJob, Written, ReportOf
<1>2. Concluded(s, total) = done
  BY DEF Concluded
<1> HIDE DEF r, found
<1>3. Has(assessed, ReportFields)
  BY <1>1 DEF Has, ReportFields
<1> HIDE DEF assessed, verdict, recs
<1>4. /\ done.verdict = verdict /\ done.outOfSample = assessed.outOfSample
      /\ done.findings = assessed.findings /\ done.walkForward = assessed.walkForward
      /\ done.sweeps = assessed.sweeps /\ done.cfg = assessed.cfg /\ done.costs = assessed.costs
  BY <1>3 DEF Has, ReportFields
<1> HIDE DEF done
<1>5. Verdict(done) = Verdict(assessed)
  BY <1>4 DEF Verdict
<1> QED  BY <1>2, <1>4, <1>5 DEF verdict

\* A report says of itself what its sections say.
JudgedOK(s) ==
  /\ run[s].pc = "save" => run[s].report.verdict = Verdict(run[s].report)
  /\ run[s].pc = "write" => \E r : run[s].report = ToDict(r) /\ r.verdict = Verdict(r)

\* A step of its session leaves the verdict the one its sections give.
LEMMA JudgedStep ==
  ASSUME Shape, NEW s \in Sessions, StepOf(s), JudgedOK(s)
  PROVE  JudgedOK(s)'
<1>1. CASE Begins(s) \/ Ends(s)
  BY <1>1 DEF Begins, Ends, Idle, JudgedOK
<1>2. CASE run' = run
  BY <1>2 DEF JudgedOK
<1>3. CASE Goes(s)
  <2>1. CASE run[s].pc = "assess"
    <3>1. Conclude(s)
      BY <1>3, <2>1, ActionAt
    <3>2. PICK total : run'[s].report = Concluded(s, total)
      BY <3>1, ConcludeMoves
    <3>3. run'[s].pc = "save"
      BY <1>3, <2>1 DEF Goes, Transitions
    <3> QED  BY <3>1, <3>2, <3>3, ConcludedVerdict DEF JudgedOK
  <2>2. CASE run[s].pc = "save"
    <3>1. run'[s].report = ToDict(run[s].report)
      BY <1>3, <2>2, ActionAt, BeginSaveMoves DEF ReportOf
    <3>2. run'[s].pc = "write"
      BY <1>3, <2>2 DEF Goes, Transitions
    <3> QED  BY <2>2, <3>1, <3>2 DEF JudgedOK
  <2>3. CASE run[s].pc \notin {"assess", "save"}
    <3>1. run'[s].pc \notin {"save", "write"}
      BY <1>3, <2>3 DEF Goes, Transitions
    <3> QED  BY <3>1 DEF JudgedOK
  <2> QED  BY <2>1, <2>2, <2>3
<1> QED  BY <1>1, <1>2, <1>3, StepGoes

\* A report that says the configuration survived has no row of its evidence
\* table about unseen data, robustness or overfitting that says the opposite.
THEOREM VerdictAlwaysAgreesWithEvidence == Spec => []VerdictAgreesWithEvidence
<1> DEFINE JInv == Shape /\ \A s \in Sessions : JudgedOK(s)
<1>1. Init => JInv
  <2> SUFFICES ASSUME Init PROVE JInv
    OBVIOUS
  <2>1. Shape
    BY InitIndInv DEF IndInv
  <2>2. \A s \in Sessions : run[s].pc = "idle"
    BY DEF Init, Idle
  <2> QED  BY <2>1, <2>2 DEF JudgedOK
<1>2. JInv /\ [Next]_vars => JInv'
  <2> SUFFICES ASSUME JInv, [Next]_vars PROVE JInv'
    OBVIOUS
  <2>1. CASE UNCHANGED vars
    BY <2>1 DEF vars, Shape, JudgedOK
  <2>2. CASE Next
    <3>1. PICK s \in Sessions : StepOf(s)
      BY <2>2 DEF Next, StepOf
    <3>2. Shape' /\ JudgedOK(s)' /\ \A u \in Sessions \ {s} : run'[u] = run[u]
      BY <3>1, StepGoes, JudgedStep DEF Begins, Goes, Ends, Others
    <3>3. \A u \in Sessions \ {s} : JudgedOK(u)'
      BY <3>2 DEF JudgedOK
    <3> QED  BY <3>2, <3>3
  <2> QED  BY <2>1, <2>2
<1>3. JInv => VerdictAgreesWithEvidence
  <2> SUFFICES ASSUME JInv, NEW s \in Sessions, run[s].pc = "write", ReportOf(s).verdict = "SURVIVED"
               PROVE  LET e == ReportOf(s).evidence
                      IN  /\ e.outOfSample = "PARTIAL" /\ e.robustness # "NOT_ESTABLISHED"
                          /\ e.overfitting = "PARTIAL"
    BY DEF VerdictAgreesWithEvidence
  <2>1. PICK r : run[s].report = ToDict(r) /\ r.verdict = Verdict(r)
    BY DEF JudgedOK
  <2>2. ToDict(r).verdict = r.verdict /\ ToDict(r).evidence = EvidenceSummary(r)
    BY DEF ToDict
  <2>3. Verdict(r) = "SURVIVED"
    BY <2>1, <2>2 DEF ReportOf
  <2>4. /\ EvidenceSummary(r).outOfSample = OutOfSampleEvidence(r)
        /\ EvidenceSummary(r).robustness = RobustnessEvidence(r)
        /\ EvidenceSummary(r).overfitting = OverfittingEvidence(r)
    BY DEF EvidenceSummary
  <2> QED  BY <2>1, <2>2, <2>3, <2>4, SurvivalIsEvidenced DEF ReportOf
<1> QED  BY <1>1, <1>2, <1>3, PTL DEF Spec

---------------------------------------------------------------------------
(* What is chosen on and what it is judged on are kept apart. *)

\* A geometry the settings stand for is one of natural numbers.
LEMMA GeometryIsNumeric ==
  ASSUME NEW s \in Sessions, run[s].plan \in Plans,
         NEW w \in SettingsOf(s).walkForward, NEW g \in Geometries(s, w)
  PROVE  /\ g.warmup = FeatureWarmup(CfgOf(s)) /\ g.warmup \in Nat /\ g.train \in Nat /\ g.test \in Nat
         /\ g.embargo = SettingsOf(s).embargo /\ g.embargo \in Nat
         /\ g.step \in Nat /\ g.maxFolds \in Nat /\ g.anchored \in BOOLEAN
<1> DEFINE n == Len(SeriesOf(s))
           warmup == FeatureWarmup(CfgOf(s))
<1>1. warmup \in Nat
  BY PlanAssumption DEF CfgOf
<1>2. SettingsOf(s).embargo \in Nat /\ w.train \in Nat /\ w.test \in Nat /\ w.step \in Nat
      /\ w.folds \in Nat /\ w.percent \in Nat /\ w.anchored \in BOOLEAN
  BY PlanAssumption, SettingsAssumption DEF SettingsOf
<1> DEFINE suggested == SuggestGeometry(n, warmup, w.folds, w.percent)
           sizes == IF w.train = 0 \/ w.test = 0 THEN suggested
                    ELSE {[train |-> w.train, test |-> w.test]}
<1>3. n \in Nat
  OBVIOUS
<1>4. \A z \in suggested : z.train \in Nat /\ z.test \in Nat
  <2> HIDE DEF n, warmup
  <2> QED  BY <1>1, <1>2, <1>3, SuggestedSizes
<1> HIDE DEF suggested
<1>5. \A z \in sizes : z.train \in Nat /\ z.test \in Nat
  BY <1>2, <1>4
<1>6. PICK z \in sizes :
        g = [train |-> z.train, test |-> z.test, step |-> w.step, warmup |-> warmup,
             embargo |-> SettingsOf(s).embargo, anchored |-> w.anchored, maxFolds |-> w.folds]
  BY DEF Geometries, suggested
<1> HIDE DEF sizes, n
<1> QED  BY <1>1, <1>2, <1>5, <1>6

\* The halves of a study's folds, in one session.
FoldsApart(s) ==
  run[s].pc # "idle" =>
     LET folds == run[s].folds
     IN  \A i \in DOMAIN folds :
           /\ KeptApart(folds[i].train, folds[i].test, SettingsOf(s).embargo)
           /\ folds[i].test.end <= Len(SeriesOf(s))
           /\ WarmupOf(folds[i].train) = FeatureWarmup(CfgOf(s))
           /\ WarmupOf(folds[i].test) = FeatureWarmup(CfgOf(s))
           /\ \A j \in 1 .. i - 1 : folds[j].test.end <= folds[i].test.start

\* Planned folds keep what the splitter promises.
LEMMA PlannedApart ==
  ASSUME NEW s \in Sessions, run[s].plan \in Plans, NEW folds \in PlannedFolds(s)
  PROVE  \A i \in DOMAIN folds :
           /\ KeptApart(folds[i].train, folds[i].test, SettingsOf(s).embargo)
           /\ folds[i].test.end <= Len(SeriesOf(s))
           /\ WarmupOf(folds[i].train) = FeatureWarmup(CfgOf(s))
           /\ WarmupOf(folds[i].test) = FeatureWarmup(CfgOf(s))
           /\ \A j \in 1 .. i - 1 : folds[j].test.end <= folds[i].test.start
<1> DEFINE n == Len(SeriesOf(s))
<1>1. PICK w \in SettingsOf(s).walkForward : \E g \in Geometries(s, w) : folds \in WalkForwardFolds(n, g)
  BY DEF PlannedFolds
<1>2. PICK g \in Geometries(s, w) : folds \in WalkForwardFolds(n, g)
  BY <1>1
<1>3. /\ g.warmup = FeatureWarmup(CfgOf(s)) /\ g.warmup \in Nat /\ g.train \in Nat /\ g.test \in Nat
      /\ g.embargo = SettingsOf(s).embargo /\ g.embargo \in Nat
      /\ g.step \in Nat /\ g.maxFolds \in Nat /\ g.anchored \in BOOLEAN
  BY GeometryIsNumeric
<1>4. n \in Nat /\ g.train \in Int /\ g.test \in Int
  BY <1>3
<1> HIDE DEF n
<1>5. \A i \in DOMAIN folds :
         /\ folds[i].test.start >= folds[i].train.end + g.embargo /\ folds[i].test.end <= n
         /\ WarmupOf(folds[i].train) = g.warmup /\ WarmupOf(folds[i].test) = g.warmup
         /\ \A j \in 1 .. i - 1 : folds[j].test.end <= folds[i].test.start
  BY <1>2, <1>3, <1>4, FoldsKeepApart
<1> QED  BY <1>3, <1>5 DEF KeptApart, n

\* A step of its session leaves the folds of a study apart.
LEMMA FoldsApartStep ==
  ASSUME Shape, NEW s \in Sessions, StepOf(s), FoldsApart(s)
  PROVE  FoldsApart(s)'
<1>0. history' = history
  BY SealsGrow
<1>1. CASE Begins(s)
  <2>1. run'[s].folds = <<>>
    BY <1>1 DEF Begins
  <2> QED  BY <2>1 DEF FoldsApart
<1>2. CASE Ends(s)
  BY <1>2 DEF Ends, Idle, FoldsApart
<1>3. CASE run' = run
  BY <1>0, <1>3 DEF FoldsApart, SettingsOf, SeriesOf, CfgOf
<1>4. CASE Goes(s)
  <2>0. /\ run'[s].plan = run[s].plan /\ run[s].plan \in Plans
        /\ run[s].pc # "idle"
    BY <1>4 DEF Goes, IsJob, Stages, Written
  <2>1. SettingsOf(s)' = SettingsOf(s) /\ SeriesOf(s)' = SeriesOf(s) /\ CfgOf(s)' = CfgOf(s)
    BY <1>0, <2>0 DEF SettingsOf, SeriesOf, CfgOf
  <2>2. CASE run'[s].folds = run[s].folds
    BY <2>0, <2>1, <2>2 DEF FoldsApart
  <2>3. CASE run'[s].folds # run[s].folds
    <3>1. run[s].pc = "plan"
      BY <1>4, <2>3 DEF Goes
    <3>2. PlanFolds(s)
      BY <1>4, <3>1, ActionAt
    <3>3. SettingsOf(s).walkForward # {} /\ PlannedFolds(s) # {}
      <4>1. ~Moves(s, "plan", "final", {}, {})
        BY <2>3 DEF Moves, JobFields
      <4>2. ~Ends(s)
        BY <1>4 DEF Goes, Ends, Idle, IsJob, Stages, Written
      <4> QED  BY <3>2, <4>1, <4>2, PlanFoldsOtherwise
    <3>4. run'[s].folds \in PlannedFolds(s)
      BY <3>2, <3>3, PlanFoldsMoves
    <3>5. PICK folds \in PlannedFolds(s) : folds = run'[s].folds
      BY <3>4
    <3> QED  BY <2>0, <2>1, <3>5, PlannedApart DEF FoldsApart
  <2> QED  BY <2>2, <2>3
<1> QED  BY <1>1, <1>2, <1>3, <1>4, StepGoes

\* The windows of a study keep what the splitter promises.
LEMMA WindowsApart ==
  ASSUME NEW s \in Sessions, run[s].pc # "idle", run[s].plan \in Plans, Origin(s)
  PROVE  LET w == run[s].windows IN
         /\ w[1].start = FeatureWarmup(CfgOf(s)) /\ w[3].end = Len(SeriesOf(s))
         /\ \A i \in 1 .. 2 : w[i + 1].start = w[i].end + SettingsOf(s).embargo
         /\ \A i \in 1 .. 3 : WarmupOf(w[i]) = FeatureWarmup(CfgOf(s)) /\ w[i].dataStart < w[i].end
<1> DEFINE plan == run[s].plan
           n == Len(SeriesOf(s))
           o == SplitOptions(plan)
           w == run[s].windows
<1>1. w \in ChronologicalSplit(n, o)
  BY DEF Origin, WindowsFor, SplitFor, SeriesOf
<1>2. /\ o.warmup = FeatureWarmup(CfgOf(s)) /\ o.embargo = SettingsOf(s).embargo
      /\ o.fractions = SettingsOf(s).fractions
  BY DEF SplitOptions, CfgOf, SettingsOf
<1>3. o.warmup \in Nat /\ o.embargo \in Nat /\ (\A i \in 1 .. 3 : o.fractions[i] \in Nat)
      /\ o.fractions[1] + o.fractions[2] + o.fractions[3] > 0
  BY <1>2, PlanAssumption, SettingsAssumption DEF CfgOf, SettingsOf
<1>4. n \in Nat
  OBVIOUS
<1> HIDE DEF n, o, w
<1>5. /\ w[1].start = o.warmup /\ w[3].end = n
      /\ \A i \in 1 .. 2 : w[i + 1].start = w[i].end + o.embargo
      /\ \A i \in 1 .. 3 : WarmupOf(w[i]) = o.warmup /\ w[i].dataStart < w[i].end
  BY <1>1, <1>3, <1>4, SplitKeepsApart
<1> QED  BY <1>2, <1>5 DEF n, w

\* The three windows and the halves of every fold keep the embargo between what
\* was chosen on and what it is judged on, with the whole warm-up before each.
THEOREM WindowsAreKeptApart == Spec => []WindowsKeepApart
<1> DEFINE Apart == IndInv /\ \A s \in Sessions : FoldsApart(s)
<1>1. Init => Apart
  <2> SUFFICES ASSUME Init PROVE Apart
    OBVIOUS
  <2>1. \A s \in Sessions : run[s].pc = "idle"
    BY DEF Init, Idle
  <2> QED  BY <2>1, InitIndInv DEF FoldsApart
<1>2. Apart /\ [Next]_vars => Apart'
  <2> SUFFICES ASSUME Apart, [Next]_vars PROVE Apart'
    OBVIOUS
  <2>0. IndInv'
    BY NextIndInv
  <2>1. CASE UNCHANGED vars
    BY <2>0, <2>1 DEF vars, FoldsApart, SettingsOf, SeriesOf, CfgOf
  <2>2. CASE Next
    <3>1. PICK s \in Sessions : StepOf(s)
      BY <2>2 DEF Next, StepOf
    <3>2. Shape
      BY DEF IndInv
    <3>3. history' = history /\ \A u \in Sessions \ {s} : run'[u] = run[u]
      BY <3>1, <3>2, SealsGrow, StepGoes DEF Begins, Goes, Ends, Others
    <3>4. \A u \in Sessions \ {s} : FoldsApart(u)'
      BY <3>3 DEF FoldsApart, SettingsOf, SeriesOf, CfgOf
    <3> QED  BY <2>0, <3>1, <3>2, <3>4, FoldsApartStep
  <2> QED  BY <2>1, <2>2
<1>3. Apart => WindowsKeepApart
  <2> SUFFICES ASSUME Apart, NEW s \in Sessions, run[s].pc # "idle"
               PROVE  LET w       == run[s].windows
                          embargo == SettingsOf(s).embargo
                          warmup  == FeatureWarmup(CfgOf(s))
                          folds   == run[s].folds
                      IN  /\ w[1].start = warmup /\ w[3].end = Len(SeriesOf(s))
                          /\ \A i \in 1 .. 2 : w[i + 1].start = w[i].end + embargo
                          /\ \A i \in 1 .. 3 : WarmupOf(w[i]) = warmup /\ w[i].dataStart < w[i].end
                          /\ \A i \in DOMAIN folds :
                               /\ KeptApart(folds[i].train, folds[i].test, embargo)
                               /\ folds[i].test.end <= Len(SeriesOf(s))
                               /\ WarmupOf(folds[i].train) = warmup /\ WarmupOf(folds[i].test) = warmup
                               /\ \A j \in 1 .. i - 1 : folds[j].test.end <= folds[i].test.start
    BY DEF WindowsKeepApart
  <2>1. run[s].plan \in Plans /\ Origin(s)
    BY InAStudy DEF IndInv, StudyOK, IsJob
  <2> QED  BY <2>1, WindowsApart DEF FoldsApart
<1> QED  BY <1>1, <1>2, <1>3, PTL DEF Spec

---------------------------------------------------------------------------
(* What is decided on a window is decided without the bars behind it. *)

\* Segments a series can show: they lie within it.
InSight(segment, series) ==
  segment.dataStart \in Nat /\ segment.end \in Nat /\ segment.end <= Len(series)

\* Blanking what lies behind a segment leaves its frame alone.
LEMMA BlindFrame ==
  ASSUME NEW series, series \in Seq(Range(series)), NEW segment, InSight(segment, series)
  PROVE  SliceFrame(segment, series) = SliceFrame(segment, BlankedFrom(series, segment.end))
<1> DEFINE end == segment.end
           blind == BlankedFrom(series, end)
<1>1. DOMAIN series = 1 .. Len(series) /\ Len(series) \in Nat
  BY LenProperties
<1>2. end \in Nat /\ end <= Len(series)
  BY DEF InSight
<1>3. ASSUME NEW i \in 1 .. end PROVE series[i] = blind[i]
  <2>1. i \in DOMAIN series /\ ~(i > end)
    BY <1>1, <1>2
  <2> HIDE DEF end
  <2> QED  BY <2>1 DEF BlankedFrom
<1> HIDE DEF blind
<1> QED  BY <1>3, SameFrame DEF InSight, blind

\* Planned folds lie within the history.
LEMMA PlannedInSight ==
  ASSUME NEW s \in Sessions, run[s].plan \in Plans, NEW folds \in PlannedFolds(s)
  PROVE  /\ IsSeq(folds) /\ Len(folds) > 0
         /\ \A i \in DOMAIN folds : InSight(folds[i].train, SeriesOf(s))
<1> DEFINE n == Len(SeriesOf(s))
<1>1. PICK w \in SettingsOf(s).walkForward : \E g \in Geometries(s, w) : folds \in WalkForwardFolds(n, g)
  BY DEF PlannedFolds
<1>2. PICK g \in Geometries(s, w) : folds \in WalkForwardFolds(n, g)
  BY <1>1
<1>3. /\ g.warmup \in Nat /\ g.train \in Int /\ g.test \in Int /\ g.embargo \in Nat
      /\ g.step \in Nat /\ g.maxFolds \in Nat /\ g.anchored \in BOOLEAN
  BY GeometryIsNumeric
<1>4. n \in Nat
  OBVIOUS
<1> HIDE DEF n
<1>5. /\ IsSeq(folds) /\ Len(folds) > 0
      /\ \A i \in DOMAIN folds : /\ folds[i].train.end <= n /\ folds[i].train.end \in Nat
                                 /\ folds[i].train.dataStart \in Nat
  BY <1>2, <1>3, <1>4, FoldsKeepApart
<1> QED  BY <1>5 DEF InSight, n

\* The window a study optimises on is the first of its three.
LEMMA InSampleInSight ==
  ASSUME NEW s \in Sessions, run[s].pc # "idle", run[s].plan \in Plans, Origin(s)
  PROVE  InSight(InSample(s), SeriesOf(s))
<1> DEFINE plan == run[s].plan
           n == Len(SeriesOf(s))
           o == SplitOptions(plan)
           w == run[s].windows
<1>1. w \in ChronologicalSplit(n, o)
  BY DEF Origin, WindowsFor, SplitFor, SeriesOf
<1>2. /\ o.warmup = FeatureWarmup(CfgOf(s)) /\ o.embargo = SettingsOf(s).embargo
      /\ o.fractions = SettingsOf(s).fractions
  BY DEF SplitOptions, CfgOf, SettingsOf
<1>3. o.warmup \in Nat /\ o.embargo \in Nat /\ (\A i \in 1 .. 3 : o.fractions[i] \in Nat)
      /\ o.fractions[1] + o.fractions[2] + o.fractions[3] > 0
  BY <1>2, PlanAssumption, SettingsAssumption DEF CfgOf, SettingsOf
<1>4. n \in Nat
  OBVIOUS
<1> HIDE DEF n, o, w
<1>5. /\ DOMAIN w = 1 .. 3
      /\ w[1].name = "in_sample" /\ w[2].name = "validation" /\ w[3].name = "out_of_sample"
      /\ w[1].end \in Nat /\ w[1].end <= n /\ w[1].dataStart \in Nat
  BY <1>1, <1>3, <1>4, SplitKeepsApart
<1>6. (CHOOSE i \in DOMAIN w : w[i].name = "in_sample") = 1
  <2>1. \A i \in DOMAIN w : w[i].name = "in_sample" <=> i = 1
    BY <1>5
  <2>2. 1 \in DOMAIN w
    BY <1>5
  <2> QED  BY <2>1, <2>2
<1>7. InSample(s) = w[1]
  BY <1>6 DEF InSample, WindowOf, w
<1> QED  BY <1>5, <1>7 DEF InSight, n

\* A choice made in a fold is the one its training window gives.
ChosenInSight(s, fold) ==
  /\ InSight(fold.train, SeriesOf(s))
  /\ run[s].candidates # <<>> =>
       fold.selected = SelectCandidate(SeriesOf(s), fold.train, run[s].candidates).name

\* What a study has measured on its in-sample window, stage by stage, and what
\* its folds have chosen so far.
Measured(s) ==
  /\ run[s].pc \in {"door", "sweep", "stress"} =>
       ReportOf(s).inSample = Result(SeriesOf(s), InSample(s), CfgOf(s))
  /\ run[s].pc \in {"stress", "plan", "folds", "final"} => ReportOf(s).sweeps = SweepsOf(s)
  /\ run[s].pc \in {"plan", "folds", "final"} =>
       /\ ReportOf(s).inSample = Result(SeriesOf(s), InSample(s), CfgOf(s))
       /\ ReportOf(s).correlation = CorrelationOf(s)

Early == {"register", "develop", "door", "sweep", "stress", "plan"}
Chosen(s) ==
  /\ run[s].pc \in Early => ReportOf(s).walkForward = {}
  /\ run[s].pc \in {"folds", "final"} =>
       \A w \in ReportOf(s).walkForward :
          IsSeq(w) /\ \A i \in DOMAIN w : ChosenInSight(s, w[i])
  /\ run[s].pc = "folds" =>
       /\ \E w : ReportOf(s).walkForward = {w} /\ Len(w) < Len(run[s].folds)
       /\ IsSeq(run[s].folds)
       /\ \A i \in DOMAIN run[s].folds : InSight(run[s].folds[i].train, SeriesOf(s))

\* What a study works on does not change under it.
LEMMA SameMaterial ==
  ASSUME NEW s \in Sessions, history' = history, run'[s].plan = run[s].plan,
         run'[s].windows = run[s].windows
  PROVE  /\ SettingsOf(s)' = SettingsOf(s) /\ SeriesOf(s)' = SeriesOf(s) /\ CfgOf(s)' = CfgOf(s)
         /\ InSample(s)' = InSample(s) /\ SweepsOf(s)' = SweepsOf(s)
<1>1. SettingsOf(s)' = SettingsOf(s) /\ SeriesOf(s)' = SeriesOf(s) /\ CfgOf(s)' = CfgOf(s)
  BY DEF SettingsOf, SeriesOf, CfgOf
<1>2. InSample(s)' = InSample(s)
  <2>1. InSample(s) = Named(run[s].windows, "in_sample")
    BY DEF InSample, WindowOf, Named
  <2>2. InSample(s)' = Named(run'[s].windows, "in_sample")
    BY DEF InSample, WindowOf, Named
  <2> QED  BY <2>1, <2>2
<1> QED  BY <1>1, <1>2 DEF SweepsOf

\* One step of its session leaves what a study has measured right.
LEMMA MeasuredStep ==
  ASSUME Shape, NEW s \in Sessions, StepOf(s), Measured(s)
  PROVE  Measured(s)'
<1>0. history' = history
  BY SealsGrow
<1>1. CASE Begins(s) \/ Ends(s)
  BY <1>1 DEF Begins, Ends, Idle, Measured
<1>2. CASE run' = run
  <2>1. /\ SettingsOf(s)' = SettingsOf(s) /\ SeriesOf(s)' = SeriesOf(s) /\ CfgOf(s)' = CfgOf(s)
        /\ InSample(s)' = InSample(s) /\ SweepsOf(s)' = SweepsOf(s)
    BY <1>0, <1>2, SameMaterial
  <2>2. ReportOf(s)' = ReportOf(s)
    BY <1>2 DEF ReportOf
  <2> QED  BY <1>2, <2>1, <2>2 DEF Measured, CorrelationOf
<1>3. CASE Goes(s)
  <2>1. /\ SettingsOf(s)' = SettingsOf(s) /\ SeriesOf(s)' = SeriesOf(s) /\ CfgOf(s)' = CfgOf(s)
        /\ InSample(s)' = InSample(s) /\ SweepsOf(s)' = SweepsOf(s)
    BY <1>0, <1>3, SameMaterial DEF Goes
  <2>2. ReportOf(s).inSample = ReportOf(s)'.inSample => CorrelationOf(s)' = CorrelationOf(s)
    BY <2>1 DEF CorrelationOf
  <2>3. run[s].pc # "save" =>
          /\ run[s].pc # "develop" => ReportOf(s)'.inSample = ReportOf(s).inSample
          /\ run[s].pc # "sweep" => ReportOf(s)'.sweeps = ReportOf(s).sweeps
          /\ run[s].pc # "stress" => ReportOf(s)'.correlation = ReportOf(s).correlation
    BY <1>3, FindingsKnown DEF Goes, ReportOf
  <2>4. run[s].pc = "develop" =>
          ReportOf(s)'.inSample = Result(SeriesOf(s), InSample(s), CfgOf(s))
    BY <1>3, ActionAt, DevelopmentMoves DEF ReportOf, InSample
  <2>5. run[s].pc = "sweep" => ReportOf(s)'.sweeps = SweepsOf(s)
    BY <1>3, ActionAt, SweepMoves DEF ReportOf
  <2>6. run[s].pc = "stress" => ReportOf(s)'.correlation = CorrelationOf(s)
    BY <1>3, ActionAt, StressMoves DEF ReportOf
  <2>7. <<run[s].pc, run'[s].pc>> \in Transitions
    BY <1>3 DEF Goes
  <2>8. Measured(s)' <=>
          /\ run'[s].pc \in {"door", "sweep", "stress"} =>
               ReportOf(s)'.inSample = Result(SeriesOf(s), InSample(s), CfgOf(s))
          /\ run'[s].pc \in {"stress", "plan", "folds", "final"} => ReportOf(s)'.sweeps = SweepsOf(s)
          /\ run'[s].pc \in {"plan", "folds", "final"} =>
               /\ ReportOf(s)'.inSample = Result(SeriesOf(s), InSample(s), CfgOf(s))
               /\ ReportOf(s)'.correlation = CorrelationOf(s)'
    BY <2>1 DEF Measured
  <2>9. CASE run'[s].pc \in {"door", "sweep"}
    <3>1. run[s].pc \in {"develop", "door"}
      BY <2>7, <2>9 DEF Transitions
    <3> QED  BY <2>3, <2>4, <2>8, <2>9, <3>1 DEF Measured
  <2>10. CASE run'[s].pc = "stress"
    <3>1. run[s].pc = "sweep"
      BY <2>7, <2>10 DEF Transitions
    <3> QED  BY <2>3, <2>5, <2>8, <2>10, <3>1 DEF Measured
  <2>11. CASE run'[s].pc = "plan"
    <3>1. run[s].pc = "stress"
      BY <2>7, <2>11 DEF Transitions
    <3> QED  BY <2>2, <2>3, <2>6, <2>8, <2>11, <3>1 DEF Measured
  <2>12. CASE run'[s].pc \in {"folds", "final"}
    <3>1. run[s].pc \in {"plan", "folds"}
      BY <2>7, <2>12 DEF Transitions
    <3> QED  BY <2>2, <2>3, <2>8, <2>12, <3>1 DEF Measured
  <2>13. CASE run'[s].pc \notin {"door", "sweep", "stress", "plan", "folds", "final"}
    BY <2>8, <2>13
  <2> QED  BY <2>9, <2>10, <2>11, <2>12, <2>13
<1> QED  BY <1>1, <1>2, <1>3, StepGoes

\* One step of its session leaves what its folds have chosen right.
LEMMA ChosenStep ==
  ASSUME Shape, NEW s \in Sessions, StepOf(s), Chosen(s)
  PROVE  Chosen(s)'
<1>0. history' = history
  BY SealsGrow
<1>1. CASE Begins(s)
  <2>1. run'[s].pc = "register" /\ run'[s].report.walkForward = {}
    <3>1. run'[s].report = NewReport(run'[s].plan) /\ run'[s].pc = "register"
      BY <1>1 DEF Begins
    <3>2. \A plan : NewReport(plan).walkForward = {}
      BY DEF NewReport
    <3> QED  BY <3>1, <3>2
  <2> QED  BY <2>1 DEF Chosen, ReportOf
<1>2. CASE Ends(s)
  BY <1>2 DEF Ends, Idle, Chosen, Early
<1>3. CASE run' = run
  <2>1. SeriesOf(s)' = SeriesOf(s) /\ ReportOf(s)' = ReportOf(s)
    BY <1>0, <1>3 DEF SeriesOf, ReportOf
  <2> QED  BY <1>3, <2>1 DEF Chosen, ChosenInSight, InSight
<1>4. CASE Goes(s)
  <2>1. SeriesOf(s)' = SeriesOf(s) /\ run[s].plan \in Plans
    BY <1>0, <1>4 DEF Goes, SeriesOf, IsJob
  <2>2. <<run[s].pc, run'[s].pc>> \in Transitions
    BY <1>4 DEF Goes
  <2>3. CASE run[s].pc \in Early \ {"plan"}
    <3>1. ReportOf(s)'.walkForward = ReportOf(s).walkForward
      BY <1>4, <2>3, FindingsKnown DEF Goes, ReportOf, Early
    <3>2. run'[s].pc \in Early
      BY <2>2, <2>3 DEF Transitions, Early
    <3> QED  BY <2>3, <3>1, <3>2 DEF Chosen, Early
  <2>4. CASE run[s].pc = "plan"
    <3>0. PlanFolds(s)
      BY <1>4, <2>4, ActionAt
    <3>1. CASE SettingsOf(s).walkForward # {} /\ PlannedFolds(s) # {}
      <4>1. /\ run'[s].pc = "folds" /\ ReportOf(s)'.walkForward = {<<>>}
            /\ run'[s].folds \in PlannedFolds(s)
        BY <3>0, <3>1, PlanFoldsMoves DEF Moves, ReportOf
      <4>2. PICK folds \in PlannedFolds(s) : folds = run'[s].folds
        BY <4>1
      <4>3. /\ IsSeq(folds) /\ Len(folds) > 0
            /\ \A i \in DOMAIN folds : InSight(folds[i].train, SeriesOf(s))
        BY <2>1, PlannedInSight
      <4>4. IsSeq(<<>>) /\ DOMAIN <<>> = {} /\ Len(<<>>) = 0
        BY DEF IsSeq
      <4>5. \E w : ReportOf(s)'.walkForward = {w} /\ Len(w) < Len(folds)
        BY <4>1, <4>3, <4>4
      <4>6. \A i \in DOMAIN run'[s].folds : InSight(run'[s].folds[i].train, SeriesOf(s)')
        BY <2>1, <4>2, <4>3
      <4>7. IsSeq(run'[s].folds)
        BY <4>2, <4>3
      <4>8. \A w \in ReportOf(s)'.walkForward : IsSeq(w) /\ DOMAIN w = {}
        BY <4>1, <4>4
      <4> QED  BY <4>1, <4>2, <4>5, <4>6, <4>7, <4>8 DEF Chosen, Early, InSight, IsSeq
    <3>2. CASE SettingsOf(s).walkForward = {} \/ PlannedFolds(s) = {}
      <4>1. Moves(s, "plan", "final", {}, {})
        <5>1. ~Ends(s)
          BY <1>4 DEF Goes, Ends, Idle, IsJob, Stages, Written
        <5> QED  BY <3>0, <3>2, <5>1, PlanFoldsOtherwise
      <4>2. run'[s].pc = "final" /\ ReportOf(s)'.walkForward = ReportOf(s).walkForward
        BY <4>1 DEF Moves, ReportOf, JobFields
      <4> QED  BY <2>4, <4>2 DEF Chosen, Early
    <3> QED  BY <3>1, <3>2
  <2>5. CASE run[s].pc = "folds"
    <3>1. PICK w : ReportOf(s).walkForward = {w} /\ Len(w) < Len(run[s].folds)
      BY <2>5 DEF Chosen
    <3>2. /\ IsSeq(w) /\ \A i \in DOMAIN w : ChosenInSight(s, w[i])
          /\ IsSeq(run[s].folds)
          /\ \A i \in DOMAIN run[s].folds : InSight(run[s].folds[i].train, SeriesOf(s))
      BY <2>5, <3>1 DEF Chosen
    <3>3. FoldsDone(s) = w
      BY <3>1 DEF FoldsDone
    <3>4. PICK fold : fold = FoldResult(s)
      OBVIOUS
    <3>5. PICK longer : longer = Append(w, fold)
      OBVIOUS
    <3>6. /\ run'[s].pc = IF Len(FoldsDone(s)) + 1 = Len(run[s].folds) THEN "final" ELSE "folds"
          /\ ReportOf(s)'.walkForward = {longer}
          /\ run'[s].folds = run[s].folds /\ run'[s].candidates = run[s].candidates
      <4>1. WalkFold(s)
        BY <1>4, <2>5, ActionAt
      <4>2. /\ Moves(s, "folds", IF Len(FoldsDone(s)) + 1 = Len(run[s].folds) THEN "final" ELSE "folds",
                     {"session", "report"}, {"walkForward"})
            /\ run'[s].report.walkForward = {Append(FoldsDone(s), FoldResult(s))}
        BY <4>1, FoldMoves
      <4>3. run'[s].folds = run[s].folds /\ run'[s].candidates = run[s].candidates
        BY <4>2 DEF Moves, JobFields
      <4> QED  BY <3>3, <3>4, <3>5, <4>2, <4>3 DEF Moves, ReportOf
    <3>7. Len(w) \in Nat /\ Len(run[s].folds) \in Nat /\ DOMAIN run[s].folds = 1 .. Len(run[s].folds)
      BY <3>2, SeqFacts
    <3>8. Len(w) + 1 \in DOMAIN run[s].folds
      BY <3>1, <3>7
    <3>9. ChosenInSight(s, fold)
      <4>1. fold.train = FoldNow(s).train /\ fold.selected = ChosenNow(s).name
        BY <3>4 DEF FoldResult
      <4>2. InSight(FoldNow(s).train, SeriesOf(s))
        BY <3>2, <3>3, <3>8 DEF FoldNow
      <4> QED  BY <4>1, <4>2 DEF ChosenInSight, ChosenNow
    <3>10. IsSeq(longer) /\ Len(longer) = Len(w) + 1 /\ \A i \in DOMAIN longer : ChosenInSight(s, longer[i])
      <4>1. /\ IsSeq(longer) /\ DOMAIN longer = 1 .. Len(w) + 1 /\ DOMAIN w = 1 .. Len(w)
            /\ \A i \in DOMAIN w : longer[i] = w[i]
            /\ longer[Len(w) + 1] = fold
        BY <3>2, <3>5, SeqFacts
      <4>2. Len(longer) = Len(w) + 1
        BY <3>7, <4>1, SeqFacts
      <4>3. \A i \in DOMAIN longer : i \in DOMAIN w \/ i = Len(w) + 1
        BY <3>7, <4>1
      <4> QED  BY <3>2, <3>9, <4>1, <4>2, <4>3
    <3>11. \A i \in DOMAIN longer : ChosenInSight(s, longer[i])'
      BY <2>1, <3>6, <3>10 DEF ChosenInSight, InSight
    <3>12. run'[s].pc = "folds" => Len(longer) < Len(run'[s].folds)
      BY <3>1, <3>3, <3>6, <3>7, <3>10
    <3>13. run'[s].pc \in {"folds", "final"} /\ run'[s].pc \notin Early
      BY <3>6 DEF Early
    <3>14. /\ IsSeq(run'[s].folds)
           /\ \A i \in DOMAIN run'[s].folds : InSight(run'[s].folds[i].train, SeriesOf(s)')
      BY <2>1, <3>2, <3>6
    <3> QED  BY <3>6, <3>10, <3>11, <3>12, <3>13, <3>14 DEF Chosen
  <2>6. CASE run[s].pc \notin Early \cup {"folds"}
    <3>1. run'[s].pc \notin Early \cup {"folds", "final"}
      BY <2>2, <2>6 DEF Transitions, Early
    <3> QED  BY <3>1 DEF Chosen
  <2> QED  BY <2>3, <2>4, <2>5, <2>6
<1> QED  BY <1>1, <1>2, <1>3, <1>4, StepGoes

\* What a study decides on a window depends on no bar after it.
THEOREM NothingEverLeaksBack == Spec => []NothingLeaksBack
<1> DEFINE Blind == /\ IndInv /\ history \in Histories
                    /\ \A s \in Sessions : Measured(s) /\ Chosen(s)
<1>1. Init => Blind
  <2> SUFFICES ASSUME Init PROVE Blind
    OBVIOUS
  <2>1. \A s \in Sessions : run[s].pc = "idle"
    BY DEF Init, Idle
  <2>2. \A s \in Sessions : Measured(s) /\ Chosen(s)
    BY <2>1 DEF Measured, Chosen, Early
  <2> QED  BY <2>2, InitIndInv DEF Init
<1>2. Blind /\ [Next]_vars => Blind'
  <2> SUFFICES ASSUME Blind, [Next]_vars PROVE Blind'
    OBVIOUS
  <2>0. IndInv' /\ Shape
    BY NextIndInv DEF IndInv
  <2>1. ASSUME history' = history, NEW u \in Sessions, run'[u] = run[u]
        PROVE  Measured(u)' /\ Chosen(u)'
    <3>1. /\ SettingsOf(u)' = SettingsOf(u) /\ SeriesOf(u)' = SeriesOf(u) /\ CfgOf(u)' = CfgOf(u)
          /\ InSample(u)' = InSample(u) /\ SweepsOf(u)' = SweepsOf(u)
      BY <2>1, SameMaterial
    <3>2. ReportOf(u)' = ReportOf(u)
      BY <2>1 DEF ReportOf
    <3>3. CorrelationOf(u)' = CorrelationOf(u)
      BY <3>1, <3>2 DEF CorrelationOf
    <3>4. Measured(u)'
      BY <2>1, <3>1, <3>2, <3>3 DEF Measured
    <3>5. Chosen(u)'
      <4>1. Chosen(u)
        OBVIOUS
      <4>2. \A x : ChosenInSight(u, x)' <=> ChosenInSight(u, x)
        BY <2>1, <3>1 DEF ChosenInSight
      <4> QED  BY <2>1, <3>1, <3>2, <4>1, <4>2 DEF Chosen
    <3> QED  BY <3>4, <3>5
  <2>2. CASE UNCHANGED vars
    BY <2>0, <2>1, <2>2 DEF vars
  <2>3. CASE Next
    <3>1. PICK s \in Sessions : StepOf(s)
      BY <2>3 DEF Next, StepOf
    <3>2. history' = history /\ \A u \in Sessions \ {s} : run'[u] = run[u]
      BY <2>0, <3>1, SealsGrow, StepGoes DEF Begins, Goes, Ends, Others
    <3>3. Measured(s)' /\ Chosen(s)'
      BY <2>0, <3>1, MeasuredStep, ChosenStep
    <3> QED  BY <2>0, <2>1, <3>2, <3>3
  <2> QED  BY <2>2, <2>3
<1>3. Blind => NothingLeaksBack
  <2> SUFFICES ASSUME Blind, NEW s \in Sessions, run[s].pc = "final"
               PROVE  LET r      == ReportOf(s)
                          o      == SettingsOf(s)
                          window == WindowOf(s, "in_sample")
                          blind  == BlankedFrom(SeriesOf(s), window.end)
                          seen   == Result(blind, window, CfgOf(s))
                      IN  /\ r.sweeps = RobustnessStudy(blind, window, CfgOf(s), o)
                          /\ r.correlation =
                               AnalyseCorrelations(seen, IsolateStrategies(blind, window, CfgOf(s), o.isolate),
                                                   o.threshold)
                          /\ \A w \in r.walkForward : run[s].candidates # <<>> =>
                               \A i \in DOMAIN w :
                                  w[i].selected = SelectCandidate(BlankedFrom(SeriesOf(s), w[i].train.end),
                                                                  w[i].train, run[s].candidates).name
    BY DEF NothingLeaksBack
  <2>1. /\ run[s].plan \in Plans /\ Origin(s) /\ run[s].pc # "idle"
        /\ run[s].plan.data \in DOMAIN history
    BY InAStudy DEF IndInv, StudyOK, IsJob, Origin
  <2>2. SeriesOf(s) \in Seq(Range(SeriesOf(s)))
    BY <2>1, HistoriesAssumption DEF SeriesOf
  <2>3. PICK window : window = InSample(s) /\ InSight(window, SeriesOf(s))
    BY <2>1, InSampleInSight
  <2>4. PICK blind : blind = BlankedFrom(SeriesOf(s), window.end)
    OBVIOUS
  <2>5. SliceFrame(window, SeriesOf(s)) = SliceFrame(window, blind)
    BY <2>2, <2>3, <2>4, BlindFrame
  <2>6. ReportOf(s).sweeps = RobustnessStudy(blind, window, CfgOf(s), SettingsOf(s))
    <3>1. ReportOf(s).sweeps = RobustnessStudy(SeriesOf(s), window, CfgOf(s), SettingsOf(s))
      BY <2>3 DEF Measured, SweepsOf
    <3> QED  BY <2>5, <3>1, SweepReadsFrame
  <2>7. ReportOf(s).correlation =
          AnalyseCorrelations(Result(blind, window, CfgOf(s)),
                              IsolateStrategies(blind, window, CfgOf(s), SettingsOf(s).isolate),
                              SettingsOf(s).threshold)
    <3>1. ReportOf(s).inSample = Result(SeriesOf(s), window, CfgOf(s))
      BY <2>3 DEF Measured
    <3>2. Result(SeriesOf(s), window, CfgOf(s)) = Result(blind, window, CfgOf(s))
      BY <2>5, SameRun
    <3>3. IsolateStrategies(SeriesOf(s), window, CfgOf(s), SettingsOf(s).isolate)
            = IsolateStrategies(blind, window, CfgOf(s), SettingsOf(s).isolate)
      BY <2>5, IsolationReadsFrame
    <3>4. ReportOf(s).correlation = CorrelationOf(s)
      BY DEF Measured
    <3> QED  BY <2>3, <3>1, <3>2, <3>3, <3>4 DEF CorrelationOf
  <2>8. ASSUME NEW w \in ReportOf(s).walkForward, run[s].candidates # <<>>, NEW i \in DOMAIN w
        PROVE  w[i].selected = SelectCandidate(BlankedFrom(SeriesOf(s), w[i].train.end),
                                               w[i].train, run[s].candidates).name
    <3>1. ChosenInSight(s, w[i])
      BY <2>8 DEF Chosen
    <3>2. SliceFrame(w[i].train, SeriesOf(s))
            = SliceFrame(w[i].train, BlankedFrom(SeriesOf(s), w[i].train.end))
      BY <2>2, <3>1, BlindFrame DEF ChosenInSight
    <3> QED  BY <2>8, <3>1, <3>2, ChoiceReadsFrame DEF ChosenInSight
  <2> QED  BY <2>3, <2>4, <2>6, <2>7, <2>8 DEF InSample
<1> QED  BY <1>1, <1>2, <1>3, PTL DEF Spec

---------------------------------------------------------------------------
(* What a surface is told is available. *)

\* The least element of a set of numbers.
LEMMA LeastNumber ==
  ASSUME NEW T \in SUBSET Nat, T # {}
  PROVE  \E n \in T : \A m \in T : n <= m
<1> DEFINE R == OpToRel(<, Nat)
<1>1. \E n \in T : \A m \in T : ~ (<<m, n>> \in R)
  <2>1. IsWellFoundedOn(R, Nat) /\ T \subseteq Nat
    BY NatLessThanWellFounded
  <2> HIDE DEF R
  <2> QED  BY <2>1, WFMin
<1>2. \A m, n \in Nat : m < n => <<m, n>> \in R
  BY DEF OpToRel
<1> HIDE DEF R
<1>3. PICK n \in T : \A m \in T : ~ (<<m, n>> \in R)
  BY <1>1
<1>4. ASSUME NEW m \in T PROVE n <= m
  <2>1. m \in Nat /\ n \in Nat /\ ~ (m < n)
    BY <1>2, <1>3
  <2> QED  BY <2>1
<1> QED  BY <1>4

\* Min picks that element.
LEMMA MinOfNumbers ==
  ASSUME NEW T \in SUBSET Nat, T # {}
  PROVE  Min(T) \in T /\ \A m \in T : Min(T) <= m
<1>1. \E n \in T : \A m \in T : n <= m
  BY LeastNumber
<1> QED  BY <1>1 DEF Min

\* A sequence without its k-th element has the elements before it in their
\* places, and those after it one place earlier.
LEMMA WithoutOne ==
  ASSUME NEW q, IsSeq(q), NEW k \in DOMAIN q
  PROVE  /\ IsSeq(RemoveAt(q, k)) /\ Len(RemoveAt(q, k)) = Len(q) - 1
         /\ \A i \in 1 .. Len(q) - 1 : RemoveAt(q, k)[i] = IF i < k THEN q[i] ELSE q[i + 1]
<1> DEFINE S == {q[i] : i \in DOMAIN q}
           m == Len(q)
           front == SubSeq(q, 1, k - 1)
           back == SubSeq(q, k + 1, m)
           r == front \o back
<1>1. q \in Seq(S) /\ m \in Nat /\ k \in 1 .. m
  BY SeqFacts DEF IsSeq
<1>2. RemoveAt(q, k) = r
  BY DEF RemoveAt
<1>3. /\ front \in Seq(S) /\ Len(front) = k - 1
      /\ \A i \in 1 .. k - 1 : front[i] = q[i]
  <2> HIDE DEF S
  <2> QED  BY <1>1, SubSeqProperties
<1>4. /\ back \in Seq(S) /\ Len(back) = m - k
      /\ \A i \in 1 .. m - k : back[i] = q[k + i]
  <2> HIDE DEF S
  <2> QED  BY <1>1, SubSeqProperties
<1> HIDE DEF S, m, front, back
<1>c. /\ r \in Seq(S) /\ Len(r) = Len(front) + Len(back)
      /\ \A i \in 1 .. Len(front) + Len(back) :
           r[i] = IF i <= Len(front) THEN front[i] ELSE back[i - Len(front)]
  BY <1>3, <1>4, ConcatProperties
<1> HIDE DEF r
<1>5. r \in Seq(S) /\ Len(r) = m - 1
  BY <1>1, <1>3, <1>4, <1>c
<1>6. ASSUME NEW i \in 1 .. m - 1 PROVE r[i] = IF i < k THEN q[i] ELSE q[i + 1]
  <2>0. i \in 1 .. Len(front) + Len(back) /\ Len(front) = k - 1 /\ i \in Int
    BY <1>1, <1>3, <1>4
  <2>3. r[i] = IF i <= k - 1 THEN front[i] ELSE back[i - (k - 1)]
    BY <1>c, <2>0
  <2>1. CASE i < k
    <3>0. i <= k - 1 /\ i \in 1 .. k - 1
      BY <1>1, <2>0, <2>1
    <3>1. r[i] = front[i] /\ front[i] = q[i]
      BY <1>3, <2>3, <3>0
    <3> QED  BY <2>1, <3>1
  <2>2. CASE ~(i < k)
    <3>0. ~(i <= k - 1)
      BY <1>1, <2>0, <2>2
    <3>1. r[i] = back[i - (k - 1)]
      BY <2>3, <3>0
    <3>2. i - (k - 1) \in 1 .. m - k /\ k + (i - (k - 1)) = i + 1
      BY <1>1, <2>2
    <3>3. back[i - (k - 1)] = q[k + (i - (k - 1))]
      BY <1>4, <3>2
    <3> QED  BY <2>2, <3>1, <3>2, <3>3
  <2> QED  BY <2>1, <2>2
<1>7. IsSeq(r) /\ Len(r) = m - 1
  BY <1>1, <1>5 DEF IsSeq
<1> QED  BY <1>2, <1>6, <1>7 DEF m


\* A file in front of a sequence moves the others one place back.
LEMMA InFront ==
  ASSUME NEW q, IsSeq(q), NEW x
  PROVE  /\ IsSeq(<<x>> \o q) /\ Len(<<x>> \o q) = Len(q) + 1 /\ Len(q) \in Nat
         /\ (<<x>> \o q)[1] = x
         /\ \A i \in 1 .. Len(q) : (<<x>> \o q)[i + 1] = q[i]
<1> DEFINE S == {q[i] : i \in DOMAIN q} \cup {x}
           m == Len(q)
           one == <<x>>
           r == one \o q
<1>1. q \in Seq(S) /\ one \in Seq(S) /\ Len(one) = 1 /\ one[1] = x /\ m \in Nat
  BY SeqFacts DEF IsSeq
<1> HIDE DEF S, m, one
<1>2. /\ r \in Seq(S) /\ Len(r) = Len(one) + Len(q)
      /\ \A i \in 1 .. Len(one) + Len(q) : r[i] = IF i <= Len(one) THEN one[i] ELSE q[i - Len(one)]
  BY <1>1, ConcatProperties
<1> HIDE DEF r
<1>3. IsSeq(r)
  BY <1>2 DEF IsSeq
<1>6. Len(r) = m + 1
  BY <1>1, <1>2 DEF m
<1>4. r[1] = x
  BY <1>1, <1>2 DEF m
<1>5. ASSUME NEW i \in 1 .. m PROVE r[i + 1] = q[i]
  <2>1. i + 1 \in 1 .. Len(one) + Len(q) /\ ~(i + 1 <= Len(one)) /\ i + 1 - Len(one) = i
    BY <1>1 DEF m
  <2> QED  BY <1>2, <2>1
<1> QED  BY <1>1, <1>3, <1>4, <1>5, <1>6 DEF r, one, m

\* A file is rewritten: it comes first, and no other file loses a file of any
\* experiment that came before it.
LEMMA RewritingKeepsOrder ==
  ASSUME IsSeq(reports), NEW id, NEW file, file.id = id
  PROVE  LET files == Rewritten(id, file) IN
         /\ IsSeq(files) /\ 1 \in DOMAIN files /\ files[1] = file
         /\ \A k \in DOMAIN files \ {1} : \E was \in DOMAIN reports :
              /\ files[k] = reports[was]
              /\ \A m \in 1 .. was - 1 : \E n \in 1 .. k - 1 : files[n].id = reports[m].id
<1> DEFINE others == Elsewhere(id)
           files == <<file>> \o others
           places == {k \in DOMAIN reports : reports[k].id = id}
<1>1. Rewritten(id, file) = files
  BY DEF Rewritten
<1>2. Len(reports) \in Nat /\ DOMAIN reports = 1 .. Len(reports)
  BY SeqFacts
<1>3. CASE places = {}
  <2>1. others = reports
    BY <1>3 DEF Elsewhere
  <2>2. /\ IsSeq(files) /\ Len(files) = Len(reports) + 1 /\ files[1] = file
        /\ \A i \in 1 .. Len(reports) : files[i + 1] = reports[i]
    BY <2>1, InFront
  <2> HIDE DEF files
  <2>5. DOMAIN files = 1 .. Len(reports) + 1
    BY <2>2, SeqFacts
  <2>3. ASSUME NEW k \in DOMAIN files \ {1}
        PROVE  \E was \in DOMAIN reports :
                 /\ files[k] = reports[was]
                 /\ \A m \in 1 .. was - 1 : \E n \in 1 .. k - 1 : files[n].id = reports[m].id
    <3>1. k - 1 \in 1 .. Len(reports) /\ k - 1 + 1 = k
      BY <1>2, <2>5
    <3>2. files[k] = reports[k - 1]
      BY <2>2, <3>1
    <3>3. ASSUME NEW m \in 1 .. k - 1 - 1
          PROVE  \E n \in 1 .. k - 1 : files[n].id = reports[m].id
      <4>1. m + 1 \in 1 .. k - 1 /\ m \in 1 .. Len(reports)
        BY <1>2, <3>1
      <4> QED  BY <2>2, <4>1
    <3> QED  BY <1>2, <3>1, <3>2, <3>3
  <2>4. 1 \in DOMAIN files
    BY <1>2, <2>5
  <2> QED  BY <1>1, <2>2, <2>3, <2>4
<1>4. CASE places # {}
  <2> DEFINE p == CHOOSE k \in places : TRUE
  <2>1. p \in DOMAIN reports /\ reports[p].id = id
    BY <1>4
  <2>2. others = RemoveAt(reports, p)
    BY <1>4 DEF Elsewhere
  <2> HIDE DEF p
  <2>3. /\ IsSeq(others) /\ Len(others) = Len(reports) - 1
        /\ \A i \in 1 .. Len(reports) - 1 : others[i] = IF i < p THEN reports[i] ELSE reports[i + 1]
    BY <2>1, <2>2, WithoutOne
  <2> HIDE DEF others
  <2>8. IsSeq(others)
    BY <2>3
  <2>4. /\ IsSeq(files) /\ Len(files) = Len(others) + 1 /\ files[1] = file
        /\ \A i \in 1 .. Len(others) : files[i + 1] = others[i]
    BY ONLY <2>8, InFront
  <2> HIDE DEF files
  <2>5. Len(files) = Len(reports) /\ DOMAIN files = 1 .. Len(files)
    BY <1>2, <2>3, <2>4, SeqFacts
  <2>6. /\ IsSeq(files) /\ DOMAIN files = 1 .. Len(reports) /\ files[1] = file
        /\ \A i \in 1 .. Len(reports) - 1 : files[i + 1] = others[i]
    BY <2>3, <2>4, <2>5
  <2>7. ASSUME NEW k \in DOMAIN files \ {1}
        PROVE  \E was \in DOMAIN reports :
                 /\ files[k] = reports[was]
                 /\ \A m \in 1 .. was - 1 : \E n \in 1 .. k - 1 : files[n].id = reports[m].id
    <3>0. k \in 1 .. Len(reports) /\ k # 1 /\ p \in 1 .. Len(reports)
      BY <1>2, <2>1, <2>6
    <3>1. k - 1 \in 1 .. Len(reports) - 1 /\ k - 1 + 1 = k /\ k \in 2 .. Len(reports) /\ p \in 1 .. Len(reports)
      BY <1>2, <3>0
    <3>2. files[k] = others[k - 1]
      BY <2>6, <3>1
    <3>3. CASE k - 1 < p
      <4>1. files[k] = reports[k - 1]
        BY <2>3, <3>1, <3>2, <3>3
      <4>2. ASSUME NEW m \in 1 .. k - 1 - 1
            PROVE  \E n \in 1 .. k - 1 : files[n].id = reports[m].id
        <5>1. m + 1 \in 1 .. k - 1 /\ m \in 1 .. Len(reports) - 1 /\ m < p
          BY <1>2, <3>1, <3>3
        <5>2. files[m + 1] = others[m] /\ others[m] = reports[m]
          BY <2>3, <2>6, <5>1
        <5> QED  BY <5>1, <5>2
      <4>3. k - 1 \in DOMAIN reports
        BY <1>2, <3>1
      <4> QED  BY <4>1, <4>2, <4>3
    <3>4. CASE ~(k - 1 < p)
      <4>1. files[k] = reports[k]
        BY <2>3, <3>1, <3>2, <3>4
      <4>2. ASSUME NEW m \in 1 .. k - 1
            PROVE  \E n \in 1 .. k - 1 : files[n].id = reports[m].id
        <5>1. CASE m < p
          <6>1. m + 1 \in 1 .. k - 1 /\ m \in 1 .. Len(reports) - 1
            BY <1>2, <3>1, <3>4, <5>1
          <6>2. files[m + 1] = others[m] /\ others[m] = reports[m]
            BY <2>3, <2>6, <5>1, <6>1
          <6> QED  BY <6>1, <6>2
        <5>2. CASE m = p
          <6>1. 1 \in 1 .. k - 1 /\ files[1].id = reports[m].id
            BY <2>1, <2>6, <3>1, <5>2
          <6> QED  BY <6>1
        <5>3. CASE m > p
          <6>1. m - 1 \in 1 .. Len(reports) - 1 /\ ~(m - 1 < p) /\ m - 1 + 1 = m
            BY <1>2, <3>1, <5>3
          <6>2. files[m] = others[m - 1] /\ others[m - 1] = reports[m]
            BY <2>3, <2>6, <6>1
          <6> QED  BY <6>2
        <5> QED  BY <3>1, <5>1, <5>2, <5>3
      <4>3. k \in DOMAIN reports
        BY <1>2, <3>1
      <4> QED  BY <4>1, <4>2, <4>3
    <3> QED  BY <3>3, <3>4
  <2>9. 1 \in DOMAIN files
    BY <1>2, <2>1, <2>6
  <2> QED  BY <1>1, <2>6, <2>7, <2>9
<1> QED  BY <1>3, <1>4

\* A file is torn, or it is a report that was published, and whatever was
\* published after it has its own file before this one.
FileHonest(k) ==
  \/ reports[k].report = {}
  \/ \E i \in DOMAIN published :
       /\ reports[k].report = {published[i]} /\ reports[k].id = published[i].id
       /\ \A j \in i + 1 .. Len(published) : \E m \in 1 .. k - 1 : reports[m].id = published[j].id

FilesOK ==
  /\ IsSeq(reports) /\ \A k \in DOMAIN reports : FileHonest(k)
  /\ \A i \in DOMAIN published : \E plan \in Plans :
       published[i].id = ExperimentId(plan) /\ published[i].symbol = plan.symbol

\* The first write of a study leaves a torn file in front of honest ones.
LEMMA BeginSaveStaysHonest ==
  ASSUME FilesOK, NEW s \in Sessions, BeginSave(s)
  PROVE  FilesOK'
<1> DEFINE id == ReportOf(s).id
           file == [id |-> id, report |-> {}]
<1>1. reports' = Rewritten(id, file) /\ published' = published /\ file.id = id /\ file.report = {}
  BY DEF BeginSave
<1> HIDE DEF id, file
<1>2. /\ IsSeq(reports') /\ reports'[1] = file
      /\ \A k \in DOMAIN reports' \ {1} : \E was \in DOMAIN reports :
           /\ reports'[k] = reports[was]
           /\ \A m \in 1 .. was - 1 : \E n \in 1 .. k - 1 : reports'[n].id = reports[m].id
  <2> HIDE DEF FileHonest
  <2>1. IsSeq(reports)
    BY DEF FilesOK
  <2>2. LET files == Rewritten(id, file) IN
         /\ IsSeq(files) /\ 1 \in DOMAIN files /\ files[1] = file
         /\ \A k \in DOMAIN files \ {1} : \E was \in DOMAIN reports :
              /\ files[k] = reports[was]
              /\ \A m \in 1 .. was - 1 : \E n \in 1 .. k - 1 : files[n].id = reports[m].id
    <3>1. file.id = id
      BY <1>1
    <3> QED  BY ONLY <2>1, <3>1, RewritingKeepsOrder
  <2> QED  BY <1>1, <2>2
<1>3. ASSUME NEW k \in DOMAIN reports' PROVE FileHonest(k)'
  <2>1. CASE k = 1
    BY <1>1, <1>2, <2>1 DEF FileHonest
  <2>2. CASE k # 1
    <3>1. PICK was \in DOMAIN reports :
            /\ reports'[k] = reports[was]
            /\ \A m \in 1 .. was - 1 : \E n \in 1 .. k - 1 : reports'[n].id = reports[m].id
      BY <1>2, <2>2
    <3>2. FileHonest(was)
      BY DEF FilesOK
    <3> QED  BY <1>1, <3>1, <3>2 DEF FileHonest
  <2> QED  BY <2>1, <2>2
<1> QED  BY <1>1, <1>2, <1>3 DEF FilesOK

\* A write that succeeds puts the report published last in front of honest files.
LEMMA FinishSaveStaysHonest ==
  ASSUME FilesOK, IsSeq(published), Shape, NEW s \in Sessions, FinishSave(s), Origin(s)
  PROVE  FilesOK'
<1> DEFINE report == ReportOf(s)
           id == report.id
           file == [id |-> id, report |-> {report}]
<1>0. CASE UNCHANGED <<reports, published>>
  BY <1>0 DEF FilesOK, FileHonest
<1>1. CASE ~UNCHANGED <<reports, published>>
  <2>1. /\ reports' = Rewritten(id, file) /\ published' = Append(published, report)
        /\ file.id = id /\ file.report = {report} /\ run[s].pc # "idle"
    BY <1>1 DEF FinishSave
  <2>2. \E plan \in Plans : id = ExperimentId(plan) /\ report.symbol = plan.symbol
    BY <2>1, InAStudy DEF Origin, IsJob, ReportOf
  <2> DEFINE n == Len(published)
  <2>3. /\ n \in Nat /\ DOMAIN published = 1 .. n /\ DOMAIN published' = 1 .. n + 1
        /\ IsSeq(published')
        /\ \A i \in 1 .. n : published'[i] = published[i]
        /\ published'[n + 1] = report
    BY <2>1, SeqFacts
  <2>4. Len(published') = n + 1
    <3>1. Len(published') \in Nat /\ DOMAIN published' = 1 .. Len(published')
      BY <2>3, SeqFacts
    <3> QED  BY <2>3, <3>1
  <2> HIDE DEF report, id, file, n
  <2>5. /\ IsSeq(reports') /\ reports'[1] = file
        /\ \A k \in DOMAIN reports' \ {1} : \E was \in DOMAIN reports :
             /\ reports'[k] = reports[was]
             /\ \A m \in 1 .. was - 1 : \E x \in 1 .. k - 1 : reports'[x].id = reports[m].id
    <3>1. IsSeq(reports)
      BY DEF FilesOK
    <3>2. LET files == Rewritten(id, file) IN
           /\ IsSeq(files) /\ 1 \in DOMAIN files /\ files[1] = file
           /\ \A k \in DOMAIN files \ {1} : \E was \in DOMAIN reports :
                /\ files[k] = reports[was]
                /\ \A m \in 1 .. was - 1 : \E x \in 1 .. k - 1 : files[x].id = reports[m].id
      <4>1. file.id = id
        BY <2>1
      <4> QED  BY ONLY <3>1, <4>1, RewritingKeepsOrder
    <3> QED  BY <2>1, <3>2
  <2>6. ASSUME NEW k \in DOMAIN reports' PROVE FileHonest(k)'
    <3>1. CASE k = 1
      <4>1. n + 1 \in DOMAIN published' /\ n + 1 + 1 .. Len(published') = {}
        BY <2>3, <2>4
      <4>2. reports'[k].report = {published'[n + 1]} /\ reports'[k].id = published'[n + 1].id
        BY <2>1, <2>3, <2>5, <3>1 DEF id
      <4> QED  BY <4>1, <4>2 DEF FileHonest
    <3>2. CASE k # 1
      <4>0. k \in Nat \ {0, 1}
        <5>1. DOMAIN reports' = 1 .. Len(reports')  /\ Len(reports') \in Nat
          BY <2>5, SeqFacts
        <5> QED  BY <3>2, <5>1
      <4>1. PICK was \in DOMAIN reports :
              /\ reports'[k] = reports[was]
              /\ \A m \in 1 .. was - 1 : \E x \in 1 .. k - 1 : reports'[x].id = reports[m].id
        BY <2>5, <3>2
      <4>2. FileHonest(was)
        BY DEF FilesOK
      <4>3. CASE reports[was].report = {}
        BY <4>1, <4>3 DEF FileHonest
      <4>4. CASE reports[was].report # {}
        <5>1. PICK i \in DOMAIN published :
                /\ reports[was].report = {published[i]} /\ reports[was].id = published[i].id
                /\ \A j \in i + 1 .. n : \E m \in 1 .. was - 1 : reports[m].id = published[j].id
          BY <4>2, <4>4 DEF FileHonest, n
        <5>2. /\ i \in DOMAIN published' /\ published'[i] = published[i]
              /\ reports'[k].report = {published'[i]} /\ reports'[k].id = published'[i].id
          BY <2>3, <4>1, <5>1
        <5>3. ASSUME NEW j \in i + 1 .. n + 1
              PROVE  \E x \in 1 .. k - 1 : reports'[x].id = published'[j].id
          <6>1. CASE j = n + 1
            <7>1. 1 \in 1 .. k - 1 /\ reports'[1].id = id /\ published'[j].id = id
              BY <2>1, <2>3, <2>5, <4>0, <6>1 DEF id
            <7> QED  BY <7>1
          <6>2. CASE j # n + 1
            <7>1. j \in i + 1 .. n /\ published'[j] = published[j]
              BY <2>3, <6>2
            <7>2. PICK m \in 1 .. was - 1 : reports[m].id = published[j].id
              BY <5>1, <7>1
            <7>3. \E x \in 1 .. k - 1 : reports'[x].id = reports[m].id
              BY <4>1
            <7> QED  BY <7>1, <7>2, <7>3
          <6> QED  BY <6>1, <6>2
        <5> QED  BY <2>4, <5>2, <5>3 DEF FileHonest
      <4> QED  BY <4>3, <4>4
    <3> QED  BY <3>1, <3>2
  <2>7. ASSUME NEW i \in DOMAIN published'
        PROVE  \E plan \in Plans : published'[i].id = ExperimentId(plan)
                                   /\ published'[i].symbol = plan.symbol
    <3>1. CASE i \in DOMAIN published
      BY <2>3, <3>1 DEF FilesOK
    <3>2. CASE i = n + 1
      BY <2>2, <2>3, <3>2 DEF id
    <3> QED  BY <2>3, <3>1, <3>2
  <2> QED  BY <2>5, <2>6, <2>7 DEF FilesOK
<1> QED  BY <1>0, <1>1

\* No other step touches a file.
LEMMA FilesUntouched ==
  ASSUME NEW s \in Sessions, StepOf(s), ~BeginSave(s), ~FinishSave(s)
  PROVE  reports' = reports /\ published' = published
  BY DEF StepOf, Start, Register, RunDevelopmentWindows, CheckDoor, Sweep, StressAndCorrelate,
         PlanFolds, WalkFold, ScoreFinalWindow, LookUpSeal, InsertSeal, CountTouches, InsertAccess,
         ReadStatus, CompareVariants, Conclude, RecordVerdict, Crash

\* Two published reports of one experiment are of one instrument.
LEMMA SameExperimentSameSymbol ==
  ASSUME FilesOK, NEW i \in DOMAIN published, NEW j \in DOMAIN published,
         published[i].id = published[j].id
  PROVE  published[i].symbol = published[j].symbol
<1>1. PICK p \in Plans : published[i].id = ExperimentId(p) /\ published[i].symbol = p.symbol
  BY DEF FilesOK
<1>2. PICK q \in Plans : published[j].id = ExperimentId(q) /\ published[j].symbol = q.symbol
  BY DEF FilesOK
<1>3. p.data = q.data
  <2>1. ExperimentId(p).data = p.data /\ ExperimentId(q).data = q.data
    BY DEF ExperimentId
  <2> QED  BY <1>1, <1>2, <2>1
<1> QED  BY <1>1, <1>2, <1>3, InstrumentAssumption

\* What a surface is told is available is a completely written report of its own
\* instrument and configuration, and no report of that instrument was published
\* after it except one whose file is torn now (find_validation_reports, save).
THEOREM ContextIsHonest == Spec => []ContextHonest
<1> DEFINE Honest == IndInv /\ FilesOK
<1>1. Init => Honest
  <2> SUFFICES ASSUME Init PROVE Honest
    OBVIOUS
  <2>1. IsSeq(reports) /\ DOMAIN reports = {} /\ DOMAIN published = {}
    BY DEF Init, IsSeq
  <2> QED  BY <2>1, InitIndInv DEF FilesOK
<1>2. Honest /\ [Next]_vars => Honest'
  <2> SUFFICES ASSUME Honest, [Next]_vars PROVE Honest'
    OBVIOUS
  <2>0. IndInv' /\ Shape /\ IsSeq(published) /\ \A s \in Sessions : Origin(s)
    BY NextIndInv DEF IndInv, StudyOK, LooksOK
  <2>1. CASE reports' = reports /\ published' = published
    BY <2>0, <2>1 DEF FilesOK, FileHonest
  <2>2. CASE ~(reports' = reports /\ published' = published)
    <3>1. PICK s \in Sessions : StepOf(s)
      BY <2>2 DEF Next, StepOf, vars
    <3>2. BeginSave(s) \/ FinishSave(s)
      BY <2>2, <3>1, FilesUntouched
    <3> QED  BY <2>0, <3>2, BeginSaveStaysHonest, FinishSaveStaysHonest
  <2> QED  BY <2>1, <2>2
<1>3. Honest => ContextHonest
  <2> SUFFICES ASSUME Honest, NEW p \in Plans, LoadContext(p.symbol, p.cfg).availability = "AVAILABLE"
               PROVE  \E i \in DOMAIN published :
                        /\ LoadContext(p.symbol, p.cfg).report = {published[i]}
                        /\ published[i].cfg = p.cfg /\ published[i].symbol = p.symbol
                        /\ \A j \in i + 1 .. Len(published) :
                             published[j].symbol = p.symbol =>
                               \E k \in DOMAIN reports :
                                 reports[k].id = published[j].id /\ reports[k].report = {}
    BY DEF ContextHonest
  <2> DEFINE readable == {k \in DOMAIN reports : reports[k].report # {}}
             matches == {k \in readable : \E r \in reports[k].report : r.symbol = p.symbol}
             newest == reports[Min(matches)].report
  <2>1. /\ matches # {} /\ ~ \E r \in newest : r.cfg # p.cfg
        /\ LoadContext(p.symbol, p.cfg).report = newest
    BY DEF LoadContext
  <2>2. IsSeq(reports) /\ DOMAIN reports = 1 .. Len(reports) /\ Len(reports) \in Nat
    BY SeqFacts DEF FilesOK
  <2> DEFINE k == Min(matches)
  <2>3. k \in matches /\ \A m \in matches : k <= m
    <3>1. matches \in SUBSET Nat
      BY <2>2
    <3> HIDE DEF matches
    <3> QED  BY <2>1, <3>1, MinOfNumbers
  <2> HIDE DEF k
  <2>4. FileHonest(k) /\ k \in 1 .. Len(reports)
    BY <2>2, <2>3 DEF FilesOK
  <2>5. PICK i \in DOMAIN published :
          /\ reports[k].report = {published[i]} /\ reports[k].id = published[i].id
          /\ \A j \in i + 1 .. Len(published) : \E m \in 1 .. k - 1 : reports[m].id = published[j].id
    BY <2>3, <2>4 DEF FileHonest
  <2>6. newest = {published[i]} /\ published[i].cfg = p.cfg /\ published[i].symbol = p.symbol
    BY <2>1, <2>3, <2>5 DEF k
  <2>7. IsSeq(published) /\ DOMAIN published = 1 .. Len(published) /\ Len(published) \in Nat
    BY SeqFacts DEF IndInv, LooksOK
  <2>8. ASSUME NEW j \in i + 1 .. Len(published), published[j].symbol = p.symbol
        PROVE  \E m \in DOMAIN reports : reports[m].id = published[j].id /\ reports[m].report = {}
    <3>1. PICK m \in 1 .. k - 1 : reports[m].id = published[j].id
      BY <2>5
    <3>2. m \in DOMAIN reports /\ ~(k <= m) /\ m \notin matches
      BY <2>2, <2>3, <2>4
    <3>3. CASE reports[m].report # {}
      <4>1. PICK h \in DOMAIN published :
              reports[m].report = {published[h]} /\ reports[m].id = published[h].id
        BY <3>2, <3>3 DEF FilesOK, FileHonest
      <4>2. j \in DOMAIN published
        BY <2>7
      <4>3. published[h].symbol = p.symbol
        BY <2>8, <3>1, <4>1, <4>2, SameExperimentSameSymbol
      <4> QED  BY <3>2, <3>3, <4>1, <4>3
    <3> QED  BY <3>1, <3>2, <3>3
  <2> QED  BY <2>1, <2>6, <2>8
<1> QED  BY <1>1, <1>2, <1>3, PTL DEF Spec

---------------------------------------------------------------------------
(* What is applied is what was shown. *)

\* The cut of the weight of x to one half is small enough and stands on folds
\* that chose it and on a final window that held enough trades.
Evidenced(r, x, maxCut) ==
  /\ 100 * (r.cfg.weight[x] - 50) <= maxCut * r.cfg.weight[x]
  /\ ~(r.outOfSample.trades < MinOutOfSampleTrades)
  /\ Cardinality(ChosenFolds(r, <<"halve", x>>)) >= MinWalkForwardFolds

\* A configuration that differs from the report's in evidenced weights only.
Cut(c, r, maxCut) ==
  /\ {"enabled", "weight"} \subseteq DOMAIN c
  /\ c.enabled = r.cfg.enabled /\ DOMAIN c.weight = DOMAIN r.cfg.weight
  /\ \A x \in DOMAIN r.cfg.weight :
       c.weight[x] = r.cfg.weight[x] \/ (c.weight[x] = 50 /\ Evidenced(r, x, maxCut))

\* A configuration that names its strategies, with weights that are not negative.
Weighted(cfg) ==
  /\ {"enabled", "weight"} \subseteq DOMAIN cfg
  /\ \A x \in DOMAIN cfg.weight : cfg.weight[x] \in Nat

\* A report whose findings are a list.
Listed(r) == \E n \in Nat : DOMAIN r.correlation.findings = 1 .. n

\* What a recommendation to cut a weight says, and of which strategy.
LEMMA CutRecommended ==
  ASSUME NEW r, NEW finding, NEW rec, rec = Recommend(r, finding),
         rec.action = "CONSIDER_DOWN_WEIGHT", ~rec.blocked
  PROVE  \E x : /\ rec.strategy = {x} /\ rec.weight = {50}
                /\ ~(r.outOfSample.trades < MinOutOfSampleTrades)
                /\ Cardinality(ChosenFolds(r, <<"halve", x>>)) >= MinWalkForwardFolds
<1> DEFINE counts == r.correlation.counts
           target == Target(finding, counts)
           folds == ChosenFolds(r, <<"halve", target>>)
           thin == r.outOfSample.trades < MinOutOfSampleTrades
           silent == counts[finding[1]] + counts[finding[2]] = 0
<1>2. /\ rec = Recommendation("CONSIDER_DOWN_WEIGHT", "WALK_FORWARD", {target}, {50}, thin)
      /\ Cardinality(folds) >= MinWalkForwardFolds
  <2> DEFINE none == Recommendation("INSUFFICIENT_EVIDENCE", "NONE", {}, {}, TRUE)
             held == Recommendation("NO_ACTION", "WALK_FORWARD", {target}, {}, TRUE)
             cut  == Recommendation("CONSIDER_DOWN_WEIGHT", "WALK_FORWARD", {target}, {50}, thin)
             seen == Recommendation("NO_ACTION", "VALIDATION_WINDOW", {target}, {}, TRUE)
             weak == Recommendation("INSUFFICIENT_EVIDENCE", "NONE", {target}, {}, TRUE)
             enough == folds # {} /\ Cardinality(folds) >= MinWalkForwardFolds
  <2>0. /\ none.action # "CONSIDER_DOWN_WEIGHT" /\ held.action # "CONSIDER_DOWN_WEIGHT"
        /\ seen.action # "CONSIDER_DOWN_WEIGHT" /\ weak.action # "CONSIDER_DOWN_WEIGHT"
    BY DEF Recommendation
  <2>1. CASE silent
    <3>1. rec = none
      BY <2>1 DEF Recommend
    <3> QED  BY <2>0, <3>1
  <2>2. CASE ~silent /\ enough
    <3>1. rec = cut \/ rec = held
      BY <2>2 DEF Recommend
    <3>2. rec # held
      BY <2>0
    <3> QED  BY <2>2, <3>1, <3>2
  <2>3. CASE ~silent /\ ~enough
    <3>1. rec = seen \/ rec = weak
      BY <2>3 DEF Recommend
    <3> QED  BY <2>0, <3>1
  <2> QED  BY <2>1, <2>2, <2>3
<1>3. rec.strategy = {target} /\ rec.weight = {50} /\ rec.blocked = thin
  BY <1>2 DEF Recommendation
<1> QED  BY <1>2, <1>3

\* Applying one recommendation of a report keeps the configuration a cut of it.
LEMMA OneAppliedIsCut ==
  ASSUME NEW r, NEW finding, NEW minTier, NEW maxCut \in {25, 50}, NEW state, Weighted(r.cfg),
         "cfg" \in DOMAIN state, Cut(state.cfg, r, maxCut)
  PROVE  LET next == ApplyOne(state, Recommend(r, finding), minTier, maxCut)
         IN  "cfg" \in DOMAIN next /\ Cut(next.cfg, r, maxCut)
<1>1. PICK rec : rec = Recommend(r, finding)
  OBVIOUS
<1> DEFINE next == ApplyOne(state, rec, minTier, maxCut)
           refused == [state EXCEPT !.refusals = @ + 1]
           s == CHOOSE x \in rec.strategy : TRUE
           weight == CHOOSE x \in rec.weight : TRUE
           current == state.cfg.weight[s]
           tooDeep == IF current = 0 THEN 100 > maxCut ELSE 100 * (current - weight) > maxCut * current
           taken == rec.action = "CONSIDER_DOWN_WEIGHT" /\ IsApplicable(rec, minTier)
                    /\ ~(weight <= 0 \/ tooDeep)
<1>2. CASE ~taken
  <2>1. next = state \/ next = refused
    BY <1>2 DEF ApplyOne
  <2>2. DOMAIN refused = DOMAIN state /\ refused.cfg = state.cfg
    OBVIOUS
  <2> HIDE DEF next, refused
  <2> QED  BY <1>1, <2>1, <2>2 DEF next
<1>3. CASE taken
  <2>1. next = [state EXCEPT !.cfg.weight[s] = weight, !.applied = Append(@, s)]
    BY <1>3 DEF ApplyOne
  <2>2. PICK x : /\ rec.strategy = {x} /\ rec.weight = {50}
                 /\ ~(r.outOfSample.trades < MinOutOfSampleTrades)
                 /\ Cardinality(ChosenFolds(r, <<"halve", x>>)) >= MinWalkForwardFolds
    <3>1. rec.action = "CONSIDER_DOWN_WEIGHT" /\ ~rec.blocked
      BY <1>3 DEF IsApplicable
    <3> QED  BY ONLY <1>1, <3>1, CutRecommended
  <2>3. s = x /\ weight = 50
    BY <2>2
  <2>4. ~tooDeep
    BY <1>3
  <2> DEFINE cut == [state.cfg EXCEPT !.weight = [state.cfg.weight EXCEPT ![x] = 50]]
  <2>5. "cfg" \in DOMAIN next /\ next.cfg = cut
    <3> DEFINE after == [state EXCEPT !.cfg = cut]
    <3>1. next = [after EXCEPT !.applied = Append(after.applied, x)]
      BY <2>1, <2>3
    <3>2. "cfg" \in DOMAIN after /\ after.cfg = cut
      OBVIOUS
    <3> HIDE DEF after, next
    <3> QED  BY <3>1, <3>2
  <2>6. {"enabled", "weight"} \subseteq DOMAIN cut /\ cut.enabled = state.cfg.enabled
        /\ cut.weight = [state.cfg.weight EXCEPT ![x] = 50]
    BY DEF Cut
  <2> HIDE DEF cut
  <2>7. /\ DOMAIN cut.weight = DOMAIN state.cfg.weight
        /\ \A y \in DOMAIN state.cfg.weight :
             cut.weight[y] = IF y = x THEN 50 ELSE state.cfg.weight[y]
    BY <2>6
  <2>8. ASSUME NEW y \in DOMAIN r.cfg.weight
        PROVE  cut.weight[y] = r.cfg.weight[y] \/ (cut.weight[y] = 50 /\ Evidenced(r, y, maxCut))
    <3>1. y \in DOMAIN state.cfg.weight
      BY DEF Cut
    <3>2. CASE y # x
      <4>1. cut.weight[y] = state.cfg.weight[y]
        BY <2>7, <3>1, <3>2
      <4> QED  BY <4>1 DEF Cut
    <3>3. CASE y = x /\ state.cfg.weight[x] # r.cfg.weight[x]
      BY <2>7, <3>1, <3>3 DEF Cut
    <3>4. CASE y = x /\ state.cfg.weight[x] = r.cfg.weight[x]
      <4>1. cut.weight[y] = 50
        BY <2>7, <3>1, <3>4
      <4>2. PICK w \in Nat : w = r.cfg.weight[x]
        BY <3>4 DEF Weighted
      <4>3. ~(IF w = 0 THEN 100 > maxCut ELSE 100 * (w - 50) > maxCut * w)
        BY <2>3, <2>4, <3>4, <4>2
      <4>4. 100 * (w - 50) <= maxCut * w
        <5>1. CASE maxCut = 25
          BY <4>3, <5>1
        <5>2. CASE maxCut = 50
          BY <4>3, <5>2
        <5> QED  BY <5>1, <5>2
      <4> QED  BY <2>2, <3>4, <4>1, <4>2, <4>4 DEF Evidenced
    <3> QED  BY <3>2, <3>3, <3>4
  <2>9. cut.enabled = r.cfg.enabled /\ DOMAIN cut.weight = DOMAIN r.cfg.weight
    BY <2>6, <2>7 DEF Cut
  <2>10. Cut(next.cfg, r, maxCut)
    <3> HIDE DEF next
    <3> QED  BY <2>5, <2>6, <2>8, <2>9 DEF Cut
  <2> HIDE DEF next
  <2> QED  BY <1>1, <2>5, <2>10 DEF next
<1> QED  BY <1>2, <1>3

\* One step of the pass over the recommendations, from the steps before it.
AppliedAt(f, i, cfg, recs, minTier, maxCut) ==
  IF i = 0 THEN [cfg |-> cfg, refusals |-> 0, applied |-> <<>>]
  ELSE ApplyOne(f[i - 1], recs[i], minTier, maxCut)

AppliedUpTo(f, n, cfg, recs, minTier, maxCut) ==
  f = [i \in 0 .. n |-> AppliedAt(f, i, cfg, recs, minTier, maxCut)]

\* The function the pass is defined by exists.
LEMMA AppliedExists ==
  ASSUME NEW cfg, NEW recs, NEW minTier, NEW maxCut, NEW n \in Nat
  PROVE  \E f : AppliedUpTo(f, n, cfg, recs, minTier, maxCut)
<1> DEFINE T == {m \in Nat : ~ \E f : AppliedUpTo(f, m, cfg, recs, minTier, maxCut)}
<1>1. ASSUME NEW m \in T, \A k \in T : m <= k PROVE FALSE
  <2>1. CASE m = 0
    <3> DEFINE f == [i \in 0 .. 0 |-> [cfg |-> cfg, refusals |-> 0, applied |-> <<>>]]
    <3>1. AppliedUpTo(f, 0, cfg, recs, minTier, maxCut)
      BY DEF AppliedUpTo, AppliedAt
    <3> HIDE DEF f
    <3> QED  BY <2>1, <3>1
  <2>2. CASE m # 0
    <3>1. m - 1 \in Nat /\ m \in Nat /\ m - 1 \notin T
      BY <1>1, <2>2
    <3>2. PICK f : AppliedUpTo(f, m - 1, cfg, recs, minTier, maxCut)
      BY <3>1
    <3> DEFINE g == [i \in 0 .. m |-> IF i = m THEN AppliedAt(f, m, cfg, recs, minTier, maxCut) ELSE f[i]]
    <3>3. \A i \in 0 .. m - 1 : g[i] = f[i]
      BY <3>1
    <3>4. ASSUME NEW i \in 0 .. m PROVE g[i] = AppliedAt(g, i, cfg, recs, minTier, maxCut)
      <4>1. CASE i = 0
        <5>1. g[i] = AppliedAt(f, i, cfg, recs, minTier, maxCut)
          BY <2>2, <3>1, <3>2, <3>3, <4>1 DEF AppliedUpTo
        <5> QED  BY <4>1, <5>1 DEF AppliedAt
      <4>2. CASE i # 0
        <5>1. i - 1 \in 0 .. m - 1 /\ (i # m => i \in 0 .. m - 1)
          BY <3>1, <4>2
        <5>2. g[i] = AppliedAt(f, i, cfg, recs, minTier, maxCut)
          <6>1. CASE i = m
            BY <6>1
          <6>2. CASE i # m
            BY <3>2, <3>3, <5>1, <6>2 DEF AppliedUpTo
          <6> QED  BY <6>1, <6>2
        <5>3. g[i - 1] = f[i - 1]
          BY <3>3, <5>1
        <5> HIDE DEF g
        <5> QED  BY <4>2, <5>2, <5>3 DEF AppliedAt
      <4> QED  BY <4>1, <4>2
    <3>5. g = [i \in 0 .. m |-> g[i]]
      OBVIOUS
    <3> HIDE DEF g
    <3>6. AppliedUpTo(g, m, cfg, recs, minTier, maxCut)
      BY <3>4, <3>5 DEF AppliedUpTo
    <3> QED  BY <3>1, <3>6
  <2> QED  BY <2>1, <2>2
<1>2. T = {}
  <2>1. T \in SUBSET Nat
    OBVIOUS
  <2> HIDE DEF T
  <2> QED  BY <1>1, <2>1, LeastNumber
<1> QED  BY <1>2

\* The whole pass, over the recommendations of a report for its own configuration.
LEMMA AppliedIsCut ==
  ASSUME NEW r, NEW minTier, NEW maxCut \in {25, 50}, NEW enabled, NEW strict,
         Weighted(r.cfg), Listed(r), NEW recs, recs = BuildRecommendations(r),
         NEW c, c \in ApplyRecommendations(r.cfg, recs, enabled, minTier, maxCut, strict)
  PROVE  Cut(c, r, maxCut)
<1>1. Cut(r.cfg, r, maxCut)
  BY DEF Cut, Weighted
<1>0. PICK n \in Nat : DOMAIN r.correlation.findings = 1 .. n
  BY DEF Listed
<1>2. /\ DOMAIN recs = 1 .. n
      /\ \A i \in 1 .. n : recs[i] = Recommend(r, r.correlation.findings[i])
  BY <1>0 DEF BuildRecommendations
<1>3. recs \in Seq({recs[i] : i \in 1 .. n}) /\ Len(recs) = n
  <2>1. recs = [i \in 1 .. n |-> recs[i]]
    BY <1>2 DEF BuildRecommendations
  <2> QED  BY <2>1
<1> DEFINE after == CHOOSE f : f = [i \in 0 .. Len(recs) |->
                       IF i = 0 THEN [cfg |-> r.cfg, refusals |-> 0, applied |-> <<>>]
                       ELSE ApplyOne(f[i - 1], recs[i], minTier, maxCut)]
<1>4. AppliedUpTo(after, n, r.cfg, recs, minTier, maxCut)
  <2>1. \E f : AppliedUpTo(f, n, r.cfg, recs, minTier, maxCut)
    BY AppliedExists
  <2>2. \E f : f = [i \in 0 .. Len(recs) |->
                       IF i = 0 THEN [cfg |-> r.cfg, refusals |-> 0, applied |-> <<>>]
                       ELSE ApplyOne(f[i - 1], recs[i], minTier, maxCut)]
    BY <1>3, <2>1 DEF AppliedUpTo, AppliedAt
  <2>3. after = [i \in 0 .. Len(recs) |->
                       IF i = 0 THEN [cfg |-> r.cfg, refusals |-> 0, applied |-> <<>>]
                       ELSE ApplyOne(after[i - 1], recs[i], minTier, maxCut)]
    BY <2>2
  <2> HIDE DEF after
  <2> QED  BY <1>3, <2>3 DEF AppliedUpTo, AppliedAt
<1>5. c = r.cfg \/ c = after[n].cfg
  BY <1>3 DEF ApplyRecommendations
<1> HIDE DEF after
<1> DEFINE Kept(i) == "cfg" \in DOMAIN after[i] /\ Cut(after[i].cfg, r, maxCut)
           T == {i \in Nat : i <= n /\ ~Kept(i)}
<1>7. ASSUME NEW m \in T, \A k \in T : m <= k PROVE FALSE
  <2>1. m \in 0 .. n
    OBVIOUS
  <2>2. after[m] = AppliedAt(after, m, r.cfg, recs, minTier, maxCut)
    BY <1>4, <2>1 DEF AppliedUpTo
  <2>3. CASE m = 0
    <3>1. after[m] = [cfg |-> r.cfg, refusals |-> 0, applied |-> <<>>]
      BY <2>2, <2>3 DEF AppliedAt
    <3>2. Kept(m)
      BY <1>1, <3>1
    <3> QED  BY <3>2
  <2>4. CASE m # 0
    <3>1. m - 1 \in Nat /\ m - 1 <= n /\ m \in 1 .. n
      BY <2>1, <2>4
    <3>2. Kept(m - 1)
      <4>1. m - 1 \notin T
        BY <1>7, <3>1
      <4> QED  BY <3>1, <4>1
    <3>3. after[m] = ApplyOne(after[m - 1], Recommend(r, r.correlation.findings[m]), minTier, maxCut)
      BY <1>2, <2>2, <2>4, <3>1 DEF AppliedAt
    <3>4. PICK before : before = after[m - 1]
      OBVIOUS
    <3>5. "cfg" \in DOMAIN before /\ Cut(before.cfg, r, maxCut)
      BY <3>2, <3>4
    <3>6. after[m] = ApplyOne(before, Recommend(r, r.correlation.findings[m]), minTier, maxCut)
      BY <3>3, <3>4
    <3>7. Kept(m)
      BY <3>5, <3>6, OneAppliedIsCut
    <3> QED  BY <3>7
  <2> QED  BY <2>3, <2>4
<1>8. T = {}
  <2>1. T \in SUBSET Nat
    OBVIOUS
  <2> HIDE DEF T
  <2> QED  BY <1>7, <2>1, LeastNumber
<1>9. Kept(n)
  BY <1>8
<1> QED  BY <1>1, <1>5, <1>9

\* The findings of a correlation study are a list.
LEMMA FindingsAreListed ==
  ASSUME NEW baseline, NEW isolated, NEW percent
  PROVE  \E n \in Nat : DOMAIN AnalyseCorrelations(baseline, isolated, percent).findings = 1 .. n
<1> DEFINE observations == IF DOMAIN isolated # {}
                           THEN Max({Len(isolated[s].equity) : s \in DOMAIN isolated})
                           ELSE Len(baseline.equity)
           pairs == {p \in (1 .. Len(Roster)) \X (1 .. Len(Roster)) : p[1] < p[2]}
           alike(p) == \/ RedundantReturns(isolated, Roster[p[1]], Roster[p[2]], percent)
                       \/ RedundantSignals(baseline.signals, Roster[p[1]], Roster[p[2]], percent)
           counts == [s \in {Roster[i] : i \in DOMAIN Roster} |->
                        IF s \in DOMAIN isolated THEN isolated[s].trades ELSE 0]
           flagged == IF (baseline.trades = 0 /\ DOMAIN isolated = {}) \/ observations < MinObservations
                      THEN {} ELSE {p \in pairs : alike(p)}
           ordered == SetToSortSeq(flagged, LAMBDA p, q : p[1] < q[1] \/ (p[1] = q[1] /\ p[2] < q[2]))
           findings == [i \in 1 .. Cardinality(flagged) |-> <<Roster[ordered[i][1]], Roster[ordered[i][2]]>>]
<1>1. AnalyseCorrelations(baseline, isolated, percent) = [counts |-> counts, findings |-> findings]
  BY DEF AnalyseCorrelations
<1>2. flagged \subseteq (1 .. Len(Roster)) \X (1 .. Len(Roster))
  <2> HIDE DEF alike, observations
  <2> QED  OBVIOUS
<1> HIDE DEF counts, ordered, flagged
<1>3. DOMAIN findings = 1 .. Cardinality(flagged)
  OBVIOUS
<1> HIDE DEF findings
<1>4. Cardinality(flagged) \in Nat
  <2>1. Len(Roster) \in Nat
    OBVIOUS
  <2>2. IsFiniteSet(1 .. Len(Roster))
    BY <2>1, FS_Interval
  <2>3. IsFiniteSet((1 .. Len(Roster)) \X (1 .. Len(Roster)))
    BY <2>2, FS_Product
  <2> QED  BY <1>2, <2>3, FS_Subset, FS_CardinalityType
<1>5. AnalyseCorrelations(baseline, isolated, percent).findings = findings
  BY <1>1
<1> QED  BY <1>3, <1>4, <1>5

\* What is added to a report once it is concluded is not what recommendations
\* are built from.
LEMMA ConcludedRecommendations ==
  ASSUME Shape, NEW s \in Sessions, Conclude(s), NEW total
  PROVE  Concluded(s, total).recommendations = BuildRecommendations(Concluded(s, total))
<1> DEFINE r == ReportOf(s)
           degraded == {w \in {r.inSample, r.validation, r.outOfSample} : Degraded(w)}
           found == Assess(total, r.inSample, r.outOfSample, r.walkForward,
                           FragileParameters(r.sweeps, r.cfg), degraded)
           assessed == [r EXCEPT !.trials = total, !.findings = found]
           verdict == Verdict(assessed)
           recs == BuildRecommendations(assessed)
           done == [assessed EXCEPT !.verdict = verdict, !.recommendations = recs]
<1>1. Has(r, ReportFields)
  BY InAStudy DEF Conclude, IsJob, Written, ReportOf
<1>2. Concluded(s, total) = done
  BY DEF Concluded
<1> HIDE DEF r, found
<1>3. Has(assessed, ReportFields)
  BY <1>1 DEF Has, ReportFields
<1> HIDE DEF assessed, verdict, recs
<1>4. /\ done.recommendations = recs
      /\ done.correlation = assessed.correlation /\ done.outOfSample = assessed.outOfSample
      /\ done.compared = assessed.compared /\ done.walkForward = assessed.walkForward
  BY <1>3 DEF Has, ReportFields
<1> HIDE DEF done
<1>5. \A name : ChosenFolds(done, name) = ChosenFolds(assessed, name)
  BY <1>4 DEF ChosenFolds
<1>6. \A folds : Improved(done, folds) <=> Improved(assessed, folds)
  BY <1>5 DEF Improved
<1>7. \A finding : Recommend(done, finding) = Recommend(assessed, finding)
  BY <1>4, <1>5, <1>6 DEF Recommend
<1>8. BuildRecommendations(done) = BuildRecommendations(assessed)
  BY <1>4, <1>7 DEF BuildRecommendations
<1> QED  BY <1>2, <1>4, <1>8 DEF recs

\* What a report is of, and what it recommends, are its own.
RecommendedOK(s) ==
  /\ run[s].pc \notin Written \cup {"idle"} =>
       /\ run[s].report.cfg = run[s].plan.cfg
       /\ Listed(run[s].report)
  /\ run[s].pc = "save" => run[s].report.recommendations = BuildRecommendations(run[s].report)

\* One step of its session leaves it so.
LEMMA RecommendedStep ==
  ASSUME Shape, NEW s \in Sessions, StepOf(s), RecommendedOK(s)
  PROVE  RecommendedOK(s)'
<1>1. CASE Begins(s)
  <2>1. run'[s].report = NewReport(run'[s].plan) /\ run'[s].pc = "register"
    BY <1>1 DEF Begins
  <2>2. \A plan : NewReport(plan).cfg = plan.cfg /\ NewReport(plan).correlation.findings = <<>>
    BY DEF NewReport
  <2>3. DOMAIN <<>> = 1 .. 0 /\ 0 \in Nat
    OBVIOUS
  <2> QED  BY <2>1, <2>2, <2>3 DEF RecommendedOK, Listed
<1>2. CASE Ends(s)
  BY <1>2 DEF Ends, Idle, RecommendedOK
<1>3. CASE run' = run
  BY <1>3 DEF RecommendedOK
<1>4. CASE Goes(s)
  <2>0. <<run[s].pc, run'[s].pc>> \in Transitions /\ run'[s].plan = run[s].plan
    BY <1>4 DEF Goes
  <2>1. CASE run[s].pc \in {"save"} \cup Written
    <3>1. run'[s].pc \in Written
      BY <2>0, <2>1 DEF Transitions, Written
    <3> QED  BY <3>1 DEF RecommendedOK, Written
  <2>2. CASE run[s].pc \notin {"save"} \cup Written
    <3>0. run[s].pc # "idle"
      BY <1>4 DEF Goes, IsJob, Stages, Written
    <3>1. run'[s].report.cfg = run[s].report.cfg
      BY <1>4, <2>2, FindingsKnown DEF Goes
    <3>2. run[s].pc # "stress" => run'[s].report.correlation = run[s].report.correlation
      BY <1>4, <2>2, FindingsKnown DEF Goes
    <3>3. run[s].pc = "stress" => run'[s].report.correlation = CorrelationOf(s)
      BY <1>4, ActionAt, StressMoves
    <3>4. Listed(run'[s].report)
      <4>1. CASE run[s].pc = "stress"
        BY <3>3, <4>1, FindingsAreListed DEF CorrelationOf, Listed
      <4>2. CASE run[s].pc # "stress"
        BY <2>2, <3>0, <3>2, <4>2 DEF RecommendedOK, Listed
      <4> QED  BY <4>1, <4>2
    <3>5. run'[s].pc = "save" => run'[s].report.recommendations = BuildRecommendations(run'[s].report)
      <4> SUFFICES ASSUME run'[s].pc = "save"
                   PROVE  run'[s].report.recommendations = BuildRecommendations(run'[s].report)
        OBVIOUS
      <4>1. run[s].pc = "assess"
        BY <2>0 DEF Transitions
      <4>2. Conclude(s)
        BY <1>4, <4>1, ActionAt
      <4>3. PICK total : run'[s].report = Concluded(s, total)
        BY <4>2, ConcludeMoves
      <4> QED  BY <4>2, <4>3, ConcludedRecommendations
    <3>6. run'[s].report.cfg = run'[s].plan.cfg
      BY <2>0, <2>2, <3>0, <3>1 DEF RecommendedOK
    <3> QED  BY <3>4, <3>5, <3>6 DEF RecommendedOK
  <2> QED  BY <2>1, <2>2
<1> QED  BY <1>1, <1>2, <1>3, <1>4, StepGoes

\* Whatever gate, tier and strictness it is applied with, a finished report
\* moves the weight of a strategy only if enough folds chose to, on their own
\* test bars, and the final window held enough trades; it never cuts deeper than
\* allowed, disables nothing, and a closed gate changes nothing.
THEOREM AppliedIsAlwaysEvidenced == Spec => []AppliedIsEvidenced
<1> DEFINE RInv == Shape /\ \A s \in Sessions : RecommendedOK(s)
<1>1. Init => RInv
  <2> SUFFICES ASSUME Init PROVE RInv
    OBVIOUS
  <2>1. Shape
    BY InitIndInv DEF IndInv
  <2>2. \A s \in Sessions : run[s].pc = "idle"
    BY DEF Init, Idle
  <2> QED  BY <2>1, <2>2 DEF RecommendedOK
<1>2. RInv /\ [Next]_vars => RInv'
  <2> SUFFICES ASSUME RInv, [Next]_vars PROVE RInv'
    OBVIOUS
  <2>1. CASE UNCHANGED vars
    BY <2>1 DEF vars, Shape, RecommendedOK
  <2>2. CASE Next
    <3>1. PICK s \in Sessions : StepOf(s)
      BY <2>2 DEF Next, StepOf
    <3>2. Shape' /\ RecommendedOK(s)' /\ \A u \in Sessions \ {s} : run'[u] = run[u]
      BY <3>1, StepGoes, RecommendedStep DEF Begins, Goes, Ends, Others
    <3>3. \A u \in Sessions \ {s} : RecommendedOK(u)'
      BY <3>2 DEF RecommendedOK
    <3> QED  BY <3>2, <3>3
  <2> QED  BY <2>1, <2>2
<1>3. RInv => AppliedIsEvidenced
  <2> SUFFICES ASSUME RInv, NEW s \in Sessions, run[s].pc = "save",
                      NEW enabled \in BOOLEAN, NEW strict \in BOOLEAN, NEW maxCut \in {25, 50},
                      NEW tier \in {"VALIDATION_WINDOW", "WALK_FORWARD"},
                      NEW c \in ApplyRecommendations(ReportOf(s).cfg, ReportOf(s).recommendations,
                                                     enabled, tier, maxCut, strict)
               PROVE  LET r == ReportOf(s)
                      IN  /\ c.enabled = r.cfg.enabled
                          /\ \A x \in DOMAIN c.weight : c.weight[x] # r.cfg.weight[x] =>
                               /\ enabled
                               /\ 100 * (r.cfg.weight[x] - c.weight[x]) <= maxCut * r.cfg.weight[x]
                               /\ ~(r.outOfSample.trades < MinOutOfSampleTrades)
                               /\ Cardinality(ChosenFolds(r, <<"halve", x>>)) >= MinWalkForwardFolds
    BY DEF AppliedIsEvidenced
  <2>1. PICK r : r = ReportOf(s)
    OBVIOUS
  <2>2. /\ r.cfg = run[s].plan.cfg /\ run[s].plan \in Plans
        /\ r.recommendations = BuildRecommendations(r)
    BY <2>1, InAStudy DEF RecommendedOK, Written, ReportOf, IsJob
  <2>3. Listed(r) /\ Weighted(r.cfg)
    BY <2>1, <2>2, PlanAssumption DEF RecommendedOK, Written, ReportOf, Listed, Weighted
  <2>4. PICK recs : recs = r.recommendations /\ recs = BuildRecommendations(r)
    BY <2>2
  <2>5. c \in ApplyRecommendations(r.cfg, recs, enabled, tier, maxCut, strict)
    BY <2>1, <2>4
  <2>6. Cut(c, r, maxCut)
    BY <2>3, <2>4, <2>5, AppliedIsCut
  <2>7. ~enabled => c = r.cfg
    BY <2>5 DEF ApplyRecommendations
  <2> QED  BY <2>1, <2>6, <2>7 DEF Cut, Evidenced
<1> QED  BY <1>1, <1>2, <1>3, PTL DEF Spec
=============================================================================
