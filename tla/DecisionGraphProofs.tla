------------------------- MODULE DecisionGraphProofs -------------------------
(* Theorems about one decision.  First its inputs: every series computed from   *)
(* the bars up to t is the series computed from the whole frame, up to t, so    *)
(* that no feature knows the future.  Then the graph: what the order of its     *)
(* nodes and the isolation of their failures guarantee of the order it builds.  *)
(* Last its arithmetic, from the candles to the order: each feature is a number *)
(* or missing, each proposal enters at the close, a weighted mean lies within   *)
(* what it averages, a strategy of no weight drops out of every sum, and so the *)
(* size of the order keeps to the limits it was cut to.                         *)
EXTENDS DecisionGraph, Strategies, PortfolioProofs

---------------------------------------------------------------------------
(* Series *)

IsSeries(s, n) == n \in Nat /\ s \in Seq({s[i] : i \in 1 .. n}) /\ Len(s) = n

\* The series b is the series a, which has n elements, up to bar t.
Cut(b, t, a, n) ==
  /\ IsSeries(a, n) /\ IsSeries(b, t) /\ t <= n
  /\ \A i \in 1 .. t : b[i] = a[i]

LEMMA SeriesIs ==
  ASSUME NEW n \in Nat, NEW f, f = [i \in 1 .. n |-> f[i]]
  PROVE  f \o <<>> = f /\ IsSeries(f, n)
<1> DEFINE S == {f[i] : i \in 1 .. n}
<1>1. f \in Seq(S) /\ Len(f) = n
  <2>1. f \in [1 .. n -> S]
    OBVIOUS
  <2> HIDE DEF S
  <2> QED  BY <2>1
<1>2. f \o <<>> = f
  <2> HIDE DEF S
  <2> QED  BY <1>1, ConcatProperties
<1> QED  BY <1>1, <1>2 DEF IsSeries

LEMMA SeriesCut ==
  ASSUME NEW n \in Nat, NEW f, f = [i \in 1 .. n |-> f[i]],
         NEW t \in Nat, t <= n, NEW g, g = [i \in 1 .. t |-> g[i]],
         \A i \in 1 .. t : g[i] = f[i]
  PROVE  Cut(g \o <<>>, t, f \o <<>>, n)
<1>1. /\ f \o <<>> = f /\ IsSeries(f, n)
      /\ g \o <<>> = g /\ IsSeries(g, t)
  BY SeriesIs
<1> QED  BY <1>1 DEF Cut

LEMMA CutIs ==
  ASSUME NEW n, NEW t, NEW a, NEW b, Cut(b, t, a, n)
  PROVE  /\ n \in Nat /\ t \in Nat /\ t <= n /\ Len(a) = n /\ Len(b) = t
         /\ DOMAIN a = 1 .. n /\ DOMAIN b = 1 .. t
         /\ a = [i \in 1 .. n |-> a[i]] /\ b = [i \in 1 .. t |-> b[i]]
         /\ \A i \in 1 .. t : i \in 1 .. n /\ b[i] = a[i]
<1>1. /\ n \in Nat /\ t \in Nat /\ t <= n /\ Len(a) = n /\ Len(b) = t
      /\ a \in Seq({a[i] : i \in 1 .. n}) /\ b \in Seq({b[i] : i \in 1 .. t})
  BY DEF Cut, IsSeries
<1>2. /\ DOMAIN a = 1 .. n /\ DOMAIN b = 1 .. t
      /\ a = [i \in 1 .. n |-> a[i]] /\ b = [i \in 1 .. t |-> b[i]]
  BY <1>1, LenProperties
<1>3. \A i \in 1 .. t : i \in 1 .. n
  BY <1>1
<1> QED  BY <1>1, <1>2, <1>3 DEF Cut

\* A window that ends by bar t.
LEMMA WindowSame ==
  ASSUME NEW n, NEW t, NEW a, NEW b, Cut(b, t, a, n),
         NEW i \in 1 .. t, NEW k \in Nat \ {0}
  PROVE  SubSeq(b, k, i) = SubSeq(a, k, i)
<1>1. /\ i \in Nat /\ t \in Nat /\ i <= t
      /\ \A j \in 1 .. t : b[j] = a[j]
  BY CutIs
<1> DEFINE S == {a[j] : j \in k .. i}
           p == SubSeq(a, k, i)
           q == SubSeq(b, k, i)
<1>2. \A j \in k .. i : j \in 1 .. t
  BY <1>1
<1>3. /\ \A j \in k .. i : a[j] \in S /\ b[j] \in S
  BY <1>1, <1>2
<1>4. /\ p \in Seq(S) /\ Len(p) = (IF k <= i THEN i - k + 1 ELSE 0)
      /\ \A j \in 1 .. i - k + 1 : p[j] = a[k + j - 1]
  <2> HIDE DEF S
  <2> QED  BY <1>1, <1>3, SubSeqProperties
<1>5. /\ q \in Seq(S) /\ Len(q) = (IF k <= i THEN i - k + 1 ELSE 0)
      /\ \A j \in 1 .. i - k + 1 : q[j] = b[k + j - 1]
  <2> HIDE DEF S
  <2> QED  BY <1>1, <1>3, SubSeqProperties
<1> HIDE DEF S, p, q
<1>6. PICK m \in Nat : /\ p = [j \in 1 .. m |-> p[j]] /\ q = [j \in 1 .. m |-> q[j]]
                       /\ \A j \in 1 .. m : j \in 1 .. i - k + 1
  <2>1. Len(p) \in Nat /\ Len(q) = Len(p)
    BY <1>1, <1>4, <1>5
  <2>2. \A j \in 1 .. Len(p) : j \in 1 .. i - k + 1
    BY <1>1, <1>4
  <2>3. p = [j \in 1 .. Len(p) |-> p[j]] /\ q = [j \in 1 .. Len(p) |-> q[j]]
    BY <1>4, <1>5, <2>1, LenProperties
  <2> QED  BY <2>1, <2>2, <2>3
<1>7. \A j \in 1 .. m : q[j] = p[j]
  <2> SUFFICES ASSUME NEW j \in 1 .. m PROVE q[j] = p[j]
    OBVIOUS
  <2>1. j \in 1 .. i - k + 1
    BY <1>6
  <2>2. k + j - 1 \in 1 .. t
    BY <1>1, <2>1
  <2> QED  BY <1>1, <1>4, <1>5, <2>1, <2>2
<1>8. q = p
  BY <1>6, <1>7
<1> QED  BY <1>8 DEF p, q

---------------------------------------------------------------------------
(* Smoothing *)

\* One step of the recursion of ewm.
Smoothed(s, num, den, l, i) ==
  IF ~Known(s[i]) THEN NaN
  ELSE LET last == IF i = 1 THEN NaN ELSE l[i - 1]
       IN IF Known(last) THEN ((den - num) * last + num * s[i]) \div den ELSE s[i]

IsLevel(s, num, den, n, l) == l = [i \in 1 .. n |-> Smoothed(s, num, den, l, i)]

LEMMA LevelExists ==
  ASSUME NEW s, NEW num, NEW den, NEW n \in Nat
  PROVE  \E l : IsLevel(s, num, den, n, l)
<1> DEFINE T == {m \in Nat : ~ \E l : IsLevel(s, num, den, m, l)}
<1>1. 0 \notin T
  <2> DEFINE l == [i \in 1 .. 0 |-> NaN]
  <2>1. IsLevel(s, num, den, 0, l)
    BY DEF IsLevel
  <2> HIDE DEF l
  <2> QED  BY <2>1
<1>2. ASSUME NEW m \in Nat, m + 1 \in T
      PROVE  m \in T
  <2> SUFFICES ASSUME NEW l, IsLevel(s, num, den, m, l)
               PROVE  \E h : IsLevel(s, num, den, m + 1, h)
    BY <1>2
  <2> DEFINE h == [i \in 1 .. m + 1 |->
                     IF i <= m THEN l[i] ELSE Smoothed(s, num, den, l, i)]
  <2>1. ASSUME NEW i \in 1 .. m + 1
        PROVE  Smoothed(s, num, den, h, i) = Smoothed(s, num, den, l, i)
    <3>1. i = 1 \/ h[i - 1] = l[i - 1]
      OBVIOUS
    <3> HIDE DEF h
    <3> QED  BY <3>1 DEF Smoothed
  <2>2. ASSUME NEW i \in 1 .. m + 1 PROVE h[i] = Smoothed(s, num, den, l, i)
    <3>1. CASE i <= m
      <4>1. i \in 1 .. m
        BY <3>1
      <4>2. l[i] = Smoothed(s, num, den, l, i)
        BY <4>1 DEF IsLevel
      <4> QED  BY <3>1, <4>2
    <3>2. CASE ~ (i <= m)
      BY <3>2
    <3> QED  BY <3>1, <3>2
  <2>3. h = [i \in 1 .. m + 1 |-> h[i]]
    OBVIOUS
  <2> HIDE DEF h
  <2>4. IsLevel(s, num, den, m + 1, h)
    BY <2>1, <2>2, <2>3 DEF IsLevel
  <2> QED  BY <2>4
<1>3. T = {}
  <2> SUFFICES ASSUME T # {} PROVE FALSE
    OBVIOUS
  <2>0. T \in SUBSET Nat
    OBVIOUS
  <2> HIDE DEF T
  <2>1. PICK m \in T : \A k \in T : m <= k
    BY <2>0, LeastNumber
  <2>2. m # 0 /\ m \in Nat
    BY <1>1, <2>0
  <2>3. m - 1 \in Nat /\ m - 1 + 1 \in T
    BY <2>2
  <2>4. m - 1 \in T
    BY <2>3, <1>2
  <2> QED  BY <2>1, <2>2, <2>4
<1> QED  BY <1>3

\* A series that is known up to t is smoothed up to t.
LEMMA LevelSame ==
  ASSUME NEW n, NEW t, NEW a, NEW b, Cut(b, t, a, n), NEW num, NEW den,
         NEW l, IsLevel(a, num, den, n, l), NEW m, IsLevel(b, num, den, t, m)
  PROVE  \A i \in 1 .. t : m[i] = l[i]
<1> DEFINE T == {i \in Nat : i \in 1 .. t /\ m[i] # l[i]}
<1>1. n \in Nat /\ t \in Nat /\ \A i \in 1 .. t : i \in 1 .. n /\ b[i] = a[i]
  BY CutIs
<1>2. SUFFICES ASSUME T # {} PROVE FALSE
  BY <1>1
<1>3. PICK i \in T : \A k \in T : i <= k
  <2>1. T \in SUBSET Nat
    OBVIOUS
  <2> HIDE DEF T
  <2> QED  BY <2>1, <1>2, LeastNumber
<1>4. i \in 1 .. t /\ i \in 1 .. n /\ b[i] = a[i] /\ m[i] # l[i]
  BY <1>1, <1>3
<1>5. i = 1 \/ m[i - 1] = l[i - 1]
  <2> SUFFICES ASSUME i # 1 PROVE m[i - 1] = l[i - 1]
    OBVIOUS
  <2>1. i - 1 \in 1 .. t /\ ~ (i <= i - 1) /\ i - 1 \in Nat
    BY <1>1, <1>4
  <2>2. i - 1 \notin T
    BY <1>3, <2>1
  <2> QED  BY <2>1, <2>2
<1>6. m[i] = Smoothed(b, num, den, m, i) /\ l[i] = Smoothed(a, num, den, l, i)
  BY <1>4 DEF IsLevel
<1>7. Smoothed(b, num, den, m, i) = Smoothed(a, num, den, l, i)
  BY <1>4, <1>5 DEF Smoothed
<1> QED  BY <1>4, <1>6, <1>7

Levelled(s, least, l, i) ==
  IF Cardinality({j \in 1 .. i : Known(s[j])}) >= least THEN l[i] ELSE NaN

LEMMA SmoothIs ==
  ASSUME NEW s, Len(s) \in Nat, NEW num, NEW den, NEW least
  PROVE  \E l : /\ IsLevel(s, num, den, Len(s), l)
                /\ Smooth(s, num, den, least) = [i \in 1 .. Len(s) |-> Levelled(s, least, l, i)] \o <<>>
<1> DEFINE body(g) == [i \in 1 .. Len(s) |->
                         IF ~Known(s[i]) THEN NaN
                         ELSE LET last == IF i = 1 THEN NaN ELSE g[i - 1]
                              IN IF Known(last) THEN ((den - num) * last + num * s[i]) \div den
                                 ELSE s[i]]
           level == CHOOSE g : g = body(g)
<1>1. \E g : g = body(g)
  <2>1. PICK l : IsLevel(s, num, den, Len(s), l)
    BY LevelExists
  <2>2. l = body(l)
    BY <2>1 DEF IsLevel, Smoothed
  <2> HIDE DEF body
  <2> QED  BY <2>2
<1>2. level = body(level)
  <2> HIDE DEF body
  <2> QED  BY <1>1
<1>3. Smooth(s, num, den, least) = [i \in 1 .. Len(s) |-> Levelled(s, least, level, i)] \o <<>>
  BY DEF Smooth, Series, Levelled
<1>4. IsLevel(s, num, den, Len(s), level)
  <2> HIDE DEF level
  <2> QED  BY <1>2 DEF IsLevel, Smoothed
<1> HIDE DEF level
<1> QED  BY <1>3, <1>4

LEMMA SmoothCut ==
  ASSUME NEW n, NEW t, NEW a, NEW b, Cut(b, t, a, n), NEW num, NEW den, NEW least
  PROVE  Cut(Smooth(b, num, den, least), t, Smooth(a, num, den, least), n)
<1>1. /\ n \in Nat /\ t \in Nat /\ t <= n /\ Len(a) = n /\ Len(b) = t
      /\ \A i \in 1 .. t : b[i] = a[i]
  BY CutIs
<1>2. PICK l : /\ IsLevel(a, num, den, n, l)
               /\ Smooth(a, num, den, least) = [i \in 1 .. n |-> Levelled(a, least, l, i)] \o <<>>
  <2>1. PICK c : /\ IsLevel(a, num, den, Len(a), c)
                 /\ Smooth(a, num, den, least) = [i \in 1 .. Len(a) |-> Levelled(a, least, c, i)] \o <<>>
    <3>1. Len(a) \in Nat
      BY <1>1
    <3> QED  BY <3>1, SmoothIs, Zenon
  <2> QED  BY <1>1, <2>1
<1>3. PICK m : /\ IsLevel(b, num, den, t, m)
               /\ Smooth(b, num, den, least) = [i \in 1 .. t |-> Levelled(b, least, m, i)] \o <<>>
  <2>1. PICK c : /\ IsLevel(b, num, den, Len(b), c)
                 /\ Smooth(b, num, den, least) = [i \in 1 .. Len(b) |-> Levelled(b, least, c, i)] \o <<>>
    <3>1. Len(b) \in Nat
      BY <1>1
    <3> QED  BY <3>1, SmoothIs, Zenon
  <2> QED  BY <1>1, <2>1
<1>4. ASSUME NEW i \in 1 .. t PROVE Levelled(b, least, m, i) = Levelled(a, least, l, i)
  <2>1. {j \in 1 .. i : Known(b[j])} = {j \in 1 .. i : Known(a[j])}
    BY <1>1
  <2>2. m[i] = l[i]
    BY <1>2, <1>3, LevelSame
  <2> QED  BY <2>1, <2>2 DEF Levelled
<1> DEFINE f == [i \in 1 .. n |-> Levelled(a, least, l, i)]
           g == [i \in 1 .. t |-> Levelled(b, least, m, i)]
<1>5. \A i \in 1 .. t : g[i] = f[i]
  BY <1>1, <1>4
<1>6. f = [i \in 1 .. n |-> f[i]] /\ g = [i \in 1 .. t |-> g[i]]
  OBVIOUS
<1> HIDE DEF f, g
<1>7. Cut(g \o <<>>, t, f \o <<>>, n)
  BY <1>1, <1>5, <1>6, SeriesCut
<1> QED  BY <1>2, <1>3, <1>7 DEF f, g

---------------------------------------------------------------------------
(* One bar at a time *)

LEMMA CloseCut ==
  ASSUME NEW n, NEW t, NEW a, NEW b, Cut(b, t, a, n)
  PROVE  Cut(Close(b), t, Close(a), n)
<1>1. /\ n \in Nat /\ t \in Nat /\ t <= n /\ Len(a) = n /\ Len(b) = t
      /\ \A i \in 1 .. t : i \in 1 .. n /\ b[i] = a[i]
  BY CutIs
<1> DEFINE f == [i \in 1 .. n |-> a[i].close]
           g == [i \in 1 .. t |-> b[i].close]
<1>2. Close(a) = f \o <<>> /\ Close(b) = g \o <<>>
  BY <1>1 DEF Close, Column, Series
<1>3. /\ f = [i \in 1 .. n |-> f[i]] /\ g = [i \in 1 .. t |-> g[i]]
      /\ \A i \in 1 .. t : g[i] = f[i]
  BY <1>1
<1> HIDE DEF f, g
<1>4. Cut(g \o <<>>, t, f \o <<>>, n)
  BY <1>1, <1>3, SeriesCut
<1> QED  BY <1>2, <1>4

LEMMA HighCut ==
  ASSUME NEW n, NEW t, NEW a, NEW b, Cut(b, t, a, n)
  PROVE  Cut(High(b), t, High(a), n)
<1>1. /\ n \in Nat /\ t \in Nat /\ t <= n /\ Len(a) = n /\ Len(b) = t
      /\ \A i \in 1 .. t : i \in 1 .. n /\ b[i] = a[i]
  BY CutIs
<1> DEFINE f == [i \in 1 .. n |-> a[i].high]
           g == [i \in 1 .. t |-> b[i].high]
<1>2. High(a) = f \o <<>> /\ High(b) = g \o <<>>
  BY <1>1 DEF High, Column, Series
<1>3. /\ f = [i \in 1 .. n |-> f[i]] /\ g = [i \in 1 .. t |-> g[i]]
      /\ \A i \in 1 .. t : g[i] = f[i]
  BY <1>1
<1> HIDE DEF f, g
<1>4. Cut(g \o <<>>, t, f \o <<>>, n)
  BY <1>1, <1>3, SeriesCut
<1> QED  BY <1>2, <1>4

LEMMA LowCut ==
  ASSUME NEW n, NEW t, NEW a, NEW b, Cut(b, t, a, n)
  PROVE  Cut(Low(b), t, Low(a), n)
<1>1. /\ n \in Nat /\ t \in Nat /\ t <= n /\ Len(a) = n /\ Len(b) = t
      /\ \A i \in 1 .. t : i \in 1 .. n /\ b[i] = a[i]
  BY CutIs
<1> DEFINE f == [i \in 1 .. n |-> a[i].low]
           g == [i \in 1 .. t |-> b[i].low]
<1>2. Low(a) = f \o <<>> /\ Low(b) = g \o <<>>
  BY <1>1 DEF Low, Column, Series
<1>3. /\ f = [i \in 1 .. n |-> f[i]] /\ g = [i \in 1 .. t |-> g[i]]
      /\ \A i \in 1 .. t : g[i] = f[i]
  BY <1>1
<1> HIDE DEF f, g
<1>4. Cut(g \o <<>>, t, f \o <<>>, n)
  BY <1>1, <1>3, SeriesCut
<1> QED  BY <1>2, <1>4

LEMMA FlippedCut ==
  ASSUME NEW n, NEW t, NEW a, NEW b, Cut(b, t, a, n)
  PROVE  Cut(Flipped(b), t, Flipped(a), n)
<1>1. /\ n \in Nat /\ t \in Nat /\ t <= n /\ Len(a) = n /\ Len(b) = t
      /\ \A i \in 1 .. t : i \in 1 .. n /\ b[i] = a[i]
  BY CutIs
<1> DEFINE f == [i \in 1 .. n |-> -a[i]]
           g == [i \in 1 .. t |-> -b[i]]
<1>2. Flipped(a) = f \o <<>> /\ Flipped(b) = g \o <<>>
  BY <1>1 DEF Flipped, Column, Series
<1>3. /\ f = [i \in 1 .. n |-> f[i]] /\ g = [i \in 1 .. t |-> g[i]]
      /\ \A i \in 1 .. t : g[i] = f[i]
  BY <1>1
<1> HIDE DEF f, g
<1>4. Cut(g \o <<>>, t, f \o <<>>, n)
  BY <1>1, <1>3, SeriesCut
<1> QED  BY <1>2, <1>4

LEMMA DifferenceCut ==
  ASSUME NEW n, NEW t, NEW a, NEW b, Cut(b, t, a, n), NEW c, NEW d, Cut(d, t, c, n)
  PROVE  Cut(Difference(b, d), t, Difference(a, c), n)
<1>1. /\ n \in Nat /\ t \in Nat /\ t <= n /\ Len(a) = n /\ Len(b) = t
      /\ \A i \in 1 .. t : i \in 1 .. n /\ b[i] = a[i] /\ d[i] = c[i]
  BY CutIs
<1> DEFINE f == [i \in 1 .. n |-> IF Known(a[i]) /\ Known(c[i]) THEN a[i] - c[i] ELSE NaN]
           g == [i \in 1 .. t |-> IF Known(b[i]) /\ Known(d[i]) THEN b[i] - d[i] ELSE NaN]
<1>2. Difference(a, c) = f \o <<>> /\ Difference(b, d) = g \o <<>>
  BY <1>1 DEF Difference, Lift, Series
<1>3. /\ f = [i \in 1 .. n |-> f[i]] /\ g = [i \in 1 .. t |-> g[i]]
      /\ \A i \in 1 .. t : g[i] = f[i]
  BY <1>1
<1> HIDE DEF f, g
<1>4. Cut(g \o <<>>, t, f \o <<>>, n)
  BY <1>1, <1>3, SeriesCut
<1> QED  BY <1>2, <1>4

LEMMA QuotientCut ==
  ASSUME NEW n, NEW t, NEW a, NEW b, Cut(b, t, a, n), NEW c, NEW d, Cut(d, t, c, n), NEW k
  PROVE  Cut(Quotient(b, k, d), t, Quotient(a, k, c), n)
<1>1. /\ n \in Nat /\ t \in Nat /\ t <= n /\ Len(a) = n /\ Len(b) = t
      /\ \A i \in 1 .. t : i \in 1 .. n /\ b[i] = a[i] /\ d[i] = c[i]
  BY CutIs
<1> DEFINE f == [i \in 1 .. n |-> IF Known(a[i]) /\ Known(c[i]) THEN Ratio(a[i], k, c[i]) ELSE NaN]
           g == [i \in 1 .. t |-> IF Known(b[i]) /\ Known(d[i]) THEN Ratio(b[i], k, d[i]) ELSE NaN]
<1>2. Quotient(a, k, c) = f \o <<>> /\ Quotient(b, k, d) = g \o <<>>
  BY <1>1 DEF Quotient, Lift, Series
<1>3. /\ f = [i \in 1 .. n |-> f[i]] /\ g = [i \in 1 .. t |-> g[i]]
      /\ \A i \in 1 .. t : g[i] = f[i]
  BY <1>1
<1> HIDE DEF f, g
<1>4. Cut(g \o <<>>, t, f \o <<>>, n)
  BY <1>1, <1>3, SeriesCut
<1> QED  BY <1>2, <1>4

LEMMA ImbalanceCut ==
  ASSUME NEW n, NEW t, NEW a, NEW b, Cut(b, t, a, n), NEW c, NEW d, Cut(d, t, c, n)
  PROVE  Cut(Imbalance(b, d), t, Imbalance(a, c), n)
<1>1. /\ n \in Nat /\ t \in Nat /\ t <= n /\ Len(a) = n /\ Len(b) = t
      /\ \A i \in 1 .. t : i \in 1 .. n /\ b[i] = a[i] /\ d[i] = c[i]
  BY CutIs
<1> DEFINE f == [i \in 1 .. n |-> IF Known(a[i]) /\ Known(c[i]) THEN Ratio(Gap(a[i], c[i]), 100, a[i] + c[i]) ELSE NaN]
           g == [i \in 1 .. t |-> IF Known(b[i]) /\ Known(d[i]) THEN Ratio(Gap(b[i], d[i]), 100, b[i] + d[i]) ELSE NaN]
<1>2. Imbalance(a, c) = f \o <<>> /\ Imbalance(b, d) = g \o <<>>
  BY <1>1 DEF Imbalance, Lift, Series
<1>3. /\ f = [i \in 1 .. n |-> f[i]] /\ g = [i \in 1 .. t |-> g[i]]
      /\ \A i \in 1 .. t : g[i] = f[i]
  BY <1>1
<1> HIDE DEF f, g
<1>4. Cut(g \o <<>>, t, f \o <<>>, n)
  BY <1>1, <1>3, SeriesCut
<1> QED  BY <1>2, <1>4

LEMMA StrengthCut ==
  ASSUME NEW n, NEW t, NEW a, NEW b, Cut(b, t, a, n), NEW c, NEW d, Cut(d, t, c, n)
  PROVE  Cut(Strength(b, d), t, Strength(a, c), n)
<1>1. /\ n \in Nat /\ t \in Nat /\ t <= n /\ Len(a) = n /\ Len(b) = t
      /\ \A i \in 1 .. t : i \in 1 .. n /\ b[i] = a[i] /\ d[i] = c[i]
  BY CutIs
<1> DEFINE f == [i \in 1 .. n |-> IF Known(a[i]) /\ Known(c[i]) THEN IF a[i] + c[i] = 0 THEN 50 ELSE (100 * a[i]) \div (a[i] + c[i]) ELSE NaN]
           g == [i \in 1 .. t |-> IF Known(b[i]) /\ Known(d[i]) THEN IF b[i] + d[i] = 0 THEN 50 ELSE (100 * b[i]) \div (b[i] + d[i]) ELSE NaN]
<1>2. Strength(a, c) = f \o <<>> /\ Strength(b, d) = g \o <<>>
  BY <1>1 DEF Strength, Lift, Series
<1>3. /\ f = [i \in 1 .. n |-> f[i]] /\ g = [i \in 1 .. t |-> g[i]]
      /\ \A i \in 1 .. t : g[i] = f[i]
  BY <1>1
<1> HIDE DEF f, g
<1>4. Cut(g \o <<>>, t, f \o <<>>, n)
  BY <1>1, <1>3, SeriesCut
<1> QED  BY <1>2, <1>4

LEMMA BeyondCut ==
  ASSUME NEW n, NEW t, NEW a, NEW b, Cut(b, t, a, n), NEW c, NEW d, Cut(d, t, c, n)
  PROVE  Cut(Beyond(b, d), t, Beyond(a, c), n)
<1>1. /\ n \in Nat /\ t \in Nat /\ t <= n /\ Len(a) = n /\ Len(b) = t
      /\ \A i \in 1 .. t : i \in 1 .. n /\ b[i] = a[i] /\ d[i] = c[i]
  BY CutIs
<1> DEFINE f == [i \in 1 .. n |-> IF Known(a[i]) /\ Known(c[i]) THEN a[i] > c[i] ELSE NaN]
           g == [i \in 1 .. t |-> IF Known(b[i]) /\ Known(d[i]) THEN b[i] > d[i] ELSE NaN]
<1>2. Beyond(a, c) = f \o <<>> /\ Beyond(b, d) = g \o <<>>
  BY <1>1 DEF Beyond, Lift, Series
<1>3. /\ f = [i \in 1 .. n |-> f[i]] /\ g = [i \in 1 .. t |-> g[i]]
      /\ \A i \in 1 .. t : g[i] = f[i]
  BY <1>1
<1> HIDE DEF f, g
<1>4. Cut(g \o <<>>, t, f \o <<>>, n)
  BY <1>1, <1>3, SeriesCut
<1> QED  BY <1>2, <1>4

LEMMA BelowCut ==
  ASSUME NEW n, NEW t, NEW a, NEW b, Cut(b, t, a, n), NEW c, NEW d, Cut(d, t, c, n)
  PROVE  Cut(Below(b, d), t, Below(a, c), n)
<1>1. /\ n \in Nat /\ t \in Nat /\ t <= n /\ Len(a) = n /\ Len(b) = t
      /\ \A i \in 1 .. t : i \in 1 .. n /\ b[i] = a[i] /\ d[i] = c[i]
  BY CutIs
<1> DEFINE f == [i \in 1 .. n |-> IF Known(a[i]) /\ Known(c[i]) THEN a[i] < c[i] ELSE NaN]
           g == [i \in 1 .. t |-> IF Known(b[i]) /\ Known(d[i]) THEN b[i] < d[i] ELSE NaN]
<1>2. Below(a, c) = f \o <<>> /\ Below(b, d) = g \o <<>>
  BY <1>1 DEF Below, Lift, Series
<1>3. /\ f = [i \in 1 .. n |-> f[i]] /\ g = [i \in 1 .. t |-> g[i]]
      /\ \A i \in 1 .. t : g[i] = f[i]
  BY <1>1
<1> HIDE DEF f, g
<1>4. Cut(g \o <<>>, t, f \o <<>>, n)
  BY <1>1, <1>3, SeriesCut
<1> QED  BY <1>2, <1>4

LEMMA VolumeCut ==
  ASSUME NEW n, NEW t, NEW a, NEW b, Cut(b, t, a, n)
  PROVE  Cut(Volume(b), t, Volume(a), n)
<1>1. /\ n \in Nat /\ t \in Nat /\ t <= n /\ Len(a) = n /\ Len(b) = t
      /\ \A i \in 1 .. t : i \in 1 .. n /\ b[i] = a[i]
  BY CutIs
<1> DEFINE f == [i \in 1 .. n |-> a[i].volume]
           g == [i \in 1 .. t |-> b[i].volume]
<1>2. Volume(a) = f \o <<>> /\ Volume(b) = g \o <<>>
  BY <1>1 DEF Volume, Column, Series
<1>3. /\ f = [i \in 1 .. n |-> f[i]] /\ g = [i \in 1 .. t |-> g[i]]
      /\ \A i \in 1 .. t : g[i] = f[i]
  BY <1>1
<1> HIDE DEF f, g
<1>4. Cut(g \o <<>>, t, f \o <<>>, n)
  BY <1>1, <1>3, SeriesCut
<1> QED  BY <1>2, <1>4

LEMMA ScaledCut ==
  ASSUME NEW n, NEW t, NEW a, NEW b, Cut(b, t, a, n), NEW k
  PROVE  Cut(Scaled(b, k), t, Scaled(a, k), n)
<1>1. /\ n \in Nat /\ t \in Nat /\ t <= n /\ Len(a) = n /\ Len(b) = t
      /\ \A i \in 1 .. t : i \in 1 .. n /\ b[i] = a[i]
  BY CutIs
<1> DEFINE f == [i \in 1 .. n |-> IF Known(a[i]) THEN k * a[i] ELSE NaN]
           g == [i \in 1 .. t |-> IF Known(b[i]) THEN k * b[i] ELSE NaN]
<1>2. Scaled(a, k) = f \o <<>> /\ Scaled(b, k) = g \o <<>>
  BY <1>1 DEF Scaled, Column, Series
<1>3. /\ f = [i \in 1 .. n |-> f[i]] /\ g = [i \in 1 .. t |-> g[i]]
      /\ \A i \in 1 .. t : g[i] = f[i]
  BY <1>1
<1> HIDE DEF f, g
<1>4. Cut(g \o <<>>, t, f \o <<>>, n)
  BY <1>1, <1>3, SeriesCut
<1> QED  BY <1>2, <1>4

LEMMA GainsCut ==
  ASSUME NEW n, NEW t, NEW a, NEW b, Cut(b, t, a, n), NEW k
  PROVE  Cut(Gains(b, k), t, Gains(a, k), n)
<1>1. /\ n \in Nat /\ t \in Nat /\ t <= n /\ Len(a) = n /\ Len(b) = t
      /\ \A i \in 1 .. t : i \in 1 .. n /\ b[i] = a[i]
  BY CutIs
<1> DEFINE f == [i \in 1 .. n |-> IF Known(a[i]) THEN 100 * Larger(k * a[i], 0) ELSE NaN]
           g == [i \in 1 .. t |-> IF Known(b[i]) THEN 100 * Larger(k * b[i], 0) ELSE NaN]
<1>2. Gains(a, k) = f \o <<>> /\ Gains(b, k) = g \o <<>>
  BY <1>1 DEF Gains, Column, Series
<1>3. /\ f = [i \in 1 .. n |-> f[i]] /\ g = [i \in 1 .. t |-> g[i]]
      /\ \A i \in 1 .. t : g[i] = f[i]
  BY <1>1
<1> HIDE DEF f, g
<1>4. Cut(g \o <<>>, t, f \o <<>>, n)
  BY <1>1, <1>3, SeriesCut
<1> QED  BY <1>2, <1>4

LEMMA NothingCut ==
  ASSUME NEW n, NEW t, NEW a, NEW b, Cut(b, t, a, n)
  PROVE  Cut(NoValues(Len(b)), t, NoValues(Len(a)), n)
<1>1. /\ n \in Nat /\ t \in Nat /\ t <= n /\ Len(a) = n /\ Len(b) = t
  BY CutIs
<1> DEFINE f == [i \in 1 .. n |-> NaN]
           g == [i \in 1 .. t |-> NaN]
<1>2. NoValues(Len(a)) = f \o <<>> /\ NoValues(Len(b)) = g \o <<>>
  BY <1>1 DEF NoValues, Series
<1>3. /\ f = [i \in 1 .. n |-> f[i]] /\ g = [i \in 1 .. t |-> g[i]]
      /\ \A i \in 1 .. t : g[i] = f[i]
  BY <1>1
<1> HIDE DEF f, g
<1>4. Cut(g \o <<>>, t, f \o <<>>, n)
  BY <1>1, <1>3, SeriesCut
<1> QED  BY <1>2, <1>4

---------------------------------------------------------------------------
(* Looking back *)

LEMMA ShiftCut ==
  ASSUME NEW n, NEW t, NEW a, NEW b, Cut(b, t, a, n), NEW k \in Nat
  PROVE  Cut(Shift(b, k), t, Shift(a, k), n)
<1>1. /\ n \in Nat /\ t \in Nat /\ t <= n /\ Len(a) = n /\ Len(b) = t
      /\ \A i \in 1 .. t : i \in 1 .. n /\ b[i] = a[i]
  BY CutIs
<1> DEFINE f == [i \in 1 .. n |-> IF i > k THEN a[i - k] ELSE NaN]
           g == [i \in 1 .. t |-> IF i > k THEN b[i - k] ELSE NaN]
<1>2. Shift(a, k) = f \o <<>> /\ Shift(b, k) = g \o <<>>
  BY <1>1 DEF Shift, Series
<1>3. ASSUME NEW i \in 1 .. t PROVE g[i] = f[i]
  <2>1. i > k => i - k \in 1 .. t
    BY <1>1
  <2> QED  BY <1>1, <2>1
<1>4. f = [i \in 1 .. n |-> f[i]] /\ g = [i \in 1 .. t |-> g[i]]
  OBVIOUS
<1> HIDE DEF f, g
<1>5. Cut(g \o <<>>, t, f \o <<>>, n)
  BY <1>1, <1>3, <1>4, SeriesCut
<1> QED  BY <1>2, <1>5

LEMMA ChangeCut ==
  ASSUME NEW n, NEW t, NEW a, NEW b, Cut(b, t, a, n), NEW k \in Nat
  PROVE  Cut(Change(b, k), t, Change(a, k), n)
<1>1. Cut(Shift(b, k), t, Shift(a, k), n)
  BY ShiftCut
<1> QED  BY <1>1, DifferenceCut DEF Change

\* A rolling window is read only when it is full.
Full(s, w, i) == i >= w /\ \A j \in i - w + 1 .. i : Known(s[j])
Window(s, w, i) == SubSeq(s, i - w + 1, i)

LEMMA RollingSame ==
  ASSUME NEW n, NEW t, NEW a, NEW b, Cut(b, t, a, n), NEW w \in Nat \ {0},
         NEW i \in 1 .. t
  PROVE  /\ Full(b, w, i) = Full(a, w, i)
         /\ Full(a, w, i) => Window(b, w, i) = Window(a, w, i)
<1>1. /\ n \in Nat /\ t \in Nat /\ t <= n /\ \A j \in 1 .. t : b[j] = a[j]
  BY CutIs
<1>2. CASE i >= w
  <2>1. i - w + 1 \in Nat \ {0}
    BY <1>1, <1>2
  <2>2. \A j \in i - w + 1 .. i : j \in 1 .. t
    BY <1>1, <2>1
  <2>3. Full(b, w, i) = Full(a, w, i)
    BY <1>1, <2>2 DEF Full
  <2>4. PICK k \in Nat \ {0} : k = i - w + 1
    BY <2>1
  <2>5. SubSeq(b, k, i) = SubSeq(a, k, i)
    BY WindowSame
  <2> QED  BY <2>3, <2>4, <2>5 DEF Window
<1>3. CASE ~ (i >= w)
  BY <1>3 DEF Full
<1> QED  BY <1>2, <1>3

LEMMA SmaCut ==
  ASSUME NEW n, NEW t, NEW a, NEW b, Cut(b, t, a, n), NEW w \in Nat \ {0}
  PROVE  Cut(Sma(b, w), t, Sma(a, w), n)
<1>1. /\ n \in Nat /\ t \in Nat /\ t <= n /\ Len(a) = n /\ Len(b) = t
      /\ \A i \in 1 .. t : i \in 1 .. n
  BY CutIs
<1> DEFINE f == [i \in 1 .. n |-> IF Full(a, w, i) THEN (100 * Sum(Window(a, w, i))) \div w ELSE NaN]
           g == [i \in 1 .. t |-> IF Full(b, w, i) THEN (100 * Sum(Window(b, w, i))) \div w ELSE NaN]
<1>2. Sma(a, w) = f \o <<>> /\ Sma(b, w) = g \o <<>>
  BY <1>1 DEF Sma, Rolling, Series, Full, Window
<1>3. ASSUME NEW i \in 1 .. t PROVE g[i] = f[i]
  BY <1>1, RollingSame
<1>4. f = [i \in 1 .. n |-> f[i]] /\ g = [i \in 1 .. t |-> g[i]]
  OBVIOUS
<1> HIDE DEF f, g
<1>5. Cut(g \o <<>>, t, f \o <<>>, n)
  BY <1>1, <1>3, <1>4, SeriesCut
<1> QED  BY <1>2, <1>5

LEMMA BandPositionCut ==
  ASSUME NEW n, NEW t, NEW a, NEW b, Cut(b, t, a, n), NEW w \in Nat \ {0}, NEW std
  PROVE  Cut(BandPosition(b, w, std), t, BandPosition(a, w, std), n)
<1>1. /\ n \in Nat /\ t \in Nat /\ t <= n /\ Len(a) = n /\ Len(b) = t
      /\ \A i \in 1 .. t : i \in 1 .. n
  BY CutIs
<1> DEFINE f == [i \in 1 .. n |-> IF Full(a, w, i) THEN Position(Window(a, w, i), w, std) ELSE NaN]
           g == [i \in 1 .. t |-> IF Full(b, w, i) THEN Position(Window(b, w, i), w, std) ELSE NaN]
<1>2. BandPosition(a, w, std) = f \o <<>> /\ BandPosition(b, w, std) = g \o <<>>
  BY <1>1 DEF BandPosition, Rolling, Series, Full, Window
<1>3. ASSUME NEW i \in 1 .. t PROVE g[i] = f[i]
  BY <1>1, RollingSame
<1>4. f = [i \in 1 .. n |-> f[i]] /\ g = [i \in 1 .. t |-> g[i]]
  OBVIOUS
<1> HIDE DEF f, g
<1>5. Cut(g \o <<>>, t, f \o <<>>, n)
  BY <1>1, <1>3, <1>4, SeriesCut
<1> QED  BY <1>2, <1>5

LEMMA PercentileCut ==
  ASSUME NEW n, NEW t, NEW a, NEW b, Cut(b, t, a, n), NEW w \in Nat \ {0}
  PROVE  Cut(Percentile(b, w), t, Percentile(a, w), n)
<1>1. /\ n \in Nat /\ t \in Nat /\ t <= n /\ Len(a) = n /\ Len(b) = t
      /\ \A i \in 1 .. t : i \in 1 .. n
  BY CutIs
<1> DEFINE f == [i \in 1 .. n |-> IF Full(a, w, i) THEN Rank(Window(a, w, i), w) ELSE NaN]
           g == [i \in 1 .. t |-> IF Full(b, w, i) THEN Rank(Window(b, w, i), w) ELSE NaN]
<1>2. Percentile(a, w) = f \o <<>> /\ Percentile(b, w) = g \o <<>>
  BY <1>1 DEF Percentile, Rolling, Series, Full, Window
<1>3. ASSUME NEW i \in 1 .. t PROVE g[i] = f[i]
  BY <1>1, RollingSame
<1>4. f = [i \in 1 .. n |-> f[i]] /\ g = [i \in 1 .. t |-> g[i]]
  OBVIOUS
<1> HIDE DEF f, g
<1>5. Cut(g \o <<>>, t, f \o <<>>, n)
  BY <1>1, <1>3, <1>4, SeriesCut
<1> QED  BY <1>2, <1>5

LEMMA HighestCut ==
  ASSUME NEW n, NEW t, NEW a, NEW b, Cut(b, t, a, n), NEW w \in Nat \ {0}
  PROVE  Cut(Rolling(b, w, LargestOf), t, Rolling(a, w, LargestOf), n)
<1>1. /\ n \in Nat /\ t \in Nat /\ t <= n /\ Len(a) = n /\ Len(b) = t
      /\ \A i \in 1 .. t : i \in 1 .. n
  BY CutIs
<1> DEFINE f == [i \in 1 .. n |-> IF Full(a, w, i) THEN LargestOf(Window(a, w, i)) ELSE NaN]
           g == [i \in 1 .. t |-> IF Full(b, w, i) THEN LargestOf(Window(b, w, i)) ELSE NaN]
<1>2. Rolling(a, w, LargestOf) = f \o <<>> /\ Rolling(b, w, LargestOf) = g \o <<>>
  BY <1>1 DEF Rolling, Series, Full, Window
<1>3. ASSUME NEW i \in 1 .. t PROVE g[i] = f[i]
  BY <1>1, RollingSame
<1>4. f = [i \in 1 .. n |-> f[i]] /\ g = [i \in 1 .. t |-> g[i]]
  OBVIOUS
<1> HIDE DEF f, g
<1>5. Cut(g \o <<>>, t, f \o <<>>, n)
  BY <1>1, <1>3, <1>4, SeriesCut
<1> QED  BY <1>2, <1>5

LEMMA LowestCut ==
  ASSUME NEW n, NEW t, NEW a, NEW b, Cut(b, t, a, n), NEW w \in Nat \ {0}
  PROVE  Cut(Rolling(b, w, SmallestOf), t, Rolling(a, w, SmallestOf), n)
<1>1. /\ n \in Nat /\ t \in Nat /\ t <= n /\ Len(a) = n /\ Len(b) = t
      /\ \A i \in 1 .. t : i \in 1 .. n
  BY CutIs
<1> DEFINE f == [i \in 1 .. n |-> IF Full(a, w, i) THEN SmallestOf(Window(a, w, i)) ELSE NaN]
           g == [i \in 1 .. t |-> IF Full(b, w, i) THEN SmallestOf(Window(b, w, i)) ELSE NaN]
<1>2. Rolling(a, w, SmallestOf) = f \o <<>> /\ Rolling(b, w, SmallestOf) = g \o <<>>
  BY <1>1 DEF Rolling, Series, Full, Window
<1>3. ASSUME NEW i \in 1 .. t PROVE g[i] = f[i]
  BY <1>1, RollingSame
<1>4. f = [i \in 1 .. n |-> f[i]] /\ g = [i \in 1 .. t |-> g[i]]
  OBVIOUS
<1> HIDE DEF f, g
<1>5. Cut(g \o <<>>, t, f \o <<>>, n)
  BY <1>1, <1>3, <1>4, SeriesCut
<1> QED  BY <1>2, <1>5

---------------------------------------------------------------------------
(* Indicators *)

LEMMA EmaCut ==
  ASSUME NEW n, NEW t, NEW a, NEW b, Cut(b, t, a, n), NEW w
  PROVE  Cut(Ema(b, w), t, Ema(a, w), n)
BY SmoothCut DEF Ema

LEMMA WilderCut ==
  ASSUME NEW n, NEW t, NEW a, NEW b, Cut(b, t, a, n), NEW w
  PROVE  Cut(Wilder(b, w), t, Wilder(a, w), n)
BY SmoothCut DEF Wilder

LEMMA TrueRangeCut ==
  ASSUME NEW n, NEW t, NEW a, NEW b, Cut(b, t, a, n)
  PROVE  Cut(TrueRange(b), t, TrueRange(a), n)
<1>1. /\ n \in Nat /\ t \in Nat /\ t <= n /\ Len(a) = n /\ Len(b) = t
      /\ \A i \in 1 .. t : i \in 1 .. n /\ b[i] = a[i]
  BY CutIs
<1> DEFINE f == [i \in 1 .. n |-> IF i = 1 THEN a[i].high - a[i].low ELSE RangeFrom(a[i-1], a[i])]
           g == [i \in 1 .. t |-> IF i = 1 THEN b[i].high - b[i].low ELSE RangeFrom(b[i-1], b[i])]
<1>2. TrueRange(a) = f \o <<>> /\ TrueRange(b) = g \o <<>>
  BY <1>1 DEF TrueRange, Series
<1>3. ASSUME NEW i \in 1 .. t PROVE g[i] = f[i]
  <2>1. i = 1 \/ i - 1 \in 1 .. t
    BY <1>1
  <2> QED  BY <1>1, <2>1
<1>4. f = [i \in 1 .. n |-> f[i]] /\ g = [i \in 1 .. t |-> g[i]]
  OBVIOUS
<1> HIDE DEF f, g
<1>5. Cut(g \o <<>>, t, f \o <<>>, n)
  BY <1>1, <1>3, <1>4, SeriesCut
<1> QED  BY <1>2, <1>5

LEMMA AtrCut ==
  ASSUME NEW n, NEW t, NEW a, NEW b, Cut(b, t, a, n), NEW w
  PROVE  Cut(Atr(b, w), t, Atr(a, w), n)
BY TrueRangeCut, ScaledCut, WilderCut DEF Atr, Hundredths

LEMMA UpMoveCut ==
  ASSUME NEW n, NEW t, NEW a, NEW b, Cut(b, t, a, n)
  PROVE  Cut(DirectionalMove(b, UpMove, DownMove), t, DirectionalMove(a, UpMove, DownMove), n)
<1>1. /\ n \in Nat /\ t \in Nat /\ t <= n /\ Len(a) = n /\ Len(b) = t
      /\ \A i \in 1 .. t : i \in 1 .. n /\ b[i] = a[i]
  BY CutIs
<1> DEFINE f == [i \in 1 .. n |-> IF i > 1 /\ UpMove(a[i], a[i-1]) > Larger(DownMove(a[i], a[i-1]), 0)
                              THEN 100 * UpMove(a[i], a[i-1]) ELSE 0]
           g == [i \in 1 .. t |-> IF i > 1 /\ UpMove(b[i], b[i-1]) > Larger(DownMove(b[i], b[i-1]), 0)
                              THEN 100 * UpMove(b[i], b[i-1]) ELSE 0]
<1>2. DirectionalMove(a, UpMove, DownMove) = f \o <<>> /\ DirectionalMove(b, UpMove, DownMove) = g \o <<>>
  BY <1>1 DEF DirectionalMove, Series
<1>3. ASSUME NEW i \in 1 .. t PROVE g[i] = f[i]
  <2>1. i = 1 \/ i - 1 \in 1 .. t
    BY <1>1
  <2> QED  BY <1>1, <2>1
<1>4. f = [i \in 1 .. n |-> f[i]] /\ g = [i \in 1 .. t |-> g[i]]
  OBVIOUS
<1> HIDE DEF f, g
<1>5. Cut(g \o <<>>, t, f \o <<>>, n)
  BY <1>1, <1>3, <1>4, SeriesCut
<1> QED  BY <1>2, <1>5

LEMMA DownMoveCut ==
  ASSUME NEW n, NEW t, NEW a, NEW b, Cut(b, t, a, n)
  PROVE  Cut(DirectionalMove(b, DownMove, UpMove), t, DirectionalMove(a, DownMove, UpMove), n)
<1>1. /\ n \in Nat /\ t \in Nat /\ t <= n /\ Len(a) = n /\ Len(b) = t
      /\ \A i \in 1 .. t : i \in 1 .. n /\ b[i] = a[i]
  BY CutIs
<1> DEFINE f == [i \in 1 .. n |-> IF i > 1 /\ DownMove(a[i], a[i-1]) > Larger(UpMove(a[i], a[i-1]), 0)
                              THEN 100 * DownMove(a[i], a[i-1]) ELSE 0]
           g == [i \in 1 .. t |-> IF i > 1 /\ DownMove(b[i], b[i-1]) > Larger(UpMove(b[i], b[i-1]), 0)
                              THEN 100 * DownMove(b[i], b[i-1]) ELSE 0]
<1>2. DirectionalMove(a, DownMove, UpMove) = f \o <<>> /\ DirectionalMove(b, DownMove, UpMove) = g \o <<>>
  BY <1>1 DEF DirectionalMove, Series
<1>3. ASSUME NEW i \in 1 .. t PROVE g[i] = f[i]
  <2>1. i = 1 \/ i - 1 \in 1 .. t
    BY <1>1
  <2> QED  BY <1>1, <2>1
<1>4. f = [i \in 1 .. n |-> f[i]] /\ g = [i \in 1 .. t |-> g[i]]
  OBVIOUS
<1> HIDE DEF f, g
<1>5. Cut(g \o <<>>, t, f \o <<>>, n)
  BY <1>1, <1>3, <1>4, SeriesCut
<1> QED  BY <1>2, <1>5

LEMMA DiCut ==
  ASSUME NEW n, NEW t, NEW a, NEW b, Cut(b, t, a, n), NEW w
  PROVE  Cut(DiPlus(b, w), t, DiPlus(a, w), n) /\ Cut(DiMinus(b, w), t, DiMinus(a, w), n)
<1> DEFINE plus(s) == DirectionalMove(s, UpMove, DownMove)
           minus(s) == DirectionalMove(s, DownMove, UpMove)
<1>1. /\ Cut(plus(b), t, plus(a), n) /\ Cut(minus(b), t, minus(a), n)
      /\ Cut(Atr(b, w), t, Atr(a, w), n)
  BY UpMoveCut, DownMoveCut, AtrCut
<1>2. /\ DiPlus(a, w) = DirectionalIndex(a, plus(a), w)
      /\ DiPlus(b, w) = DirectionalIndex(b, plus(b), w)
      /\ DiMinus(a, w) = DirectionalIndex(a, minus(a), w)
      /\ DiMinus(b, w) = DirectionalIndex(b, minus(b), w)
  BY DEF DiPlus, DiMinus
<1> HIDE DEF plus, minus
<1>3. Cut(Wilder(plus(b), w), t, Wilder(plus(a), w), n)
      /\ Cut(Wilder(minus(b), w), t, Wilder(minus(a), w), n)
  BY <1>1, WilderCut
<1> QED  BY <1>1, <1>2, <1>3, QuotientCut DEF DirectionalIndex

LEMMA AdxCut ==
  ASSUME NEW n, NEW t, NEW a, NEW b, Cut(b, t, a, n), NEW w
  PROVE  Cut(Adx(b, w), t, Adx(a, w), n)
BY DiCut, ImbalanceCut, WilderCut DEF Adx

LEMMA RsiCut ==
  ASSUME NEW n, NEW t, NEW a, NEW b, Cut(b, t, a, n), NEW w
  PROVE  Cut(Rsi(b, w), t, Rsi(a, w), n)
<1>1. Cut(Change(b, 1), t, Change(a, 1), n)
  BY ChangeCut
<1>2. \A k : Cut(Wilder(Gains(Change(b, 1), k), w), t, Wilder(Gains(Change(a, 1), k), w), n)
  BY <1>1, GainsCut, WilderCut
<1> QED  BY <1>2, StrengthCut DEF Rsi

LEMMA MacdHistCut ==
  ASSUME NEW n, NEW t, NEW a, NEW b, Cut(b, t, a, n), NEW u, NEW v, NEW w
  PROVE  Cut(MacdHist(b, u, v, w), t, MacdHist(a, u, v, w), n)
<1> DEFINE line(s) == Difference(Ema(Hundredths(s), u), Ema(Hundredths(s), v))
<1>1. Cut(Hundredths(b), t, Hundredths(a), n)
  BY ScaledCut DEF Hundredths
<1>2. Cut(line(b), t, line(a), n)
  BY <1>1, EmaCut, DifferenceCut
<1>3. /\ MacdHist(a, u, v, w) = Difference(line(a), Ema(line(a), w))
      /\ MacdHist(b, u, v, w) = Difference(line(b), Ema(line(b), w))
  BY DEF MacdHist
<1> HIDE DEF line
<1> QED  BY <1>2, <1>3, EmaCut, DifferenceCut

LEMMA RateOfChangeCut ==
  ASSUME NEW n, NEW t, NEW a, NEW b, Cut(b, t, a, n), NEW w \in Nat
  PROVE  Cut(RateOfChange(b, w), t, RateOfChange(a, w), n)
BY ChangeCut, ShiftCut, QuotientCut DEF RateOfChange

LEMMA SlopeCut ==
  ASSUME NEW n, NEW t, NEW a, NEW b, Cut(b, t, a, n), NEW c, NEW d, Cut(d, t, c, n),
         NEW w \in Nat
  PROVE  Cut(Slope(b, w, d), t, Slope(a, w, c), n)
BY ChangeCut, ScaledCut, QuotientCut DEF Slope

---------------------------------------------------------------------------
(* The volume *)

LEMMA SumOfZeros ==
  ASSUME NEW S, IsFiniteSet(S), NEW f, \A x \in S : f[x] = 0
  PROVE  SumFunctionOnSet(f, S) = 0
<1> DEFINE T == {s \in SUBSET S : SumFunctionOnSet(f, s) = 0}
<1>1. {} \in T
  BY SumEmpty
<1>2. ASSUME NEW s \in SUBSET S, s # {}, \A x \in s : s \ {x} \in T
      PROVE  s \in T
  <2>1. PICK x \in s : SumFunctionOnSet(f, s) = f[x] + SumFunctionOnSet(f, s \ {x})
    BY <1>2, SumPeeled, FS_Subset
  <2> QED  BY <1>2, <2>1
<1>3. S \in T
  <2>1. \A s \in SUBSET S : s # {} /\ (\A x \in s : s \ {x} \in T) => s \in T
    <3> HIDE DEF T
    <3> QED  BY <1>2
  <2> HIDE DEF T
  <2> QED  BY <1>1, <2>1, SubsetInduction
<1> QED  BY <1>3

\* Where nothing has been traded so far, there is nothing to compare a volume with.
LEMMA NoVolumeNoRatio ==
  ASSUME NEW t, NEW v, IsSeries(v, t), \A i \in 1 .. t : v[i] = 0, NEW w \in Nat \ {0}
  PROVE  Quotient(v, 10000, Sma(Shift(v, 1), w)) = NoValues(t)
<1>1. t \in Nat /\ Len(v) = t
  BY DEF IsSeries
<1> DEFINE h == [i \in 1 .. t |-> IF i > 1 THEN v[i - 1] ELSE NaN]
           u == Shift(v, 1)
           m == [i \in 1 .. t |-> IF Full(u, w, i) THEN (100 * Sum(Window(u, w, i))) \div w ELSE NaN]
           base == Sma(u, w)
           q == [i \in 1 .. t |-> IF Known(v[i]) /\ Known(base[i])
                                  THEN Ratio(v[i], 10000, base[i]) ELSE NaN]
<1>2. u = h /\ IsSeries(u, t) /\ Len(u) = t
  <2>1. u = h \o <<>>
    BY <1>1 DEF Shift, Series
  <2>2. h = [i \in 1 .. t |-> h[i]]
    OBVIOUS
  <2> HIDE DEF h
  <2>3. h \o <<>> = h /\ IsSeries(h, t)
    BY <1>1, <2>2, SeriesIs
  <2> QED  BY <2>1, <2>3 DEF IsSeries
<1>3. \A i \in 1 .. t : Known(u[i]) => u[i] = 0
  <2> SUFFICES ASSUME NEW i \in 1 .. t, Known(u[i]) PROVE u[i] = 0
    OBVIOUS
  <2>1. u[i] = IF i > 1 THEN v[i - 1] ELSE NaN
    BY <1>2
  <2>2. i > 1 => i - 1 \in 1 .. t
    BY <1>1
  <2> QED  BY <2>1, <2>2 DEF Known
<1> HIDE DEF u, h
<1>4. base = m
  <2>1. base = m \o <<>>
    BY <1>2 DEF Sma, Rolling, Series, Full, Window
  <2>2. m = [i \in 1 .. t |-> m[i]]
    OBVIOUS
  <2> HIDE DEF m
  <2> QED  BY <1>1, <2>1, <2>2, SeriesIs
<1>5. ASSUME NEW i \in 1 .. t PROVE base[i] \in {0, NaN}
  <2>0. base[i] = IF Full(u, w, i) THEN (100 * Sum(Window(u, w, i))) \div w ELSE NaN
    BY <1>4
  <2> SUFFICES ASSUME Full(u, w, i) PROVE (100 * Sum(Window(u, w, i))) \div w = 0
    BY <2>0
  <2> DEFINE k == i - w + 1
  <2>1. k \in Nat \ {0} /\ i \in Int /\ k \in Int /\ k <= i /\ i - k + 1 \in Nat
    BY <1>1 DEF Full
  <2>2. \A j \in k .. i : j \in 1 .. t /\ u[j] = 0
    <3>1. \A j \in k .. i : j \in 1 .. t /\ Known(u[j])
      BY <1>1, <2>1 DEF Full
    <3> QED  BY <3>1, <1>3
  <2> HIDE DEF k
  <2> DEFINE x == SubSeq(u, k, i)
  <2>3. \A j \in k .. i : u[j] \in {0}
    BY <2>2
  <2>4. x \in Seq({0})
    BY <2>1, <2>3, SubSeqProperties
  <2>5. IsFiniteSet(DOMAIN x) /\ \A j \in DOMAIN x : x[j] = 0
    <3> HIDE DEF x
    <3>1. DOMAIN x = 1 .. Len(x) /\ Len(x) \in Nat /\ \A j \in DOMAIN x : x[j] \in {0}
      BY <2>4
    <3> QED  BY <3>1, FS_Interval
  <2>6. SumFunction(x) = 0
    <3> HIDE DEF x
    <3> QED  BY <2>5, SumOfZeros DEF SumFunction
  <2>7. Window(u, w, i) = x
    BY DEF Window, k
  <2> HIDE DEF x
  <2>8. Sum(Window(u, w, i)) = 0
    BY <2>6, <2>7 DEF Sum
  <2>9. (100 * 0) \div w = 0
    OBVIOUS
  <2> QED  BY <2>8, <2>9
<1>6. Quotient(v, 10000, base) = q \o <<>>
  BY <1>1 DEF Quotient, Lift, Series
<1> HIDE DEF base
<1> DEFINE e == [i \in 1 .. t |-> NaN]
<1>7. q = e
  BY <1>5 DEF Ratio, Known
<1>8. NoValues(t) = e \o <<>>
  BY DEF NoValues, Series
<1> HIDE DEF q, e
<1>9. Quotient(v, 10000, base) = NoValues(t)
  BY <1>6, <1>7, <1>8
<1> QED  BY <1>9 DEF base, u

LEMMA RelativeVolumeCut ==
  ASSUME NEW n, NEW t, NEW a, NEW b, Cut(b, t, a, n), NEW w \in Nat \ {0}
  PROVE  Cut(RelativeVolume(b, w), t, RelativeVolume(a, w), n)
<1> DEFINE u == Volume(a)
           v == Volume(b)
           q(s) == Quotient(s, 10000, Sma(Shift(s, 1), w))
           still(s) == \A i \in DOMAIN s : s[i] = 0
           none(s) == NoValues(Len(s))
<1>1. Cut(v, t, u, n) /\ Len(b) = t
  BY VolumeCut, CutIs
<1>2. /\ RelativeVolume(a, w) = IF still(u) THEN none(a) ELSE q(u)
      /\ RelativeVolume(b, w) = IF still(v) THEN none(b) ELSE q(v)
  BY DEF RelativeVolume
<1> HIDE DEF u, v
<1>3. Cut(none(b), t, none(a), n)
  BY NothingCut
<1>4. Cut(q(v), t, q(u), n)
  <2>1. Cut(Shift(v, 1), t, Shift(u, 1), n)
    BY <1>1, ShiftCut
  <2>2. Cut(Sma(Shift(v, 1), w), t, Sma(Shift(u, 1), w), n)
    BY <2>1, SmaCut
  <2> QED  BY <1>1, <2>2, QuotientCut
<1>5. still(u) => still(v)
  BY <1>1, CutIs
<1>6. still(v) => q(v) = none(b)
  <2>1. IsSeries(v, t) /\ DOMAIN v = 1 .. t
    BY <1>1, CutIs DEF Cut
  <2> SUFFICES ASSUME still(v) PROVE q(v) = NoValues(t)
    BY <1>1
  <2>2. \A i \in 1 .. t : v[i] = 0
    BY <2>1
  <2>3. PICK z : z = v
    OBVIOUS
  <2>4. IsSeries(z, t) /\ \A i \in 1 .. t : z[i] = 0
    BY <2>1, <2>2, <2>3
  <2>5. Quotient(z, 10000, Sma(Shift(z, 1), w)) = NoValues(t)
    BY <2>4, NoVolumeNoRatio
  <2> QED  BY <2>3, <2>5
<1> HIDE DEF q, none, still
<1> QED  BY <1>2, <1>3, <1>4, <1>5, <1>6

---------------------------------------------------------------------------
(* Channels and their width *)

LEMMA FeaturePeriods ==
  /\ \A p \in {Feature.sma, Feature.filter, Feature.slope, Feature.adx, Feature.rsi,
               Feature.roc, Feature.macdFast, Feature.macdSlow, Feature.macdSignal,
               Feature.atr, Feature.bb, Feature.lookback, Feature.left, Feature.right,
               Feature.donchian, Feature.volume, Feature.fast, Feature.slow} : p \in Nat \ {0}
BY FeatureAssumption DEF FeatureConfig

LEMMA ChannelCut ==
  ASSUME NEW n, NEW t, NEW a, NEW b, Cut(b, t, a, n)
  PROVE  Cut(Upper(b), t, Upper(a), n) /\ Cut(Lower(b), t, Lower(a), n)
<1>1. Feature.donchian \in Nat \ {0}
  BY FeaturePeriods
<1>2. Cut(Shift(High(b), 1), t, Shift(High(a), 1), n) /\ Cut(Shift(Low(b), 1), t, Shift(Low(a), 1), n)
  BY HighCut, LowCut, ShiftCut
<1>3. Cut(Upper(b), t, Upper(a), n)
  BY <1>1, <1>2, HighestCut DEF Upper
<1>4. Cut(Lower(b), t, Lower(a), n)
  BY <1>1, <1>2, LowestCut DEF Lower
<1> QED  BY <1>3, <1>4

LEMMA WidthCut ==
  ASSUME NEW n, NEW t, NEW a, NEW b, Cut(b, t, a, n)
  PROVE  Cut(Width(b), t, Width(a), n)
<1>1. Cut(Difference(Upper(b), Lower(b)), t, Difference(Upper(a), Lower(a)), n)
  BY ChannelCut, DifferenceCut
<1> QED  BY <1>1, CloseCut, QuotientCut DEF Width

LEMMA ConsolidationCut ==
  ASSUME NEW n, NEW t, NEW a, NEW b, Cut(b, t, a, n)
  PROVE  Cut(Consolidation(b), t, Consolidation(a), n)
<1>1. /\ n \in Nat /\ t \in Nat /\ t <= n /\ Len(a) = n /\ Len(b) = t
  BY CutIs
<1> DEFINE c == Width(a)
           d == Width(b)
           f == [i \in 1 .. n |-> Tightness(c, i)]
           g == [i \in 1 .. t |-> Tightness(d, i)]
<1>2. Consolidation(a) = f \o <<>> /\ Consolidation(b) = g \o <<>>
  BY <1>1 DEF Consolidation, Series
<1>3. Cut(d, t, c, n)
  BY WidthCut
<1> HIDE DEF c, d
<1>4. ASSUME NEW i \in 1 .. t PROVE Tightness(d, i) = Tightness(c, i)
  <2>1. Larger(i - MedianWindow + 1, 1) \in Nat \ {0}
    <3>1. MedianWindow \in Int
      BY FeaturePeriods DEF MedianWindow, Larger
    <3>2. PICK m \in Int : m = MedianWindow
      BY <3>1
    <3> QED  BY <1>1, <3>2 DEF Larger
  <2>2. PICK k \in Nat \ {0} : k = Larger(i - MedianWindow + 1, 1)
    BY <2>1
  <2> DEFINE known == {j \in k .. i : Known(c[j])}
  <2>3. /\ \A j \in k .. i : d[j] = c[j]
        /\ known = {j \in k .. i : Known(d[j])}
        /\ i \in k .. i \/ k > i
    <3>1. \A j \in k .. i : j \in 1 .. t
      BY <1>1
    <3> QED  BY <1>1, <1>3, <3>1, CutIs
  <2>4. d[i] = c[i]
    BY <1>3, CutIs
  <2>5. known \subseteq k .. i
    OBVIOUS
  <2>6. \A x : Ranked(d, known, x) = Ranked(c, known, x)
    <3>1. \A j \in known : d[j] = c[j]
      BY <2>3, <2>5
    <3> HIDE DEF known
    <3>2. {d[j] : j \in known} = {c[j] : j \in known}
      BY <3>1
    <3>3. ASSUME NEW y PROVE /\ {j \in known : d[j] < y} = {j \in known : c[j] < y}
                            /\ {j \in known : d[j] <= y} = {j \in known : c[j] <= y}
      BY <3>1
    <3> QED  BY <3>2, <3>3 DEF Ranked
  <2>7. Median(d, known) = Median(c, known)
    BY <2>6 DEF Median
  <2>8. /\ Tightness(c, i) = IF Cardinality(known) >= Feature.donchian /\ Known(c[i])
                             THEN Ratio(c[i], 100, Median(c, known)) ELSE NaN
        /\ Tightness(d, i) = IF Cardinality(known) >= Feature.donchian /\ Known(d[i])
                             THEN Ratio(d[i], 100, Median(d, known)) ELSE NaN
    BY <2>2, <2>3 DEF Tightness
  <2> QED  BY <2>4, <2>7, <2>8
<1>5. \A i \in 1 .. t : g[i] = f[i]
  <2>1. \A i \in 1 .. t : i \in 1 .. n
    BY <1>1
  <2> QED  BY <1>4, <2>1
<1>6. f = [i \in 1 .. n |-> f[i]] /\ g = [i \in 1 .. t |-> g[i]]
  OBVIOUS
<1> HIDE DEF f, g
<1>7. Cut(g \o <<>>, t, f \o <<>>, n)
  BY <1>1, <1>5, <1>6, SeriesCut
<1> QED  BY <1>2, <1>7

---------------------------------------------------------------------------
(* Swings *)

LEMMA NewestIn ==
  ASSUME NEW m \in Int, NEW S \in SUBSET (1 .. m), S # {}
  PROVE  Max(S) \in S
<1>1. IsFiniteSet(S) /\ \A x \in S : x \in Int
  <2>1. IsFiniteSet(1 .. m) /\ S \subseteq 1 .. m
    BY FS_Interval
  <2>2. IsFiniteSet(S)
    BY <2>1, FS_Subset
  <2> QED  BY <2>1, <2>2
<1>2. \E x \in S : \A y \in S : x >= y
  BY <1>1, Extremes
<1> QED  BY <1>2 DEF Max

\* A swing is published when the bars that confirm it are there.
LEMMA SwingSame ==
  ASSUME NEW n, NEW t, NEW a, NEW b, Cut(b, t, a, n), NEW r \in 1 .. t
  PROVE  Swing(b, r) = Swing(a, r)
<1>1. /\ n \in Nat /\ t \in Nat /\ t <= n /\ Len(a) = n /\ Len(b) = t
      /\ \A i \in 1 .. t : b[i] = a[i]
  BY CutIs
<1>2. PICK left \in Nat, right \in Nat : left = Feature.left /\ right = Feature.right
  BY FeaturePeriods
<1>3. ASSUME NEW i \in 1 .. r - right PROVE IsPivot(b, i) = IsPivot(a, i)
  <2>1. i + right <= t /\ i + right <= n /\ i \in 1 .. t
    BY <1>1, <1>2
  <2>2. \A j \in i + 1 .. i + right : j \in 1 .. t
    BY <1>1, <2>1
  <2>3. i > left => \A j \in i - left .. i - 1 : j \in 1 .. t
    BY <1>1, <1>2, <2>1
  <2> QED  BY <1>1, <1>2, <2>1, <2>2, <2>3 DEF IsPivot
<1> DEFINE P == {i \in 1 .. r - right : IsPivot(a, i)}
<1>4. PublishedBy(a, r) = P /\ PublishedBy(b, r) = P
  BY <1>2, <1>3 DEF PublishedBy
<1>5. P \in SUBSET (1 .. r - right) /\ \A i \in P : b[i] = a[i]
  BY <1>1, <1>2
<1> HIDE DEF P
<1>6. PICK m \in Int : m = r - right
  BY <1>1, <1>2
<1>7. P # {} => b[Max(P)] = a[Max(P)]
  BY <1>5, <1>6, NewestIn
<1>8. P \ {Max(P)} # {} => b[Max(P \ {Max(P)})] = a[Max(P \ {Max(P)})]
  <2> DEFINE Q == P \ {Max(P)}
  <2>1. Q \in SUBSET (1 .. r - right) /\ \A i \in Q : b[i] = a[i]
    BY <1>5
  <2> HIDE DEF Q
  <2>2. Q # {} => b[Max(Q)] = a[Max(Q)]
    BY <1>6, <2>1, NewestIn
  <2> QED  BY <2>2 DEF Q
<1> QED  BY <1>4, <1>7, <1>8 DEF Swing

LEMMA FreshSame ==
  ASSUME NEW n, NEW t, NEW a, NEW b, Cut(b, t, a, n), NEW r \in 1 .. t
  PROVE  Fresh(b, r) = Fresh(a, r)
<1>1. /\ t \in Nat /\ \A i \in 1 .. t : b[i] = a[i]
  BY CutIs
<1>2. \A j \in Larger(r - FreshnessWindow, 1) .. r - 1 : j \in 1 .. t
  BY <1>1 DEF Larger, FreshnessWindow
<1> QED  BY <1>1, <1>2 DEF Fresh

---------------------------------------------------------------------------
(* The panel *)

ColumnNames ==
  {"close", "highs", "lows", "atr", "percentile", "middle", "band", "slope", "filter",
   "fast", "slow", "adx", "plus", "minus", "rsi", "roc", "hist", "upper", "lower", "ups",
   "downs", "consolidation", "volume"}

\* Every column of d is that of c up to bar t.
ColumnsAgree(d, t, c, n) == \A x \in ColumnNames : Cut(d[x], t, c[x], n)

LEMMA ColumnsCut ==
  ASSUME NEW n, NEW t, NEW a, NEW b, Cut(b, t, a, n)
  PROVE  ColumnsAgree(Columns(b), t, Columns(a), n)
<1> DEFINE c == Columns(a)
           d == Columns(b)
<1>1. /\ Cut(Close(b), t, Close(a), n) /\ Cut(High(b), t, High(a), n)
      /\ Cut(Flipped(Low(b)), t, Flipped(Low(a)), n)
      /\ Cut(Hundredths(Close(b)), t, Hundredths(Close(a)), n)
  BY CloseCut, HighCut, LowCut, FlippedCut, ScaledCut DEF Hundredths
<1>2. Cut(Atr(b, Feature.atr), t, Atr(a, Feature.atr), n)
  BY AtrCut
<1>3. \A w \in Nat \ {0} : Cut(Sma(Close(b), w), t, Sma(Close(a), w), n)
  BY <1>1, SmaCut
<1>4. /\ Cut(Upper(b), t, Upper(a), n) /\ Cut(Lower(b), t, Lower(a), n)
      /\ Cut(Beyond(Close(b), Upper(b)), t, Beyond(Close(a), Upper(a)), n)
      /\ Cut(Below(Close(b), Lower(b)), t, Below(Close(a), Lower(a)), n)
  BY <1>1, ChannelCut, BeyondCut, BelowCut
<1>5. /\ d.close = Close(b) /\ c.close = Close(a)
      /\ d.highs = High(b) /\ c.highs = High(a)
      /\ d.lows = Flipped(Low(b)) /\ c.lows = Flipped(Low(a))
      /\ d.atr = Atr(b, Feature.atr) /\ c.atr = Atr(a, Feature.atr)
      /\ d.upper = Upper(b) /\ c.upper = Upper(a)
      /\ d.lower = Lower(b) /\ c.lower = Lower(a)
      /\ d.ups = Beyond(Close(b), Upper(b)) /\ c.ups = Beyond(Close(a), Upper(a))
      /\ d.downs = Below(Close(b), Lower(b)) /\ c.downs = Below(Close(a), Lower(a))
  BY DEF Columns
<1>6. Cut(d.percentile, t, c.percentile, n)
  BY <1>2, FeaturePeriods, PercentileCut DEF Columns
<1>7. Cut(d.middle, t, c.middle, n) /\ Cut(d.filter, t, c.filter, n)
  BY <1>3, FeaturePeriods DEF Columns
<1>8. Cut(d.band, t, c.band, n)
  BY <1>1, FeaturePeriods, BandPositionCut DEF Columns
<1>9. Cut(d.slope, t, c.slope, n)
  <2>1. Cut(Sma(Close(b), Feature.sma), t, Sma(Close(a), Feature.sma), n)
    BY <1>3, FeaturePeriods
  <2>2. Feature.slope \in Nat
    BY FeaturePeriods
  <2>3. Cut(Slope(Sma(Close(b), Feature.sma), Feature.slope, Atr(b, Feature.atr)), t,
            Slope(Sma(Close(a), Feature.sma), Feature.slope, Atr(a, Feature.atr)), n)
    BY <1>2, <2>1, <2>2, SlopeCut
  <2> QED  BY <2>3 DEF Columns
<1>10. Cut(d.fast, t, c.fast, n) /\ Cut(d.slow, t, c.slow, n)
  BY <1>1, EmaCut DEF Columns
<1>11. Cut(d.adx, t, c.adx, n) /\ Cut(d.plus, t, c.plus, n) /\ Cut(d.minus, t, c.minus, n)
  BY AdxCut, DiCut DEF Columns
<1>12. Cut(d.rsi, t, c.rsi, n)
  BY <1>1, RsiCut DEF Columns
<1>13. Cut(d.roc, t, c.roc, n)
  BY <1>1, FeaturePeriods, RateOfChangeCut DEF Columns
<1>14. Cut(d.hist, t, c.hist, n)
  BY <1>1, MacdHistCut DEF Columns
<1>15. Cut(d.consolidation, t, c.consolidation, n)
  BY ConsolidationCut DEF Columns
<1>16. Cut(d.volume, t, c.volume, n)
  <2>1. Cut(RelativeVolume(b, Feature.volume), t, RelativeVolume(a, Feature.volume), n)
    BY FeaturePeriods, RelativeVolumeCut
  <2>2. Cut(NoValues(Len(b)), t, NoValues(Len(a)), n)
    BY NothingCut
  <2> QED  BY <2>1, <2>2 DEF Columns
<1> HIDE DEF c, d
<1>17. ColumnsAgree(d, t, c, n)
  BY <1>1, <1>2, <1>4, <1>5, <1>6, <1>7, <1>8, <1>9, <1>10, <1>11, <1>12, <1>13, <1>14,
     <1>15, <1>16 DEF ColumnNames, ColumnsAgree
<1> QED  BY <1>17 DEF c, d

LEMMA RowSame ==
  ASSUME NEW n, NEW t, NEW c, NEW d, ColumnsAgree(d, t, c, n), NEW r \in 1 .. t
  PROVE  Row(d, r) = Row(c, r)
<1>1. \A x \in ColumnNames : Cut(d[x], t, c[x], n) /\ d[x][r] = c[x][r]
  BY CutIs DEF ColumnsAgree
<1>2. /\ d.close[r] = c.close[r] /\ d.atr[r] = c.atr[r] /\ d.percentile[r] = c.percentile[r]
      /\ d.middle[r] = c.middle[r] /\ d.band[r] = c.band[r] /\ d.slope[r] = c.slope[r]
      /\ d.filter[r] = c.filter[r] /\ d.fast[r] = c.fast[r] /\ d.slow[r] = c.slow[r]
      /\ d.adx[r] = c.adx[r] /\ d.plus[r] = c.plus[r] /\ d.minus[r] = c.minus[r]
      /\ d.rsi[r] = c.rsi[r] /\ d.roc[r] = c.roc[r] /\ d.hist[r] = c.hist[r]
      /\ d.upper[r] = c.upper[r] /\ d.lower[r] = c.lower[r]
      /\ d.consolidation[r] = c.consolidation[r] /\ d.volume[r] = c.volume[r]
  BY <1>1 DEF ColumnNames
<1>3. Swing(d.highs, r) = Swing(c.highs, r) /\ Swing(d.lows, r) = Swing(c.lows, r)
  BY <1>1, SwingSame DEF ColumnNames
<1>4. Fresh(d.ups, r) = Fresh(c.ups, r) /\ Fresh(d.downs, r) = Fresh(c.downs, r)
  BY <1>1, FreshSame DEF ColumnNames
<1> QED  BY <1>2, <1>3, <1>4 DEF Row

LEMMA RowsCut ==
  ASSUME NEW n, NEW t, NEW a, NEW b, Cut(b, t, a, n)
  PROVE  Cut(Rows(b), t, Rows(a), n)
<1>1. /\ n \in Nat /\ t \in Nat /\ t <= n /\ Len(a) = n /\ Len(b) = t
  BY CutIs
<1> DEFINE c == Columns(a)
           d == Columns(b)
           f == [i \in 1 .. n |-> Row(c, i)]
           g == [i \in 1 .. t |-> Row(d, i)]
<1>2. Rows(a) = f \o <<>> /\ Rows(b) = g \o <<>>
  BY <1>1 DEF Rows, Series
<1>3. ColumnsAgree(d, t, c, n)
  BY ColumnsCut
<1> HIDE DEF c, d
<1>4. ASSUME NEW i \in 1 .. t PROVE i \in 1 .. n /\ Row(d, i) = Row(c, i)
  <2>1. Row(d, i) = Row(c, i)
    BY <1>3, RowSame
  <2> QED  BY <1>1, <2>1
<1>5. /\ \A i \in 1 .. t : g[i] = f[i]
      /\ f = [i \in 1 .. n |-> f[i]] /\ g = [i \in 1 .. t |-> g[i]]
  BY <1>4
<1> HIDE DEF f, g
<1>6. Cut(g \o <<>>, t, f \o <<>>, n)
  BY <1>1, <1>5, SeriesCut
<1> QED  BY <1>2, <1>6

---------------------------------------------------------------------------
(* The bars up to t *)

LEMMA PrefixCut ==
  ASSUME NEW n, NEW a, IsSeries(a, n), NEW t \in 1 .. n
  PROVE  Cut(SubSeq(a, 1, t), t, a, n)
<1>1. n \in Nat /\ t \in Nat \ {0} /\ t <= n /\ 1 \in Int /\ t \in Int /\ 1 <= t
      /\ \A i \in 1 .. t : i \in 1 .. n
  BY DEF IsSeries
<1> DEFINE b == SubSeq(a, 1, t)
           S == {a[i] : i \in 1 .. t}
<1>2. \A i \in 1 .. t : a[i] \in S
  OBVIOUS
<1> HIDE DEF S
<1>3. /\ b \in Seq(S) /\ Len(b) = (IF 1 <= t THEN t - 1 + 1 ELSE 0)
      /\ \A i \in 1 .. t - 1 + 1 : b[i] = a[1 + i - 1]
  BY <1>1, <1>2, SubSeqProperties
<1> HIDE DEF b
<1>4. Len(b) = t
  BY <1>1, <1>3
<1>5. \A i \in 1 .. t : b[i] = a[i]
  BY <1>1, <1>3
<1>6. {b[i] : i \in 1 .. t} = S
  BY <1>5 DEF S
<1>7. IsSeries(b, t)
  BY <1>1, <1>3, <1>4, <1>6 DEF IsSeries
<1>8. Cut(b, t, a, n)
  BY <1>1, <1>5, <1>7 DEF Cut
<1> QED  BY <1>8 DEF b

LEMMA CutIsPrefix ==
  ASSUME NEW n, NEW t, NEW a, NEW b, Cut(b, t, a, n), t # 0
  PROVE  SubSeq(a, 1, t) = b
<1>1. IsSeries(a, n) /\ t \in 1 .. n /\ t \in Nat
  BY CutIs DEF Cut
<1> DEFINE p == SubSeq(a, 1, t)
<1>2. Cut(p, t, a, n)
  BY <1>1, PrefixCut
<1> HIDE DEF p
<1>3. /\ b = [i \in 1 .. t |-> b[i]] /\ p = [i \in 1 .. t |-> p[i]]
      /\ \A i \in 1 .. t : b[i] = a[i] /\ p[i] = a[i]
  BY <1>2, CutIs
<1>4. b = p
  BY <1>3
<1> QED  BY <1>4 DEF p

\* FeatureEngine.compute over a whole frame, cut at bar t by FeatureSet.upto, holds
\* the rows that it gives for the bars up to t alone: no feature knows the future.
THEOREM PanelKnowsNoFuture ==
  ASSUME NEW n, NEW frame, IsSeries(frame, n), NEW t \in 1 .. n
  PROVE  Upto(Compute(frame), t).rows = Compute(SubSeq(frame, 1, t)).rows
<1> DEFINE seen == SubSeq(frame, 1, t)
<1>1. Cut(seen, t, frame, n)
  BY PrefixCut
<1>2. t \in Nat \ {0}
  BY DEF IsSeries
<1> HIDE DEF seen
<1>3. SubSeq(Rows(frame), 1, t) = Rows(seen)
  BY <1>1, <1>2, RowsCut, CutIsPrefix
<1>4. Compute(frame).rows = Rows(frame) /\ Compute(seen).rows = Rows(seen)
  BY DEF Compute
<1>5. Upto(Compute(frame), t).rows = SubSeq(Rows(frame), 1, t)
  BY DEF Compute, Upto
<1> QED  BY <1>3, <1>4, <1>5 DEF seen

LEMMA MinOfPair ==
  ASSUME NEW x \in Int, NEW y \in Int
  PROVE  Min({x, y}) \in {x, y} /\ Min({x, y}) <= x /\ Min({x, y}) <= y
<1>1. \E m \in {x, y} : \A z \in {x, y} : m <= z
  <2>1. x <= y \/ y <= x
    OBVIOUS
  <2> QED  BY <2>1
<1> QED  BY <1>1 DEF Min

LEMMA FourAreFinite ==
  ASSUME NEW a, NEW b, NEW c, NEW d
  PROVE  IsFiniteSet({a, b, c, d})
<1>1. IsFiniteSet({a}) /\ IsFiniteSet({b}) /\ IsFiniteSet({c}) /\ IsFiniteSet({d})
  BY FS_Singleton
<1>2. IsFiniteSet({a} \cup {b}) /\ IsFiniteSet({c} \cup {d})
  BY <1>1, FS_Union
<1>3. IsFiniteSet(({a} \cup {b}) \cup ({c} \cup {d}))
  BY <1>2, FS_Union
<1>4. {a, b, c, d} = ({a} \cup {b}) \cup ({c} \cup {d})
  OBVIOUS
<1> QED  BY <1>3, <1>4

LEMMA WarmupIsInt == WarmupBars \in Int
<1> DEFINE S == {Feature.sma, Feature.filter, Feature.fast, Feature.slow, 2 * Feature.adx,
                 2 * Feature.rsi, Feature.macdSlow + Feature.macdSignal, 2 * Feature.atr,
                 Feature.bb, Feature.lookback, Feature.donchian + Feature.right,
                 Feature.left + Feature.right + 1, 3 * Feature.volume}
<1>1. S # {} /\ \A x \in S : x \in Int
  BY FeaturePeriods
<1>2. IsFiniteSet(S)
  <2> DEFINE A == {Feature.sma, Feature.filter, Feature.fast, Feature.slow}
             B == {2 * Feature.adx, 2 * Feature.rsi, Feature.macdSlow + Feature.macdSignal,
                   2 * Feature.atr}
             C == {Feature.bb, Feature.lookback, Feature.donchian + Feature.right,
                   Feature.left + Feature.right + 1}
             D == {3 * Feature.volume}
  <2>1. IsFiniteSet(A) /\ IsFiniteSet(B) /\ IsFiniteSet(C) /\ IsFiniteSet(D)
    BY FourAreFinite, FS_Singleton
  <2>2. S = A \cup B \cup C \cup D
    OBVIOUS
  <2> HIDE DEF A, B, C, D, S
  <2>3. IsFiniteSet(A \cup B)
    BY <2>1, FS_Union
  <2>4. IsFiniteSet(A \cup B \cup C)
    BY <2>1, <2>3, FS_Union
  <2> QED  BY <2>1, <2>2, <2>4, FS_Union
<1>3. WarmupBars = Max(S)
  BY DEF WarmupBars
<1> HIDE DEF S
<1>4. \E x \in S : \A y \in S : x >= y
  BY <1>1, <1>2, Extremes
<1> QED  BY <1>1, <1>3, <1>4 DEF Max

\* Whether bar t is warm does not depend on later bars either.
LEMMA WarmSame ==
  ASSUME NEW n, NEW frame, IsSeries(frame, n), NEW t \in 1 .. n
  PROVE  /\ WarmAt(Upto(Compute(frame), t), t) = WarmAt(Compute(SubSeq(frame, 1, t)), t)
         /\ Upto(Compute(frame), t).rows[t] = Compute(SubSeq(frame, 1, t)).rows[t]
<1> DEFINE seen == SubSeq(frame, 1, t)
           all == Upto(Compute(frame), t)
           known == Compute(seen)
<1>1. Cut(seen, t, frame, n)
  BY PrefixCut
<1>2. n \in Nat /\ t \in Nat \ {0} /\ t <= n /\ Len(frame) = n /\ Len(seen) = t
  BY <1>1, CutIs DEF IsSeries
<1>3. all.rows = known.rows
  BY PanelKnowsNoFuture
<1>4. PICK w \in Int : w = WarmupBars
  BY WarmupIsInt
<1>5. all.warmup = Min({w, n}) /\ known.warmup = Min({w, t})
  BY <1>2, <1>4 DEF Compute, Upto
<1> HIDE DEF seen, all, known
<1>6. (t - 1 >= Min({w, n})) = (t - 1 >= Min({w, t}))
  <2>1. n \in Int /\ t \in Int
    BY <1>2
  <2>2. Min({w, n}) \in {w, n} /\ Min({w, n}) <= w /\ Min({w, n}) <= n
    BY <1>4, <2>1, MinOfPair
  <2>3. Min({w, t}) \in {w, t} /\ Min({w, t}) <= w /\ Min({w, t}) <= t
    BY <1>4, <2>1, MinOfPair
  <2> QED  BY <1>2, <1>4, <2>2, <2>3
<1>7. WarmAt(all, t) = WarmAt(known, t)
  BY <1>3, <1>5, <1>6 DEF WarmAt
<1> QED  BY <1>3, <1>7 DEF all, known, seen

\* The regime detector.
LEMMA DetectSame ==
  ASSUME NEW n, NEW frame, IsSeries(frame, n), NEW t \in 1 .. n
  PROVE  Detect(Upto(Compute(frame), t), t) = Detect(Compute(SubSeq(frame, 1, t)), t)
BY WarmSame DEF Detect

\* A strategy, where the bars up to t are the history it asks for.
LEMMA ProposeSame ==
  ASSUME NEW n, NEW frame, IsSeries(frame, n), NEW t \in 1 .. n, NEW name \in Enabled,
         NEW r, t >= Config(name).minHistory
  PROVE  Propose(name, frame, Upto(Compute(frame), t), r, t)
           = Propose(name, SubSeq(frame, 1, t), Compute(SubSeq(frame, 1, t)), r, t)
<1> DEFINE seen == SubSeq(frame, 1, t)
           all == Upto(Compute(frame), t)
           known == Compute(seen)
<1>1. WarmAt(all, t) = WarmAt(known, t) /\ all.rows[t] = known.rows[t]
  BY WarmSame
<1>2. Cut(seen, t, frame, n)
  BY PrefixCut
<1>3. n \in Nat /\ t \in Nat \ {0} /\ t <= n /\ Len(frame) = n /\ Len(seen) = t
      /\ seen[t] = frame[t]
  BY <1>2, CutIs DEF IsSeries
<1>4. Config(name).minHistory \in Nat
  BY RosterAssumption DEF Config, Enabled, StrategyConfig
<1> HIDE DEF all, known, seen
<1>5. MayRun(name, frame, all, t) = MayRun(name, seen, known, t)
  BY <1>1, <1>3, <1>4 DEF MayRun
<1>6. Propose(name, frame, all, r, t) = Propose(name, seen, known, r, t)
  BY <1>1, <1>3, <1>5 DEF Propose
<1> QED  BY <1>6 DEF all, known, seen

---------------------------------------------------------------------------
(* Stages *)

Stage == {"features", "regime", "selection", "aggregation", "risk", "order", "finalise"}

\* The strategies that have not answered yet.
Asking == pending # {} /\ pending \subseteq Enabled

Staged == Over \/ Asking \/ \E x \in Stage : pending = {x}

\* Not yet past the aggregation, and not yet past the risk engine.
Unweighed == Asking \/ \E x \in {"features", "regime", "selection", "aggregation"} : pending = {x}
Unsized == Unweighed \/ pending = {"risk"}

\* Nothing is written before the node that writes it has run.
InOrder ==
  /\ pending = {"features"} => errors = {} /\ (Live(input) => features = {})
  /\ pending = {"regime"} => errors \subseteq {"features"}
  /\ pending \in {{"features"}, {"regime"}} => regime = {} /\ DOMAIN signals = {}
  /\ Unweighed => aggregated = {}
  /\ Unsized => verdict = {}
  /\ ~Over => order = {}

\* A node that raised wrote nothing, and the run takes the way out.
Isolated ==
  /\ "features" \in errors /\ Live(input) => features = {} /\ pending \in {{}, {"finalise"}}
  /\ "regime" \in errors => /\ regime = {} /\ \A n \in DOMAIN signals : signals[n] = {}
                            /\ \A d \in aggregated : ~Actionable(d)
                            /\ pending \notin {{"risk"}, {"order"}}
  /\ "aggregation" \in errors => aggregated = {} /\ pending \in {{}, {"finalise"}}
  /\ "risk" \in errors => verdict = {} /\ pending \in {{}, {"finalise"}}
  /\ {"order", "finalise"} \cap errors # {} => Over

\* An order is built of what every earlier judgement has let through.
OrderIsJudged ==
  order # {} => errors \cap (Stage \ {"features", "selection"}) = {}
                /\ ("features" \in errors => ~Live(input))

Control == Staged /\ InOrder /\ Isolated /\ OrderIsJudged /\ errors \subseteq Nodes
---------------------------------------------------------------------------
(* Nobody's vote *)

\* Without a signal the aggregator stands aside, whatever the table of weights holds.
LEMMA NobodyDecides ==
  ASSUME NEW votes, DOMAIN votes = {}, NEW table, NEW config
  PROVE  Aggregate(votes, table, config) = StandAside
<1> DEFINE score == [dir \in {"LONG", "SHORT"} |-> Score(votes, table, dir, config.method)]
<1>1. ASSUME NEW dir PROVE Score(votes, table, dir, config.method) = 0
  <2> DEFINE names == {n \in For(votes, dir) : WeightOf(n, table) > 0}
             f == [n \in names |-> WeightOf(n, table)
                     * (IF config.method = "weighted" THEN votes[n].confidence ELSE 100)]
  <2>1. DOMAIN f = {}
    BY DEF For
  <2> HIDE DEF f
  <2>2. SumFunction(f) = 0
    BY <2>1, SumNone
  <2> QED  BY <2>2 DEF Score, Total, f
<1>2. score["LONG"] + score["SHORT"] <= 0
  BY <1>1
<1> HIDE DEF score
<1> QED  BY <1>2 DEF Aggregate, score

---------------------------------------------------------------------------
(* Every step keeps the order of the nodes *)

\* A strategy is no other node.
LEMMA StrategiesApart == Enabled \cap Stage = {} /\ Enabled # {} /\ Nodes = Stage \cup Enabled
  BY RosterAssumption DEF Enabled, StrategyNames, Stage, Nodes

LEMMA InitControl == Init => Control
<1> SUFFICES ASSUME Init PROVE Control
  OBVIOUS
<1>1. pending = {"features"} /\ errors = {} /\ order = {} /\ verdict = {} /\ aggregated = {}
      /\ regime = {} /\ DOMAIN signals = {} /\ (Live(input) => features = {})
  BY DEF Init
<1>2. Staged
  BY <1>1 DEF Staged, Stage
<1>3. InOrder
  BY <1>1 DEF InOrder
<1> QED  BY <1>1, <1>2, <1>3 DEF Control, Isolated, OrderIsJudged

LEMMA FeatureControl == Control /\ FeatureNode => Control'
<1> SUFFICES ASSUME Control, FeatureNode PROVE Control'
  OBVIOUS
<1>1. /\ pending = {"features"} /\ input' = input /\ regime' = regime /\ signals' = signals
      /\ aggregated' = aggregated /\ verdict' = verdict /\ order' = order
      /\ regime = {} /\ DOMAIN signals = {} /\ aggregated = {} /\ verdict = {} /\ order = {}
      /\ errors = {} /\ (Live(input) => features = {})
  BY DEF FeatureNode, Raise, FailsAnyway, Results, Control, InOrder, Unsized, Unweighed, Over
<1>2. \/ features' # {} /\ errors' = {} /\ pending' = {"regime"}
      \/ /\ features' = features /\ errors' = {"features"}
         /\ pending' = IF features = {} THEN {"finalise"} ELSE {"regime"}
  BY <1>1 DEF FeatureNode, Raise, FailsAnyway, Results
<1>3. Staged' /\ InOrder' /\ Isolated'
  BY <1>1, <1>2 DEF Staged, InOrder, Isolated, Live, Stage
<1> QED  BY <1>1, <1>2, <1>3 DEF Control, OrderIsJudged, Nodes

LEMMA RegimeControl == Control /\ RegimeNode => Control'
<1> SUFFICES ASSUME Control, RegimeNode PROVE Control'
  OBVIOUS
<1>1. /\ pending = {"regime"} /\ input' = input /\ features' = features /\ signals' = signals
      /\ aggregated' = aggregated /\ verdict' = verdict /\ order' = order /\ pending' = Enabled
      /\ regime = {} /\ DOMAIN signals = {} /\ aggregated = {} /\ verdict = {} /\ order = {}
      /\ errors \subseteq {"features"} /\ ("features" \in errors => ~Live(input))
  BY DEF RegimeNode, Raise, FailsAnyway, Results, Control, InOrder, Isolated, Unsized, Unweighed, Over
<1>2. errors' = errors \/ (errors' = errors \cup {"regime"} /\ regime' = {})
  BY <1>1 DEF RegimeNode, Raise, FailsAnyway, Results
<1>3. Asking' /\ ~Over' /\ \A x \in Stage : pending' # {x}
  BY <1>1, StrategiesApart DEF Asking, Over
<1>4. Staged' /\ InOrder' /\ Isolated'
  BY <1>1, <1>2, <1>3 DEF Staged, InOrder, Isolated, Live, Stage
<1> QED  BY <1>1, <1>2, <1>4 DEF Control, OrderIsJudged, Nodes

LEMMA StrategyControl ==
  ASSUME NEW name \in Enabled, Control, StrategyNode(name)
  PROVE  Control'
<1>1. /\ name \in pending /\ pending' = After(name) /\ input' = input /\ features' = features
      /\ regime' = regime /\ aggregated' = aggregated /\ verdict' = verdict /\ order' = order
  BY DEF StrategyNode, Raise, FailsAnyway, Results
<1>2. /\ Asking /\ \A x \in Stage : pending # {x}
  BY <1>1, StrategiesApart DEF Control, Staged, Over, Asking
<1>3. /\ aggregated = {} /\ verdict = {} /\ order = {}
  BY <1>1, <1>2 DEF Control, InOrder, Unsized, Unweighed, Over
<1>4. /\ pending' = {"selection"} \/ Asking'
      /\ ~Over' /\ \A x \in Stage \ {"selection"} : pending' # {x}
  BY <1>1, <1>2, StrategiesApart DEF After, Asking, Over, Stage
<1>5. \/ /\ signals' = [n \in DOMAIN signals \cup {name} |->
                        IF n = name THEN Answer(name) ELSE signals[n]]
         /\ errors' = errors
      \/ signals' = signals /\ errors' = errors \cup {name}
  BY DEF StrategyNode, Raise, FailsAnyway, Results
<1>6. \A x \in Stage : x \in errors' <=> x \in errors
  BY <1>5, StrategiesApart
<1>7. /\ "features" \in errors => ~Live(input)
      /\ {"aggregation", "risk", "order", "finalise"} \cap errors = {}
  BY <1>2, <1>1 DEF Control, Isolated, Over, Stage
<1>8. "regime" \in errors => \A n \in DOMAIN signals' : signals'[n] = {}
  <2> SUFFICES ASSUME "regime" \in errors PROVE \A n \in DOMAIN signals' : signals'[n] = {}
    OBVIOUS
  <2>1. regime = {} /\ \A n \in DOMAIN signals : signals[n] = {}
    BY DEF Control, Isolated
  <2>2. Answer(name) = {}
    BY <2>1 DEF Answer
  <2> QED  BY <1>5, <2>1, <2>2
<1>9. regime = {} \/ "regime" \notin errors
  BY DEF Control, Isolated
<1>10. Staged'
  BY <1>4 DEF Staged, Stage
<1>11. InOrder'
  BY <1>1, <1>3, <1>4 DEF InOrder, Stage
<1>12. Isolated'
  BY <1>1, <1>3, <1>4, <1>6, <1>7, <1>8, <1>9 DEF Isolated, Live, Stage
<1> QED  BY <1>1, <1>3, <1>5, <1>10, <1>11, <1>12 DEF Control, OrderIsJudged, Nodes

LEMMA SelectionControl == Control /\ SelectionNode => Control'
<1> SUFFICES ASSUME Control, SelectionNode PROVE Control'
  OBVIOUS
<1>1. /\ pending = {"selection"} /\ input' = input /\ features' = features /\ signals' = signals
      /\ regime' = regime /\ aggregated' = aggregated /\ verdict' = verdict /\ order' = order
      /\ pending' = {"aggregation"}
      /\ (errors' = errors \/ errors' = errors \cup {"selection"})
  BY DEF SelectionNode, Raise, FailsAnyway, Results
<1>2. /\ aggregated = {} /\ verdict = {} /\ order = {}
  BY <1>1 DEF Control, InOrder, Unsized, Unweighed, Over
<1>3. ~Asking' /\ ~Over'
  BY <1>1, StrategiesApart DEF Asking, Over, Stage
<1>4. Staged' /\ InOrder' /\ Isolated'
  BY <1>1, <1>2, <1>3 DEF Staged, InOrder, Isolated, Live, Stage, Control, Over
<1> QED  BY <1>1, <1>2, <1>4 DEF Control, OrderIsJudged, Nodes

LEMMA AggregationControl == Control /\ AggregationNode => Control'
<1> SUFFICES ASSUME Control, AggregationNode PROVE Control'
  OBVIOUS
<1>1. /\ pending = {"aggregation"} /\ input' = input /\ features' = features
      /\ signals' = signals /\ regime' = regime /\ verdict' = verdict /\ order' = order
      /\ pending' = IF \E d \in aggregated' : Actionable(d) THEN {"risk"} ELSE {"finalise"}
  BY DEF AggregationNode, Raise, FailsAnyway, Results
<1>2. /\ aggregated = {} /\ verdict = {} /\ order = {}
  BY <1>1 DEF Control, InOrder, Unsized, Unweighed, Over
<1>3. /\ "features" \in errors => ~Live(input)
      /\ {"aggregation", "risk", "order", "finalise"} \cap errors = {}
  BY <1>1 DEF Control, Isolated, Over
<1>4. \/ aggregated' = {Decided(Proposed)} /\ errors' = errors
      \/ aggregated' = {} /\ errors' = errors \cup {"aggregation"}
  BY <1>2 DEF AggregationNode, Raise, FailsAnyway, Results
<1>5. "regime" \in errors => regime = {} /\ \A n \in DOMAIN signals : signals[n] = {}
  BY DEF Control, Isolated
<1>6. "regime" \in errors => \A d \in aggregated' : ~Actionable(d)
  <2> SUFFICES ASSUME "regime" \in errors PROVE \A d \in aggregated' : ~Actionable(d)
    OBVIOUS
  <2>1. Proposed = {}
    BY <1>5 DEF Proposed
  <2> DEFINE f == [n \in Proposed |-> SignalOf(n)]
  <2>2. DOMAIN f = {}
    BY <2>1
  <2> HIDE DEF f
  <2>3. Aggregate(f, weights, input.aggregator) = StandAside
    BY <2>2, NobodyDecides
  <2>4. Decided(Proposed) = StandAside
    BY <2>3 DEF Decided, f
  <2> QED  BY <1>4, <2>4 DEF Actionable, StandAside
<1>7. pending' = {"risk"} \/ pending' = {"finalise"}
  BY <1>1
<1>8. ~Asking' /\ ~Over' /\ ~Unweighed'
  BY <1>7, StrategiesApart DEF Asking, Over, Stage, Unweighed
<1>9. "aggregation" \in errors' => aggregated' = {} /\ pending' = {"finalise"}
  BY <1>1, <1>3, <1>4
<1>10. "regime" \in errors' => pending' = {"finalise"}
  BY <1>1, <1>4, <1>6
<1>11. Staged'
  BY <1>7 DEF Staged, Stage
<1>12. InOrder'
  BY <1>1, <1>2, <1>7, <1>8 DEF InOrder
<1>13. /\ ("features" \in errors' <=> "features" \in errors)
       /\ ("regime" \in errors' <=> "regime" \in errors)
       /\ {"risk", "order", "finalise"} \cap errors' = {}
  BY <1>3, <1>4
<1>14. Isolated'
  BY <1>1, <1>3, <1>5, <1>6, <1>9, <1>10, <1>13 DEF Isolated, Live
<1> QED  BY <1>1, <1>2, <1>4, <1>11, <1>12, <1>14 DEF Control, OrderIsJudged, Nodes

LEMMA RiskControl == Control /\ RiskNode => Control'
<1> SUFFICES ASSUME Control, RiskNode PROVE Control'
  OBVIOUS
<1>1. /\ pending = {"risk"} /\ input' = input /\ features' = features
      /\ signals' = signals /\ regime' = regime /\ aggregated' = aggregated /\ order' = order
      /\ pending' = IF \E v \in verdict' : v.approved THEN {"order"} ELSE {"finalise"}
  BY DEF RiskNode, Raise, FailsAnyway, Results
<1>2. /\ verdict = {} /\ order = {}
  BY <1>1 DEF Control, InOrder, Unsized, Over
<1>3. {"aggregation", "regime", "risk", "order", "finalise"} \cap errors = {}
      /\ ("features" \in errors => ~Live(input))
  BY <1>1 DEF Control, Isolated, Over
<1>4. errors' = errors \/ (verdict' = {} /\ errors' = errors \cup {"risk"})
  BY <1>2 DEF RiskNode, Raise, FailsAnyway, Results
<1>5. pending' = {"order"} \/ pending' = {"finalise"}
  BY <1>1
<1>6. ~Asking' /\ ~Over' /\ ~Unweighed' /\ ~Unsized'
  BY <1>5, StrategiesApart DEF Asking, Over, Stage, Unweighed, Unsized
<1>7. "risk" \in errors' => verdict' = {} /\ pending' = {"finalise"}
  BY <1>1, <1>3, <1>4
<1>8. {"aggregation", "regime", "order", "finalise"} \cap errors' = {}
      /\ ("features" \in errors' => ~Live(input'))
  BY <1>1, <1>3, <1>4
<1>9. Staged' /\ InOrder' /\ Isolated'
  BY <1>1, <1>2, <1>5, <1>6, <1>7, <1>8 DEF Staged, InOrder, Isolated, Stage
<1> QED  BY <1>1, <1>2, <1>4, <1>9 DEF Control, OrderIsJudged, Nodes

LEMMA OrderControl == Control /\ OrderNode => Control'
<1> SUFFICES ASSUME Control, OrderNode PROVE Control'
  OBVIOUS
<1>1. /\ pending = {"order"} /\ input' = input /\ features' = features
      /\ signals' = signals /\ regime' = regime /\ aggregated' = aggregated
      /\ verdict' = verdict /\ pending' = {}
  BY DEF OrderNode, Raise, FailsAnyway, Results
<1>2. order = {}
  BY <1>1 DEF Control, InOrder, Over
<1>3. {"aggregation", "regime", "risk", "order", "finalise"} \cap errors = {}
      /\ ("features" \in errors => ~Live(input))
  BY <1>1 DEF Control, Isolated, Over
<1>4. errors' = errors \/ (order' = {} /\ errors' = errors \cup {"order"})
  BY <1>2 DEF OrderNode, Raise, FailsAnyway, Results
<1>5. ~Asking' /\ Over' /\ ~Unweighed' /\ ~Unsized'
  BY <1>1 DEF Asking, Over, Unweighed, Unsized
<1>6. Staged' /\ InOrder' /\ Isolated'
  BY <1>1, <1>3, <1>4, <1>5 DEF Staged, InOrder, Isolated
<1>7. OrderIsJudged'
  BY <1>1, <1>3, <1>4 DEF OrderIsJudged, Stage
<1> QED  BY <1>1, <1>4, <1>6, <1>7 DEF Control, Nodes

LEMMA FinaliseControl == Control /\ FinaliseNode => Control'
<1> SUFFICES ASSUME Control, FinaliseNode PROVE Control'
  OBVIOUS
<1>1. /\ pending = {"finalise"} /\ input' = input /\ features' = features
      /\ signals' = signals /\ regime' = regime /\ aggregated' = aggregated
      /\ verdict' = verdict /\ order' = order /\ pending' = {}
      /\ (errors' = errors \/ errors' = errors \cup {"finalise"})
  BY DEF FinaliseNode, Raise, FailsAnyway, Results
<1>2. order = {}
  BY <1>1 DEF Control, InOrder, Over
<1>3. ~Asking' /\ Over' /\ ~Unweighed' /\ ~Unsized'
  BY <1>1 DEF Asking, Over, Unweighed, Unsized
<1>4. Staged' /\ InOrder' /\ Isolated'
  BY <1>1, <1>3 DEF Staged, InOrder, Isolated, Live, Control
<1> QED  BY <1>1, <1>2, <1>4 DEF Control, OrderIsJudged, Nodes

\* In every reachable state the nodes have run in their order, and none that raised
\* has left anything behind.
THEOREM NodesStayInOrder == Spec => []Control
<1>1. Init => Control
  BY InitControl
<1>2. Control /\ [Next]_vars => Control'
  <2> SUFFICES ASSUME Control, [Next]_vars PROVE Control'
    OBVIOUS
  <2>1. CASE UNCHANGED vars
    BY <2>1 DEF vars, Control, Staged, InOrder, Isolated, OrderIsJudged, Over, Asking,
                Unweighed, Unsized, Live
  <2>2. CASE Next
    BY <2>2, FeatureControl, RegimeControl, StrategyControl, SelectionControl,
       AggregationControl, RiskControl, OrderControl, FinaliseControl DEF Next
  <2> QED  BY <2>1, <2>2
<1> QED  BY <1>1, <1>2, PTL DEF Spec

\* An order never comes out of a run that lost its regime, its decision, its sizing,
\* or features that nobody supplied: only strategies and the selector may fail (the
\* isolated nodes of app/graph and the routes between them).
THEOREM NeverOrdersAfterFailure == Spec => []NoOrderAfterFailure
<1>1. Control => NoOrderAfterFailure
  <2> SUFFICES ASSUME Control, order # {} PROVE NoOrderAfterFailure
    BY DEF NoOrderAfterFailure
  <2>1. errors \cap (Stage \ {"features", "selection"}) = {} /\ errors \subseteq Stage \cup Enabled
    BY StrategiesApart DEF Control, OrderIsJudged
  <2>2. errors \subseteq Enabled \cup {"selection", "features"}
    BY <2>1
  <2> QED  BY <2>2 DEF NoOrderAfterFailure, Control, OrderIsJudged
<1> QED  BY <1>1, NodesStayInOrder, PTL

---------------------------------------------------------------------------
(* What a run has judged *)

\* The judgements of a run are those of the features it holds: of a frame that goes
\* beyond the bar, the panel up to the bar.
Judged ==
  /\ input \in Inputs
  /\ ~Live(input) => features = {Upto(Panels[input.frame], input.bar)}
  /\ regime # {} => regime = {Detect(f, input.bar) : f \in features}
  /\ \A n \in DOMAIN signals : n \in Enabled /\ signals[n] = Answer(n)

LEMMA InitJudged == Init => Judged
BY DEF Init, Judged

LEMMA FeatureJudged == Control /\ Judged /\ FeatureNode => Judged'
<1> SUFFICES ASSUME Control, Judged, FeatureNode PROVE Judged'
  OBVIOUS
<1>1. /\ input' = input /\ regime' = regime /\ signals' = signals
      /\ regime = {} /\ DOMAIN signals = {} /\ (features # {} => features' = features)
  BY DEF FeatureNode, Raise, FailsAnyway, Results, Control, InOrder
<1> QED  BY <1>1 DEF Judged, Live

LEMMA RegimeJudged == Control /\ Judged /\ RegimeNode => Judged'
<1> SUFFICES ASSUME Control, Judged, RegimeNode PROVE Judged'
  OBVIOUS
<1>1. /\ input' = input /\ features' = features /\ signals' = signals
      /\ regime = {} /\ DOMAIN signals = {}
      /\ (regime' = {} \/ regime' = {Detect(f, input.bar) : f \in features})
  BY DEF RegimeNode, Raise, FailsAnyway, Results, Control, InOrder
<1> QED  BY <1>1 DEF Judged, Live

LEMMA StrategyJudged ==
  ASSUME NEW name \in Enabled, Judged, StrategyNode(name)
  PROVE  Judged'
<1>1. input' = input /\ features' = features /\ regime' = regime
  BY DEF StrategyNode, Raise, FailsAnyway, Results
<1>2. \A n : Answer(n)' = Answer(n)
  BY <1>1 DEF Answer
<1>3. \/ signals' = signals
      \/ signals' = [n \in DOMAIN signals \cup {name} |->
                       IF n = name THEN Answer(name) ELSE signals[n]]
  BY DEF StrategyNode, Raise, FailsAnyway, Results
<1>4. \A n \in DOMAIN signals' : n \in Enabled /\ signals'[n] = Answer(n)
  BY <1>3 DEF Judged
<1> QED  BY <1>1, <1>2, <1>4 DEF Judged, Live

\* The nodes after them judge what is already written.
LEMMA LaterJudged ==
  ASSUME Judged, SelectionNode \/ AggregationNode \/ RiskNode \/ OrderNode \/ FinaliseNode
  PROVE  Judged'
<1>1. /\ input' = input /\ features' = features /\ regime' = regime /\ signals' = signals
  BY DEF SelectionNode, AggregationNode, RiskNode, OrderNode, FinaliseNode, Raise,
         FailsAnyway, Results
<1>2. \A n : Answer(n)' = Answer(n)
  BY <1>1 DEF Answer
<1> QED  BY <1>1, <1>2 DEF Judged, Live

LEMMA SpecJudged == Spec => [](Control /\ Judged)
<1>1. Init => Control /\ Judged
  BY InitControl, InitJudged
<1>2. Control /\ Judged /\ [Next]_vars => Judged'
  <2> SUFFICES ASSUME Control, Judged, [Next]_vars PROVE Judged'
    OBVIOUS
  <2>1. CASE UNCHANGED vars
    BY <2>1 DEF vars, Judged, Live, Answer
  <2>2. CASE Next
    BY <2>2, FeatureJudged, RegimeJudged, StrategyJudged, LaterJudged DEF Next
  <2> QED  BY <2>1, <2>2
<1> QED  BY <1>1, <1>2, NodesStayInOrder, PTL DEF Spec

LEMMA FrameOfRun ==
  ASSUME NEW in \in Inputs, ~Live(in)
  PROVE  /\ IsSeries(in.frame, Len(in.frame)) /\ in.bar \in 1 .. Len(in.frame)
         /\ Panels[in.frame] = Compute(in.frame)
         /\ Panels[UpTo(in.frame, in.bar)] = Compute(SubSeq(in.frame, 1, in.bar))
         /\ UpTo(in.frame, in.bar) = SubSeq(in.frame, 1, in.bar)
         /\ Len(UpTo(in.frame, in.bar)) = in.bar
<1>1. PICK f \in Histories, t \in Bars :
        t <= Len(f) /\ in.bar = t /\ in.frame \in {f, UpTo(f, t)}
  BY DEF Inputs
<1>2. f \in Seq(Candle) /\ t \in Nat \ {0}
  BY GraphAssumption
<1>3. IsSeries(f, Len(f)) /\ DOMAIN f = 1 .. Len(f) /\ Len(f) \in Nat
  <2> DEFINE S == {f[i] : i \in 1 .. Len(f)}
  <2>1. f = [i \in 1 .. Len(f) |-> f[i]] /\ Len(f) \in Nat
    BY <1>2
  <2>2. f \o <<>> = f /\ IsSeries(f, Len(f))
    BY <2>1, SeriesIs
  <2> QED  BY <1>2, <2>2
<1>4. t \in 1 .. Len(f)
  BY <1>1, <1>2, <1>3
<1>5. Len(SubSeq(f, 1, t)) = t
  BY <1>3, <1>4, PrefixCut, CutIs
<1>6. in.frame = f
  BY <1>1, <1>5 DEF Live, UpTo
<1>7. f \in Frames /\ UpTo(f, t) \in Frames
  BY <1>3, <1>4 DEF Frames
<1>8. Panels[f] = Compute(f) /\ Panels[UpTo(f, t)] = Compute(UpTo(f, t))
  BY <1>7 DEF Panels
<1> QED  BY <1>1, <1>3, <1>4, <1>5, <1>6, <1>8 DEF UpTo

\* Whatever the history, the periods and the parameters of the strategies: the regime
\* and the proposals of a bar are those of a caller who knows no later bar.
THEOREM NothingKnowsTheFuture == Spec => []PointInTime
<1>1. Control /\ Judged => PointInTime
  <2> SUFFICES ASSUME Judged, regime # {}, ~Live(input) PROVE PointInTime
    BY DEF PointInTime
  <2> DEFINE frame == input.frame
             bar == input.bar
             seen == SubSeq(frame, 1, bar)
             n == Len(frame)
  <2>1. /\ IsSeries(frame, n) /\ bar \in 1 .. n
        /\ Panels[frame] = Compute(frame) /\ Panels[UpTo(frame, bar)] = Compute(seen)
        /\ UpTo(frame, bar) = seen /\ Len(UpTo(frame, bar)) = bar
    BY FrameOfRun DEF Judged
  <2>2. features = {Upto(Compute(frame), bar)}
    BY <2>1 DEF Judged
  <2>3. Detect(Upto(Compute(frame), bar), bar) = Detect(Compute(seen), bar)
    BY <2>1, DetectSame
  <2>4. regime = {Detect(Compute(seen), bar)}
    BY <2>2, <2>3 DEF Judged
  <2>5. ASSUME NEW name \in DOMAIN signals, bar >= Config(name).minHistory
        PROVE  signals[name] = Propose(name, seen, Compute(seen), Detect(Compute(seen), bar), bar)
    <3> DEFINE r == Detect(Compute(seen), bar)
               p == Propose(name, frame, Upto(Compute(frame), bar), r, bar)
    <3>1. name \in Enabled /\ signals[name] = Answer(name)
      BY DEF Judged
    <3>2. Answer(name) = UNION {p}
      BY <2>2, <2>4 DEF Answer
    <3>3. p = Propose(name, seen, Compute(seen), r, bar)
      BY <2>1, <2>5, <3>1, ProposeSame
    <3> HIDE DEF p, r
    <3>4. UNION {p} = p
      OBVIOUS
    <3> QED  BY <3>1, <3>2, <3>3, <3>4 DEF r
  <2> QED  BY <2>1, <2>4, <2>5 DEF PointInTime
<1> QED  BY <1>1, SpecJudged, PTL

---------------------------------------------------------------------------
(* What the series hold *)

\* The series s has n elements, all of them in S.
Holds(s, n, S) == IsSeries(s, n) /\ \A i \in 1 .. n : s[i] \in S

\* The numbers, and a mark for the bars that have none yet.
IntsOrNone == Int \cup {NaN}
NatsOrNone == Nat \cup {NaN}

LEMMA HoldsIs ==
  ASSUME NEW n, NEW S, NEW s, Holds(s, n, S)
  PROVE  n \in Nat /\ Len(s) = n /\ DOMAIN s = 1 .. n /\ \A i \in 1 .. n : s[i] \in S
<1>1. n \in Nat /\ s \in Seq({s[i] : i \in 1 .. n}) /\ Len(s) = n
  BY DEF Holds, IsSeries
<1> QED  BY <1>1, LenProperties DEF Holds

LEMMA SeriesHolds ==
  ASSUME NEW n \in Nat, NEW S, NEW f, f = [i \in 1 .. n |-> f[i]], \A i \in 1 .. n : f[i] \in S
  PROVE  Holds(f \o <<>>, n, S)
BY SeriesIs DEF Holds

\* Natural numbers are integers.
LEMMA HoldsMore ==
  ASSUME NEW n, NEW S, NEW T, NEW s, Holds(s, n, S), S \subseteq T
  PROVE  Holds(s, n, T)
BY DEF Holds

LEMMA PricesHold ==
  ASSUME NEW n, NEW frame, Holds(frame, n, Candle)
  PROVE  /\ Holds(Close(frame), n, Nat \ {0})
         /\ Holds(High(frame), n, Nat \ {0})
         /\ Holds(Low(frame), n, Nat \ {0})
         /\ \A i \in 1 .. n : /\ Close(frame)[i] = frame[i].close
                              /\ High(frame)[i] = frame[i].high
                              /\ Low(frame)[i] = frame[i].low
<1>1. n \in Nat /\ Len(frame) = n /\ \A i \in 1 .. n : frame[i] \in Candle
  BY HoldsIs
<1> DEFINE c == [i \in 1 .. n |-> frame[i].close]
           h == [i \in 1 .. n |-> frame[i].high]
           l == [i \in 1 .. n |-> frame[i].low]
<1>2. /\ Close(frame) = c \o <<>> /\ High(frame) = h \o <<>> /\ Low(frame) = l \o <<>>
  BY <1>1 DEF Close, High, Low, Column, Series
<1>3. \A i \in 1 .. n : c[i] \in Nat \ {0} /\ h[i] \in Nat \ {0} /\ l[i] \in Nat \ {0}
  BY <1>1 DEF Candle
<1>4. /\ c = [i \in 1 .. n |-> c[i]] /\ h = [i \in 1 .. n |-> h[i]] /\ l = [i \in 1 .. n |-> l[i]]
      /\ \A i \in 1 .. n : c[i] = frame[i].close /\ h[i] = frame[i].high /\ l[i] = frame[i].low
  OBVIOUS
<1> HIDE DEF c, h, l
<1>5. c \o <<>> = c /\ h \o <<>> = h /\ l \o <<>> = l
  BY <1>1, <1>4, SeriesIs
<1>6. Holds(c \o <<>>, n, Nat \ {0}) /\ Holds(h \o <<>>, n, Nat \ {0}) /\ Holds(l \o <<>>, n, Nat \ {0})
  BY <1>1, <1>3, <1>4, SeriesHolds
<1> QED  BY <1>2, <1>4, <1>5, <1>6

LEMMA FlippedHolds ==
  ASSUME NEW n, NEW s, Holds(s, n, Int)
  PROVE  Holds(Flipped(s), n, Int)
<1>1. n \in Nat /\ Len(s) = n /\ \A i \in 1 .. n : s[i] \in Int
  BY HoldsIs
<1> DEFINE f == [i \in 1 .. n |-> -s[i]]
<1>2. Flipped(s) = f \o <<>>
  BY <1>1 DEF Flipped, Column, Series
<1>3. f = [i \in 1 .. n |-> f[i]] /\ \A i \in 1 .. n : f[i] \in Int
  BY <1>1
<1> HIDE DEF f
<1> QED  BY <1>1, <1>2, <1>3, SeriesHolds

LEMMA HundredthsHold ==
  ASSUME NEW n, NEW s, Holds(s, n, NatsOrNone)
  PROVE  Holds(Hundredths(s), n, NatsOrNone)
<1>1. n \in Nat /\ Len(s) = n /\ \A i \in 1 .. n : s[i] \in NatsOrNone
  BY HoldsIs
<1> DEFINE f == [i \in 1 .. n |-> IF Known(s[i]) THEN 100 * s[i] ELSE NaN]
<1>2. Hundredths(s) = f \o <<>>
  BY <1>1 DEF Hundredths, Scaled, Column, Series
<1>3. f = [i \in 1 .. n |-> f[i]] /\ \A i \in 1 .. n : f[i] \in NatsOrNone
  BY <1>1 DEF NatsOrNone, Known
<1> HIDE DEF f
<1> QED  BY <1>1, <1>2, <1>3, SeriesHolds

LEMMA ShiftHolds ==
  ASSUME NEW n, NEW S, NEW s, Holds(s, n, S), NEW k \in Nat
  PROVE  Holds(Shift(s, k), n, S \cup {NaN})
<1>1. n \in Nat /\ Len(s) = n /\ \A i \in 1 .. n : s[i] \in S
  BY HoldsIs
<1> DEFINE f == [i \in 1 .. n |-> IF i > k THEN s[i - k] ELSE NaN]
<1>2. Shift(s, k) = f \o <<>>
  BY <1>1 DEF Shift, Series
<1>3. \A i \in 1 .. n : i > k => i - k \in 1 .. n
  BY <1>1
<1>4. f = [i \in 1 .. n |-> f[i]] /\ \A i \in 1 .. n : f[i] \in S \cup {NaN}
  BY <1>1, <1>3
<1> HIDE DEF f
<1> QED  BY <1>1, <1>2, <1>4, SeriesHolds

LEMMA DifferenceHolds ==
  ASSUME NEW n, NEW a, NEW b, Holds(a, n, IntsOrNone), Holds(b, n, IntsOrNone)
  PROVE  Holds(Difference(a, b), n, IntsOrNone)
<1>1. n \in Nat /\ Len(a) = n /\ \A i \in 1 .. n : a[i] \in IntsOrNone /\ b[i] \in IntsOrNone
  BY HoldsIs
<1> DEFINE f == [i \in 1 .. n |-> IF Known(a[i]) /\ Known(b[i]) THEN a[i] - b[i] ELSE NaN]
<1>2. Difference(a, b) = f \o <<>>
  BY <1>1 DEF Difference, Lift, Series
<1>3. f = [i \in 1 .. n |-> f[i]] /\ \A i \in 1 .. n : f[i] \in IntsOrNone
  BY <1>1 DEF IntsOrNone, Known
<1> HIDE DEF f
<1> QED  BY <1>1, <1>2, <1>3, SeriesHolds

\* A share of a sum of magnitudes is an integer, and itself a magnitude.
LEMMA RatioIs ==
  ASSUME NEW x \in Int, NEW scale \in Nat, NEW y \in Nat
  PROVE  /\ Ratio(x, scale, y) \in IntsOrNone
         /\ x \in Nat => Ratio(x, scale, y) \in NatsOrNone
<1>1. PICK z \in Int : z = scale * x /\ (x \in Nat => z \in Nat)
  OBVIOUS
<1>2. y # 0 => z \div y \in Int /\ (z \in Nat => z \div y \in Nat)
  BY SMT
<1> QED  BY <1>1, <1>2 DEF Ratio, IntsOrNone, NatsOrNone

LEMMA QuotientHolds ==
  ASSUME NEW n, NEW a, NEW b, Holds(b, n, NatsOrNone), NEW scale \in Nat
  PROVE  /\ Holds(a, n, IntsOrNone) => Holds(Quotient(a, scale, b), n, IntsOrNone)
         /\ Holds(a, n, NatsOrNone) => Holds(Quotient(a, scale, b), n, NatsOrNone)
<1> DEFINE f == [i \in 1 .. n |-> IF Known(a[i]) /\ Known(b[i]) THEN Ratio(a[i], scale, b[i]) ELSE NaN]
<1>1. n \in Nat /\ \A i \in 1 .. n : b[i] \in NatsOrNone
  BY HoldsIs
<1>2. f = [i \in 1 .. n |-> f[i]]
  OBVIOUS
<1>3. Len(a) = n => Quotient(a, scale, b) = f \o <<>>
  BY DEF Quotient, Lift, Series
<1>4. ASSUME Holds(a, n, IntsOrNone) PROVE Holds(Quotient(a, scale, b), n, IntsOrNone)
  <2>1. Len(a) = n /\ \A i \in 1 .. n : a[i] \in IntsOrNone
    BY <1>4, HoldsIs
  <2>2. ASSUME NEW i \in 1 .. n PROVE f[i] \in IntsOrNone
    <3>1. Known(a[i]) /\ Known(b[i]) => Ratio(a[i], scale, b[i]) \in IntsOrNone
      BY <1>1, <2>1, RatioIs DEF IntsOrNone, NatsOrNone, Known
    <3> QED  BY <3>1 DEF IntsOrNone
  <2> HIDE DEF f
  <2> QED  BY <1>1, <1>2, <1>3, <2>1, <2>2, SeriesHolds
<1>5. ASSUME Holds(a, n, NatsOrNone) PROVE Holds(Quotient(a, scale, b), n, NatsOrNone)
  <2>1. Len(a) = n /\ \A i \in 1 .. n : a[i] \in NatsOrNone
    BY <1>5, HoldsIs
  <2>2. ASSUME NEW i \in 1 .. n PROVE f[i] \in NatsOrNone
    <3>1. Known(a[i]) /\ Known(b[i]) => Ratio(a[i], scale, b[i]) \in NatsOrNone
      BY <1>1, <2>1, RatioIs DEF NatsOrNone, Known
    <3> QED  BY <3>1 DEF NatsOrNone
  <2> HIDE DEF f
  <2> QED  BY <1>1, <1>2, <1>3, <2>1, <2>2, SeriesHolds
<1> QED  BY <1>4, <1>5

\* A full window of known values.
LEMMA FullWindow ==
  ASSUME NEW n, NEW S, NEW s, Holds(s, n, S \cup {NaN}), NEW w \in Nat \ {0},
         NEW i \in 1 .. n, Full(s, w, i)
  PROVE  /\ Holds(Window(s, w, i), w, S)
         /\ \A j \in 1 .. w : Window(s, w, i)[j] = s[i - w + j]
<1>1. n \in Nat /\ i \in Nat /\ i <= n /\ \A j \in 1 .. n : s[j] \in S \cup {NaN}
  BY HoldsIs
<1>2. PICK k \in Nat \ {0} : k = i - w + 1 /\ k <= i
  BY <1>1 DEF Full
<1>3. \A j \in k .. i : j \in 1 .. n /\ s[j] \in S
  BY <1>1, <1>2 DEF Full, Known
<1> DEFINE p == SubSeq(s, k, i)
<1>4. /\ p \in Seq(S) /\ Len(p) = (IF k <= i THEN i - k + 1 ELSE 0)
      /\ \A j \in 1 .. i - k + 1 : p[j] = s[k + j - 1]
  BY <1>1, <1>2, <1>3, SubSeqProperties
<1> HIDE DEF p
<1>5. Len(p) = w /\ \A j \in 1 .. w : p[j] = s[k + j - 1]
  BY <1>1, <1>2, <1>4
<1>6. p = [j \in 1 .. w |-> p[j]] /\ \A j \in 1 .. w : p[j] \in S
  BY <1>4, <1>5, LenProperties
<1>7. p \o <<>> = p
  BY <1>6, SeriesIs
<1>8. Holds(p, w, S)
  BY <1>6, <1>7, SeriesHolds
<1>9. Window(s, w, i) = p
  BY <1>2 DEF Window, p
<1>10. \A j \in 1 .. w : k + j - 1 = i - w + j
  BY <1>1, <1>2
<1> QED  BY <1>5, <1>8, <1>9, <1>10

LEMMA SmaHolds ==
  ASSUME NEW n, NEW s, Holds(s, n, IntsOrNone), NEW w \in Nat \ {0}
  PROVE  Holds(Sma(s, w), n, IntsOrNone)
<1>1. n \in Nat /\ Len(s) = n
  BY HoldsIs
<1> DEFINE f == [i \in 1 .. n |-> IF Full(s, w, i) THEN (100 * Sum(Window(s, w, i))) \div w ELSE NaN]
<1>2. Sma(s, w) = f \o <<>>
  BY <1>1 DEF Sma, Rolling, Series, Full, Window
<1>3. ASSUME NEW i \in 1 .. n, Full(s, w, i) PROVE (100 * Sum(Window(s, w, i))) \div w \in Int
  <2> DEFINE p == Window(s, w, i)
  <2>1. Holds(p, w, Int)
    BY <1>3, FullWindow DEF IntsOrNone
  <2> HIDE DEF p
  <2>2. DOMAIN p = 1 .. w /\ \A j \in DOMAIN p : p[j] \in Int
    BY <2>1, HoldsIs
  <2>3. IsFiniteSet(DOMAIN p)
    BY <2>2, FS_Interval
  <2>4. PICK x \in Int : x = Sum(p)
    BY <2>2, <2>3, SumTyped DEF Sum
  <2> QED  BY <2>4 DEF p
<1>4. f = [i \in 1 .. n |-> f[i]] /\ \A i \in 1 .. n : f[i] \in IntsOrNone
  BY <1>3 DEF IntsOrNone
<1> HIDE DEF f
<1> QED  BY <1>1, <1>2, <1>4, SeriesHolds

\* The extremes of a window are among its values.
LEMMA WindowExtremes ==
  ASSUME NEW p, NEW w \in Nat \ {0}, Holds(p, w, Int)
  PROVE  /\ LargestOf(p) \in Int /\ \A j \in 1 .. w : LargestOf(p) >= p[j]
         /\ SmallestOf(p) \in Int /\ \A j \in 1 .. w : SmallestOf(p) <= p[j]
<1>1. DOMAIN p = 1 .. w /\ \A j \in 1 .. w : p[j] \in Int
  BY HoldsIs
<1> DEFINE S == {p[j] : j \in 1 .. w}
<1>2. S # {} /\ (\A x \in S : x \in Int) /\ \A j \in 1 .. w : p[j] \in S
  <2>1. 1 \in 1 .. w
    OBVIOUS
  <2> QED  BY <1>1, <2>1
<1>3. IsFiniteSet(S)
  <2>1. IsFiniteSet(1 .. w)
    BY FS_Interval
  <2> DEFINE m == [j \in 1 .. w |-> p[j]]
  <2>2. m \in Surjection(1 .. w, S)
    BY DEF Surjection
  <2> HIDE DEF m, S
  <2> QED  BY <2>1, <2>2, FS_Surjection
<1>4. LargestOf(p) = Max(S) /\ SmallestOf(p) = Min(S)
  BY <1>1 DEF LargestOf, SmallestOf, ToSet
<1> HIDE DEF S
<1>5. (\E x \in S : \A y \in S : x <= y) /\ (\E x \in S : \A y \in S : x >= y)
  BY <1>2, <1>3, Extremes
<1>6. Max(S) \in S /\ (\A y \in S : Max(S) >= y) /\ Min(S) \in S /\ \A y \in S : Min(S) <= y
  BY <1>5 DEF Max, Min
<1> QED  BY <1>2, <1>4, <1>6

\* The channel, and that its upper bound is no lower than its lower one.
LEMMA ChannelHolds ==
  ASSUME NEW n, NEW frame, Holds(frame, n, Candle)
  PROVE  /\ Holds(Upper(frame), n, IntsOrNone) /\ Holds(Lower(frame), n, IntsOrNone)
         /\ \A i \in 1 .. n : Known(Upper(frame)[i]) /\ Known(Lower(frame)[i]) =>
                                Lower(frame)[i] <= Upper(frame)[i]
<1>0. n \in Nat /\ \A i \in 1 .. n : frame[i] \in Candle
  BY HoldsIs
<1> DEFINE h == Shift(High(frame), 1)
           l == Shift(Low(frame), 1)
<1>1. Holds(h, n, IntsOrNone) /\ Holds(l, n, IntsOrNone)
  <2>1. Holds(High(frame), n, Int) /\ Holds(Low(frame), n, Int)
    BY PricesHold, HoldsMore
  <2> QED  BY <2>1, ShiftHolds DEF IntsOrNone
<1>2. \A i \in 1 .. n : Known(h[i]) /\ Known(l[i]) => l[i] <= h[i]
  <2>1. /\ Len(High(frame)) = n /\ Len(Low(frame)) = n
        /\ \A i \in 1 .. n : High(frame)[i] = frame[i].high /\ Low(frame)[i] = frame[i].low
    BY PricesHold, HoldsIs
  <2> DEFINE f == [i \in 1 .. n |-> IF i > 1 THEN High(frame)[i - 1] ELSE NaN]
             g == [i \in 1 .. n |-> IF i > 1 THEN Low(frame)[i - 1] ELSE NaN]
  <2>2. h = f \o <<>> /\ l = g \o <<>>
    BY <2>1 DEF Shift, Series
  <2>3. f = [i \in 1 .. n |-> f[i]] /\ g = [i \in 1 .. n |-> g[i]]
    OBVIOUS
  <2>4. ASSUME NEW i \in 1 .. n, Known(f[i]) PROVE g[i] <= f[i]
    <3>1. i > 1
      BY <2>4 DEF Known
    <3>2. i - 1 \in 1 .. n
      BY <1>0, <3>1
    <3>3. f[i] = frame[i - 1].high /\ g[i] = frame[i - 1].low
      BY <2>1, <3>1, <3>2
    <3> QED  BY <1>0, <3>2, <3>3 DEF Candle
  <2> HIDE DEF f, g
  <2>5. h = f /\ l = g
    BY <1>0, <2>2, <2>3, SeriesIs
  <2> QED  BY <2>4, <2>5
<1> HIDE DEF h, l
<1>3. PICK w \in Nat \ {0} : w = Feature.donchian
  BY FeaturePeriods
<1> DEFINE f == [i \in 1 .. n |-> IF Full(h, w, i) THEN LargestOf(Window(h, w, i)) ELSE NaN]
           g == [i \in 1 .. n |-> IF Full(l, w, i) THEN SmallestOf(Window(l, w, i)) ELSE NaN]
<1>4. Upper(frame) = f \o <<>> /\ Lower(frame) = g \o <<>>
  <2>1. Len(h) = n /\ Len(l) = n
    BY <1>1, HoldsIs
  <2> QED  BY <1>3, <2>1 DEF Upper, Lower, Rolling, Series, Full, Window, h, l
<1>5. ASSUME NEW i \in 1 .. n
      PROVE  /\ Full(h, w, i) => LargestOf(Window(h, w, i)) \in Int
             /\ Full(l, w, i) => SmallestOf(Window(l, w, i)) \in Int
  <2>1. ASSUME Full(h, w, i) PROVE LargestOf(Window(h, w, i)) \in Int
    <3>1. Holds(Window(h, w, i), w, Int)
      BY <1>1, <2>1, FullWindow DEF IntsOrNone
    <3> QED  BY <3>1, WindowExtremes
  <2>2. ASSUME Full(l, w, i) PROVE SmallestOf(Window(l, w, i)) \in Int
    <3>1. Holds(Window(l, w, i), w, Int)
      BY <1>1, <2>2, FullWindow DEF IntsOrNone
    <3> QED  BY <3>1, WindowExtremes
  <2> QED  BY <2>1, <2>2
<1>6. ASSUME NEW i \in 1 .. n, Full(h, w, i), Full(l, w, i)
      PROVE  SmallestOf(Window(l, w, i)) <= LargestOf(Window(h, w, i))
  <2>1. /\ Holds(Window(h, w, i), w, Int) /\ Window(h, w, i)[w] = h[i - w + w]
        /\ Holds(Window(l, w, i), w, Int) /\ Window(l, w, i)[w] = l[i - w + w]
    <3>1. w \in 1 .. w
      OBVIOUS
    <3>2. Holds(h, n, Int \cup {NaN}) /\ Holds(l, n, Int \cup {NaN})
      BY <1>1 DEF IntsOrNone
    <3>3. Holds(Window(h, w, i), w, Int) /\ \A j \in 1 .. w : Window(h, w, i)[j] = h[i - w + j]
      BY <1>6, <3>2, FullWindow
    <3>4. Holds(Window(l, w, i), w, Int) /\ \A j \in 1 .. w : Window(l, w, i)[j] = l[i - w + j]
      BY <1>6, <3>2, FullWindow
    <3> QED  BY <3>1, <3>3, <3>4
  <2>2. i \in i - w + 1 .. i /\ i - w + w = i
    BY <1>0
  <2>3. l[i] <= h[i] /\ l[i] \in Int /\ h[i] \in Int
    <3>1. Known(h[i]) /\ Known(l[i])
      BY <1>6, <2>2 DEF Full
    <3>2. h[i] \in IntsOrNone /\ l[i] \in IntsOrNone
      BY <1>1, HoldsIs
    <3> QED  BY <1>2, <3>1, <3>2 DEF IntsOrNone, Known
  <2>4. /\ LargestOf(Window(h, w, i)) \in Int /\ LargestOf(Window(h, w, i)) >= h[i]
        /\ SmallestOf(Window(l, w, i)) \in Int /\ SmallestOf(Window(l, w, i)) <= l[i]
    <3>1. w \in 1 .. w
      OBVIOUS
    <3>2. /\ LargestOf(Window(h, w, i)) \in Int
          /\ LargestOf(Window(h, w, i)) >= Window(h, w, i)[w]
      BY <2>1, <3>1, WindowExtremes
    <3>3. /\ SmallestOf(Window(l, w, i)) \in Int
          /\ SmallestOf(Window(l, w, i)) <= Window(l, w, i)[w]
      BY <2>1, <3>1, WindowExtremes
    <3> QED  BY <2>1, <2>2, <3>2, <3>3
  <2> QED  BY <2>3, <2>4
<1>7. /\ f = [i \in 1 .. n |-> f[i]] /\ g = [i \in 1 .. n |-> g[i]]
      /\ \A i \in 1 .. n : f[i] \in IntsOrNone /\ g[i] \in IntsOrNone
  BY <1>5 DEF IntsOrNone
<1>8. \A i \in 1 .. n : Known(f[i]) /\ Known(g[i]) => g[i] <= f[i]
  BY <1>6 DEF Known
<1> HIDE DEF f, g
<1>9. /\ Holds(f \o <<>>, n, IntsOrNone) /\ Holds(g \o <<>>, n, IntsOrNone)
      /\ f \o <<>> = f /\ g \o <<>> = g
  BY <1>0, <1>7, SeriesHolds, SeriesIs
<1> QED  BY <1>4, <1>8, <1>9

\* The true range of a bar is no less than what lies between its high and its low.
LEMMA TrueRangeHolds ==
  ASSUME NEW n, NEW frame, Holds(frame, n, Candle)
  PROVE  Holds(TrueRange(frame), n, NatsOrNone)
<1>1. n \in Nat /\ Len(frame) = n /\ \A i \in 1 .. n : frame[i] \in Candle
  BY HoldsIs
<1> DEFINE f == [i \in 1 .. n |-> IF i = 1 THEN frame[i].high - frame[i].low
                                  ELSE RangeFrom(frame[i-1], frame[i])]
<1>2. TrueRange(frame) = f \o <<>>
  BY <1>1 DEF TrueRange, Series
<1>3. ASSUME NEW x \in Candle, NEW y \in Candle PROVE RangeFrom(x, y) \in Nat
  <2>1. PICK a \in Nat, b \in Int, c \in Int :
          a = y.high - y.low /\ b = Gap(y.high, x.close) /\ c = Gap(y.low, x.close)
    BY DEF Candle, Gap, Larger
  <2>2. IsFiniteSet({a, b, c})
    <3>1. IsFiniteSet({a, b, c, c})
      BY FourAreFinite
    <3>2. {a, b, c, c} = {a, b, c}
      OBVIOUS
    <3> QED  BY <3>1, <3>2
  <2>3. \E z \in {a, b, c} : \A t \in {a, b, c} : z >= t
    <3>1. {a, b, c} # {} /\ \A t \in {a, b, c} : t \in Int
      OBVIOUS
    <3> QED  BY <2>2, <3>1, Extremes
  <2>4. Max({a, b, c}) \in {a, b, c} /\ Max({a, b, c}) >= a
    BY <2>3 DEF Max
  <2>5. RangeFrom(x, y) = Max({a, b, c})
    BY <2>1 DEF RangeFrom
  <2> QED  BY <2>4, <2>5
<1>4. ASSUME NEW i \in 1 .. n PROVE f[i] \in NatsOrNone
  <2>1. i = 1 \/ i - 1 \in 1 .. n
    BY <1>1
  <2>2. frame[i].high - frame[i].low \in Nat
    BY <1>1 DEF Candle
  <2> QED  BY <1>1, <1>3, <2>1, <2>2 DEF NatsOrNone
<1>5. f = [i \in 1 .. n |-> f[i]]
  OBVIOUS
<1> HIDE DEF f
<1> QED  BY <1>1, <1>2, <1>4, <1>5, SeriesHolds

\* Smoothing magnitudes gives magnitudes.
LEMMA SmoothHolds ==
  ASSUME NEW n, NEW s, Holds(s, n, NatsOrNone), NEW num \in Nat, NEW den \in Nat \ {0},
         num <= den, NEW least
  PROVE  Holds(Smooth(s, num, den, least), n, NatsOrNone)
<1>1. n \in Nat /\ Len(s) = n /\ \A i \in 1 .. n : s[i] \in NatsOrNone
  BY HoldsIs
<1>2. PICK l : /\ IsLevel(s, num, den, n, l)
               /\ Smooth(s, num, den, least) = [i \in 1 .. n |-> Levelled(s, least, l, i)] \o <<>>
  <2>1. PICK c : /\ IsLevel(s, num, den, Len(s), c)
                 /\ Smooth(s, num, den, least) = [i \in 1 .. Len(s) |-> Levelled(s, least, c, i)] \o <<>>
    <3>1. Len(s) \in Nat
      BY <1>1
    <3> QED  BY <3>1, SmoothIs, Zenon
  <2> QED  BY <1>1, <2>1
<1> DEFINE T == {i \in Nat : i \in 1 .. n /\ l[i] \notin NatsOrNone}
<1>3. T = {}
  <2> SUFFICES ASSUME T # {} PROVE FALSE
    OBVIOUS
  <2>1. PICK i \in T : \A k \in T : i <= k
    <3>1. T \in SUBSET Nat
      OBVIOUS
    <3> HIDE DEF T
    <3> QED  BY <3>1, LeastNumber
  <2>2. i \in 1 .. n /\ l[i] \notin NatsOrNone /\ i \in Nat
    OBVIOUS
  <2>3. i = 1 \/ l[i - 1] \in NatsOrNone
    <3> SUFFICES ASSUME i # 1 PROVE l[i - 1] \in NatsOrNone
      OBVIOUS
    <3>1. i - 1 \in 1 .. n /\ i - 1 \in Nat /\ ~ (i <= i - 1)
      BY <1>1, <2>2
    <3>2. i - 1 \notin T
      BY <2>1, <3>1
    <3> QED  BY <3>1, <3>2
  <2> HIDE DEF T
  <2>4. l[i] = Smoothed(s, num, den, l, i)
    BY <1>2, <2>2 DEF IsLevel
  <2>5. ASSUME NEW x \in Nat, NEW y \in Nat PROVE ((den - num) * x + num * y) \div den \in Nat
    <3>1. PICK d \in Nat : d = den - num
      OBVIOUS
    <3>2. PICK u \in Nat, v \in Nat : u = d * x /\ v = num * y
      OBVIOUS
    <3>3. (u + v) \div den \in Nat
      BY SMT
    <3> QED  BY <3>1, <3>2, <3>3
  <2>6. Smoothed(s, num, den, l, i) \in NatsOrNone
    <3>1. s[i] \in NatsOrNone
      BY <1>1, <2>2
    <3>2. CASE ~Known(s[i])
      BY <3>2 DEF Smoothed, NatsOrNone
    <3>3. CASE Known(s[i]) /\ (i = 1 \/ ~Known(l[i - 1]))
      BY <3>1, <3>3 DEF Smoothed, Known
    <3>4. CASE Known(s[i]) /\ i # 1 /\ Known(l[i - 1])
      <4>1. s[i] \in Nat /\ l[i - 1] \in Nat
        BY <2>3, <3>1, <3>4 DEF NatsOrNone, Known
      <4>2. Smoothed(s, num, den, l, i) = ((den - num) * l[i - 1] + num * s[i]) \div den
        BY <3>4 DEF Smoothed
      <4> QED  BY <2>5, <4>1, <4>2 DEF NatsOrNone
    <3> QED  BY <3>2, <3>3, <3>4
  <2> QED  BY <2>2, <2>4, <2>6
<1>4. \A i \in 1 .. n : l[i] \in NatsOrNone
  BY <1>3
<1> DEFINE f == [i \in 1 .. n |-> Levelled(s, least, l, i)]
<1>5. f = [i \in 1 .. n |-> f[i]] /\ \A i \in 1 .. n : f[i] \in NatsOrNone
  BY <1>4 DEF Levelled, NatsOrNone
<1> HIDE DEF f
<1> QED  BY <1>1, <1>2, <1>5, SeriesHolds DEF f

LEMMA EmaHolds ==
  ASSUME NEW n, NEW s, Holds(s, n, NatsOrNone), NEW w \in Nat \ {0}
  PROVE  Holds(Ema(s, w), n, NatsOrNone) /\ Holds(Wilder(s, w), n, NatsOrNone)
<1>1. PICK d \in Nat \ {0} : d = w + 1 /\ 2 <= d
  OBVIOUS
<1>2. 2 \in Nat /\ 1 \in Nat /\ 1 <= w
  OBVIOUS
<1> QED  BY <1>1, <1>2, SmoothHolds DEF Ema, Wilder

LEMMA AtrHolds ==
  ASSUME NEW n, NEW frame, Holds(frame, n, Candle), NEW w \in Nat \ {0}
  PROVE  Holds(Atr(frame, w), n, NatsOrNone)
BY TrueRangeHolds, HundredthsHold, EmaHolds DEF Atr

LEMMA MovesHold ==
  ASSUME NEW n, NEW frame, Holds(frame, n, Candle)
  PROVE  /\ Holds(DirectionalMove(frame, UpMove, DownMove), n, NatsOrNone)
         /\ Holds(DirectionalMove(frame, DownMove, UpMove), n, NatsOrNone)
<1>1. n \in Nat /\ Len(frame) = n /\ \A i \in 1 .. n : frame[i] \in Candle
  BY HoldsIs
<1> DEFINE f == [i \in 1 .. n |-> IF i > 1 /\ UpMove(frame[i], frame[i-1])
                                              > Larger(DownMove(frame[i], frame[i-1]), 0)
                                  THEN 100 * UpMove(frame[i], frame[i-1]) ELSE 0]
           g == [i \in 1 .. n |-> IF i > 1 /\ DownMove(frame[i], frame[i-1])
                                              > Larger(UpMove(frame[i], frame[i-1]), 0)
                                  THEN 100 * DownMove(frame[i], frame[i-1]) ELSE 0]
<1>2. /\ DirectionalMove(frame, UpMove, DownMove) = f \o <<>>
      /\ DirectionalMove(frame, DownMove, UpMove) = g \o <<>>
  BY <1>1 DEF DirectionalMove, Series
<1>3. ASSUME NEW i \in 1 .. n PROVE f[i] \in NatsOrNone /\ g[i] \in NatsOrNone
  <2>1. CASE i = 1
    BY <2>1 DEF NatsOrNone
  <2>2. CASE i # 1
    <3>1. i - 1 \in 1 .. n
      BY <1>1, <2>2
    <3>2. PICK u \in Int, d \in Int : /\ u = UpMove(frame[i], frame[i-1])
                                      /\ d = DownMove(frame[i], frame[i-1])
      <4>1. frame[i] \in Candle /\ frame[i-1] \in Candle
        BY <1>1, <3>1
      <4>2. /\ UpMove(frame[i], frame[i-1]) \in Int /\ DownMove(frame[i], frame[i-1]) \in Int
        BY <4>1 DEF UpMove, DownMove, Candle
      <4> QED  BY <4>2
    <3>3. /\ u > Larger(d, 0) => 100 * u \in Nat
          /\ d > Larger(u, 0) => 100 * d \in Nat
      BY DEF Larger
    <3> QED  BY <3>2, <3>3 DEF NatsOrNone
  <2> QED  BY <2>1, <2>2
<1>4. f = [i \in 1 .. n |-> f[i]] /\ g = [i \in 1 .. n |-> g[i]]
  OBVIOUS
<1> HIDE DEF f, g
<1> QED  BY <1>1, <1>2, <1>3, <1>4, SeriesHolds

LEMMA DiHolds ==
  ASSUME NEW n, NEW frame, Holds(frame, n, Candle), NEW w \in Nat \ {0}
  PROVE  Holds(DiPlus(frame, w), n, NatsOrNone) /\ Holds(DiMinus(frame, w), n, NatsOrNone)
<1> DEFINE plus == DirectionalMove(frame, UpMove, DownMove)
           minus == DirectionalMove(frame, DownMove, UpMove)
<1>1. /\ DiPlus(frame, w) = Quotient(Wilder(plus, w), 100, Atr(frame, w))
      /\ DiMinus(frame, w) = Quotient(Wilder(minus, w), 100, Atr(frame, w))
  BY DEF DiPlus, DiMinus, DirectionalIndex
<1>2. Holds(plus, n, NatsOrNone) /\ Holds(minus, n, NatsOrNone)
  BY MovesHold
<1> HIDE DEF plus, minus
<1>3. Holds(Wilder(plus, w), n, NatsOrNone) /\ Holds(Wilder(minus, w), n, NatsOrNone)
  BY <1>2, EmaHolds
<1>4. Holds(Atr(frame, w), n, NatsOrNone) /\ 100 \in Nat
  BY AtrHolds
<1> QED  BY <1>1, <1>3, <1>4, QuotientHolds

LEMMA AdxHolds ==
  ASSUME NEW n, NEW frame, Holds(frame, n, Candle), NEW w \in Nat \ {0}
  PROVE  Holds(Adx(frame, w), n, NatsOrNone)
<1> DEFINE a == DiPlus(frame, w)
           b == DiMinus(frame, w)
<1>1. Holds(a, n, NatsOrNone) /\ Holds(b, n, NatsOrNone)
  BY DiHolds
<1>2. Adx(frame, w) = Wilder(Imbalance(a, b), w)
  BY DEF Adx
<1> HIDE DEF a, b
<1>3. n \in Nat /\ Len(a) = n /\ \A i \in 1 .. n : a[i] \in NatsOrNone /\ b[i] \in NatsOrNone
  BY <1>1, HoldsIs
<1> DEFINE f == [i \in 1 .. n |-> IF Known(a[i]) /\ Known(b[i])
                                  THEN Ratio(Gap(a[i], b[i]), 100, a[i] + b[i]) ELSE NaN]
<1>4. Imbalance(a, b) = f \o <<>>
  BY <1>3 DEF Imbalance, Lift, Series
<1>5. ASSUME NEW i \in 1 .. n PROVE f[i] \in NatsOrNone
  <2>1. CASE Known(a[i]) /\ Known(b[i])
    <3>1. PICK x \in Nat, y \in Nat, g \in Nat : x = a[i] /\ y = a[i] + b[i] /\ g = Gap(a[i], b[i])
      BY <1>3, <2>1 DEF NatsOrNone, Known, Gap, Larger
    <3>2. Ratio(g, 100, y) \in NatsOrNone
      BY RatioIs
    <3> QED  BY <2>1, <3>1, <3>2
  <2>2. CASE ~ (Known(a[i]) /\ Known(b[i]))
    BY <2>2 DEF NatsOrNone
  <2> QED  BY <2>1, <2>2
<1>6. f = [i \in 1 .. n |-> f[i]]
  OBVIOUS
<1> HIDE DEF f
<1>7. Holds(Imbalance(a, b), n, NatsOrNone)
  BY <1>3, <1>4, <1>5, <1>6, SeriesHolds
<1> QED  BY <1>2, <1>7, EmaHolds

LEMMA ChangeHolds ==
  ASSUME NEW n, NEW s, Holds(s, n, Nat \ {0}), NEW k \in Nat
  PROVE  /\ Holds(Change(s, k), n, IntsOrNone)
         /\ Holds(Shift(s, k), n, NatsOrNone)
<1>1. Holds(s, n, IntsOrNone) /\ Holds(Shift(s, k), n, (Nat \ {0}) \cup {NaN})
  BY HoldsMore, ShiftHolds DEF IntsOrNone
<1>2. Holds(Shift(s, k), n, IntsOrNone) /\ Holds(Shift(s, k), n, NatsOrNone)
  BY <1>1, HoldsMore DEF IntsOrNone, NatsOrNone
<1> QED  BY <1>1, <1>2, DifferenceHolds DEF Change

LEMMA GainsHold ==
  ASSUME NEW n, NEW s, Holds(s, n, IntsOrNone), NEW sign \in {1, -1}
  PROVE  Holds(Gains(s, sign), n, NatsOrNone)
<1>1. n \in Nat /\ Len(s) = n /\ \A i \in 1 .. n : s[i] \in IntsOrNone
  BY HoldsIs
<1> DEFINE f == [i \in 1 .. n |-> IF Known(s[i]) THEN 100 * Larger(sign * s[i], 0) ELSE NaN]
<1>2. Gains(s, sign) = f \o <<>>
  BY <1>1 DEF Gains, Column, Series
<1>3. ASSUME NEW x \in Int PROVE 100 * Larger(sign * x, 0) \in Nat
  <2>1. sign * x \in Int
    OBVIOUS
  <2>2. PICK y \in Nat : y = Larger(sign * x, 0)
    BY <2>1 DEF Larger
  <2> QED  BY <2>2
<1>4. f = [i \in 1 .. n |-> f[i]] /\ \A i \in 1 .. n : f[i] \in NatsOrNone
  BY <1>1, <1>3 DEF IntsOrNone, NatsOrNone, Known
<1> HIDE DEF f
<1> QED  BY <1>1, <1>2, <1>4, SeriesHolds

LEMMA RsiHolds ==
  ASSUME NEW n, NEW s, Holds(s, n, Nat \ {0}), NEW w \in Nat \ {0}
  PROVE  Holds(Rsi(s, w), n, NatsOrNone)
<1> DEFINE a == Wilder(Gains(Change(s, 1), 1), w)
           b == Wilder(Gains(Change(s, 1), -1), w)
<1>1. Holds(a, n, NatsOrNone) /\ Holds(b, n, NatsOrNone)
  <2>1. Holds(Change(s, 1), n, IntsOrNone)
    BY ChangeHolds
  <2>2. Holds(Gains(Change(s, 1), 1), n, NatsOrNone) /\ Holds(Gains(Change(s, 1), -1), n, NatsOrNone)
    BY <2>1, GainsHold
  <2> QED  BY <2>2, EmaHolds
<1>2. Rsi(s, w) = Strength(a, b)
  BY DEF Rsi
<1> HIDE DEF a, b
<1>3. n \in Nat /\ Len(a) = n /\ \A i \in 1 .. n : a[i] \in NatsOrNone /\ b[i] \in NatsOrNone
  BY <1>1, HoldsIs
<1> DEFINE f == [i \in 1 .. n |-> IF Known(a[i]) /\ Known(b[i])
                                  THEN IF a[i] + b[i] = 0 THEN 50
                                       ELSE (100 * a[i]) \div (a[i] + b[i])
                                  ELSE NaN]
<1>4. Strength(a, b) = f \o <<>>
  BY <1>3 DEF Strength, Lift, Series
<1>5. ASSUME NEW i \in 1 .. n PROVE f[i] \in NatsOrNone
  <2>1. CASE Known(a[i]) /\ Known(b[i])
    <3>1. PICK x \in Nat, y \in Nat : x = 100 * a[i] /\ y = a[i] + b[i]
      BY <1>3, <2>1 DEF NatsOrNone, Known
    <3>2. y # 0 => x \div y \in Nat
      BY SMT
    <3> QED  BY <2>1, <3>1, <3>2 DEF NatsOrNone
  <2>2. CASE ~ (Known(a[i]) /\ Known(b[i]))
    BY <2>2 DEF NatsOrNone
  <2> QED  BY <2>1, <2>2
<1>6. f = [i \in 1 .. n |-> f[i]]
  OBVIOUS
<1> HIDE DEF f
<1> QED  BY <1>2, <1>3, <1>4, <1>5, <1>6, SeriesHolds

LEMMA RateOfChangeHolds ==
  ASSUME NEW n, NEW s, Holds(s, n, Nat \ {0}), NEW w \in Nat
  PROVE  Holds(RateOfChange(s, w), n, IntsOrNone)
<1>1. Holds(Change(s, w), n, IntsOrNone) /\ Holds(Shift(s, w), n, NatsOrNone) /\ 10000 \in Nat
  BY ChangeHolds
<1> QED  BY <1>1, QuotientHolds DEF RateOfChange

---------------------------------------------------------------------------
(* The median *)

\* Of finitely many values one is the k-th smallest.
LEMMA RankedIs ==
  ASSUME NEW s, NEW bars, IsFiniteSet(bars), \A j \in bars : s[j] \in Nat,
         NEW k \in 1 .. Cardinality(bars)
  PROVE  Ranked(s, bars, k) \in Nat
<1> DEFINE V == {s[j] : j \in bars}
           upto(x) == {j \in bars : s[j] <= x}
           below(x) == {j \in bars : s[j] < x}
           T == {x \in V : Cardinality(upto(x)) >= k}
<1>1. Cardinality(bars) \in Nat /\ bars # {}
  BY FS_CardinalityType, FS_EmptySet
<1>2. IsFiniteSet(V) /\ V # {} /\ \A x \in V : x \in Nat /\ x \in Int
  <2> DEFINE m == [j \in bars |-> s[j]]
  <2>1. m \in Surjection(bars, V)
    BY DEF Surjection
  <2>2. V # {} /\ \A x \in V : x \in Nat
    BY <1>1
  <2> HIDE DEF m, V
  <2> QED  BY <2>1, <2>2, FS_Surjection
<1>3. T # {}
  <2>1. PICK x \in V : \A y \in V : x >= y
    <3> HIDE DEF V
    <3> QED  BY <1>2, Extremes
  <2>2. upto(x) = bars
    <3>1. \A j \in bars : s[j] <= x
      BY <1>2, <2>1
    <3> QED  BY <3>1
  <2>3. x \in T
    BY <1>1, <2>2
  <2> QED  BY <2>3
<1>4. PICK x \in T : \A y \in T : x <= y
  <2>1. T \in SUBSET Nat
    BY <1>2
  <2> HIDE DEF T
  <2> QED  BY <1>3, <2>1, LeastNumber
<1>5. x \in V /\ x \in Nat /\ Cardinality(upto(x)) >= k
  BY <1>2, <1>4
<1>6. Cardinality(below(x)) < k
  <2>1. CASE below(x) = {}
    <3>1. Cardinality(below(x)) = 0
      BY <2>1, FS_EmptySet
    <3> QED  BY <3>1
  <2>2. CASE below(x) # {}
    <3> DEFINE W == {s[j] : j \in below(x)}
    <3>1. W # {} /\ IsFiniteSet(W) /\ W \subseteq V /\ \A y \in W : y \in Int
      <4>1. W \subseteq V /\ W # {}
        BY <2>2
      <4> HIDE DEF W, V
      <4> QED  BY <1>2, <4>1, FS_Subset
    <3>2. PICK y \in W : \A z \in W : y >= z
      <4> HIDE DEF W
      <4> QED  BY <3>1, Extremes
    <3>3. y \in V /\ y \in Nat /\ y < x
      BY <1>2, <1>5
    <3>4. upto(y) = below(x)
      <4>1. ASSUME NEW j \in bars PROVE s[j] <= y <=> s[j] < x
        <5>1. s[j] < x => s[j] \in W
          OBVIOUS
        <5>2. s[j] \in W => s[j] <= y
          BY <3>2, <3>3, <4>1
        <5> QED  BY <1>5, <3>3, <4>1, <5>1, <5>2
      <4> QED  BY <4>1
    <3>5. y \notin T
      BY <1>4, <1>5, <3>3
    <3>6. Cardinality(upto(y)) \in Nat
      <4>1. IsFiniteSet(upto(y))
        BY FS_Subset
      <4> QED  BY <4>1, FS_CardinalityType
    <3> QED  BY <3>3, <3>4, <3>5, <3>6
  <2> QED  BY <2>1, <2>2
<1>7. Ranked(s, bars, k) \in V
  BY <1>5, <1>6 DEF Ranked
<1> QED  BY <1>2, <1>7

LEMMA MedianIs ==
  ASSUME NEW s, NEW bars, IsFiniteSet(bars), bars # {}, \A j \in bars : s[j] \in Nat
  PROVE  Median(s, bars) \in Nat
<1>1. PICK n \in Nat \ {0} : n = Cardinality(bars)
  BY FS_CardinalityType, FS_EmptySet
<1>2. (n + 1) \div 2 \in 1 .. n /\ n \div 2 + 1 \in 1 .. n
  BY SMT
<1>3. PICK x \in Nat, y \in Nat : /\ x = Ranked(s, bars, (n + 1) \div 2)
                                  /\ y = Ranked(s, bars, n \div 2 + 1)
  <2>1. /\ (n + 1) \div 2 \in 1 .. Cardinality(bars)
        /\ n \div 2 + 1 \in 1 .. Cardinality(bars)
    BY <1>1, <1>2
  <2> QED  BY <2>1, RankedIs
<1>4. (x + y) \div 2 \in Nat
  BY SMT
<1> QED  BY <1>1, <1>3, <1>4 DEF Median

\* How tight the channel is, against the median of its widths.
LEMMA ConsolidationHolds ==
  ASSUME NEW n, NEW frame, Holds(frame, n, Candle)
  PROVE  Holds(Consolidation(frame), n, IntsOrNone)
<1>1. n \in Nat /\ Len(frame) = n
  BY HoldsIs
<1> DEFINE u == Upper(frame)
           l == Lower(frame)
           c == Close(frame)
           width == Width(frame)
<1>2. /\ Holds(u, n, IntsOrNone) /\ Holds(l, n, IntsOrNone)
      /\ \A i \in 1 .. n : Known(u[i]) /\ Known(l[i]) => l[i] <= u[i]
  BY ChannelHolds
<1>3. Holds(c, n, NatsOrNone)
  BY PricesHold, HoldsMore DEF NatsOrNone
<1>4. width = Quotient(Difference(u, l), 10000, c)
  BY DEF Width
<1> HIDE DEF u, l, c, width
<1> DEFINE d == [i \in 1 .. n |-> IF Known(u[i]) /\ Known(l[i]) THEN u[i] - l[i] ELSE NaN]
<1>5. Difference(u, l) = d \o <<>>
  BY <1>2, HoldsIs DEF Difference, Lift, Series
<1>6. ASSUME NEW i \in 1 .. n PROVE d[i] \in NatsOrNone
  <2>1. u[i] \in IntsOrNone /\ l[i] \in IntsOrNone
    BY <1>2, HoldsIs
  <2> QED  BY <1>2, <2>1 DEF IntsOrNone, NatsOrNone, Known
<1>7. d = [i \in 1 .. n |-> d[i]]
  OBVIOUS
<1> HIDE DEF d
<1>8. Holds(Difference(u, l), n, NatsOrNone)
  BY <1>1, <1>5, <1>6, <1>7, SeriesHolds
<1>9. Holds(width, n, NatsOrNone) /\ \A i \in 1 .. n : width[i] \in NatsOrNone
  <2>1. 10000 \in Nat
    OBVIOUS
  <2>2. Holds(width, n, NatsOrNone)
    BY <1>3, <1>4, <1>8, <2>1, QuotientHolds
  <2> QED  BY <2>2, HoldsIs
<1> DEFINE f == [i \in 1 .. n |-> Tightness(width, i)]
<1>10. Consolidation(frame) = f \o <<>>
  BY <1>1 DEF Consolidation, Series, width
<1>11. ASSUME NEW i \in 1 .. n PROVE Tightness(width, i) \in IntsOrNone
  <2>1. PICK k \in Nat \ {0} : k = Larger(i - MedianWindow + 1, 1)
    <3>1. MedianWindow \in Int
      BY FeaturePeriods DEF MedianWindow, Larger
    <3>2. PICK m \in Int : m = MedianWindow
      BY <3>1
    <3>3. i \in Nat
      BY <1>1
    <3>4. PICK x \in Int : x = i - m + 1
      BY <3>2, <3>3
    <3>5. Larger(x, 1) \in Nat \ {0}
      BY <3>4 DEF Larger
    <3> QED  BY <3>2, <3>4, <3>5
  <2> DEFINE known == {j \in k .. i : Known(width[j])}
  <2>2. /\ IsFiniteSet(known) /\ \A j \in known : width[j] \in Nat
    <3>1. IsFiniteSet(k .. i) /\ known \subseteq k .. i
      BY <1>1, FS_Interval
    <3>2. \A j \in known : j \in 1 .. n /\ Known(width[j])
      BY <1>1
    <3>3. IsFiniteSet(known)
      BY <3>1, FS_Subset
    <3> QED  BY <1>9, <3>2, <3>3 DEF NatsOrNone, Known
  <2>3. Tightness(width, i) = IF Cardinality(known) >= Feature.donchian /\ Known(width[i])
                              THEN Ratio(width[i], 100, Median(width, known)) ELSE NaN
    BY <2>1 DEF Tightness
  <2> HIDE DEF known
  <2>4. ASSUME Cardinality(known) >= Feature.donchian, Known(width[i])
        PROVE  Ratio(width[i], 100, Median(width, known)) \in IntsOrNone
    <3>1. known # {}
      <4>1. Feature.donchian \in Nat \ {0}
        BY FeaturePeriods
      <4>2. Cardinality({}) = 0
        BY FS_EmptySet
      <4> QED  BY <2>4, <4>1, <4>2
    <3>2. PICK m \in Nat : m = Median(width, known)
      BY <2>2, <3>1, MedianIs
    <3>3. width[i] \in Nat
      BY <1>9, <2>4 DEF NatsOrNone, Known
    <3>4. width[i] \in Int /\ 100 \in Nat
      BY <3>3
    <3>5. Ratio(width[i], 100, m) \in IntsOrNone
      BY <3>2, <3>4, RatioIs
    <3> QED  BY <3>2, <3>5
  <2> QED  BY <2>3, <2>4 DEF IntsOrNone
<1>12. f = [i \in 1 .. n |-> f[i]] /\ \A i \in 1 .. n : f[i] \in IntsOrNone
  BY <1>11
<1> HIDE DEF f
<1> QED  BY <1>1, <1>10, <1>12, SeriesHolds

---------------------------------------------------------------------------
(* A row of features *)

\* What a judgement computes with.
Measured == {"middle", "fast", "slow", "adx", "rsi", "roc", "upper", "lower", "support",
             "resistance", "consolidation"}
\* The distance to a level is known only with the level.
IsRow(row) ==
  /\ row.atr \in NatsOrNone /\ \A x \in Measured : row[x] \in IntsOrNone
  /\ Known(row.toSupport) => Known(row.support)
  /\ Known(row.toResistance) => Known(row.resistance)

LEMMA SwingHolds ==
  ASSUME NEW n, NEW s, Holds(s, n, Int), NEW t \in 1 .. n
  PROVE  Swing(s, t).level \in IntsOrNone
<1>1. n \in Nat /\ \A i \in 1 .. n : s[i] \in Int
  BY HoldsIs
<1>2. PICK m \in Int : m = t - Feature.right /\ m <= n
  BY <1>1, FeaturePeriods
<1> DEFINE P == {i \in 1 .. m : IsPivot(s, i)}
<1>3. PublishedBy(s, t) = P
  BY <1>2 DEF PublishedBy
<1>4. P \in SUBSET (1 .. m) /\ \A i \in P : i \in 1 .. n
  BY <1>1, <1>2
<1> HIDE DEF P
<1>5. P # {} => Max(P) \in P
  BY <1>4, NewestIn
<1>6. P # {} => s[Max(P)] \in Int
  BY <1>1, <1>4, <1>5
<1>7. Swing(s, t).level = IF P = {} THEN NaN ELSE s[Max(P)]
  BY <1>3 DEF Swing
<1> QED  BY <1>6, <1>7 DEF IntsOrNone

LEMMA RowHolds ==
  ASSUME NEW n, NEW frame, Holds(frame, n, Candle), NEW t \in 1 .. n
  PROVE  IsRow(Row(Columns(frame), t))
<1>1. n \in Nat
  BY HoldsIs
<1> DEFINE close == Close(frame)
<1>2. /\ Holds(close, n, Nat \ {0}) /\ Holds(close, n, IntsOrNone)
      /\ Holds(Hundredths(close), n, NatsOrNone)
  <2>1. Holds(close, n, Nat \ {0})
    BY PricesHold
  <2>2. Holds(close, n, IntsOrNone) /\ Holds(close, n, NatsOrNone)
    BY <2>1, HoldsMore DEF IntsOrNone, NatsOrNone
  <2> QED  BY <2>1, <2>2, HundredthsHold
<1> HIDE DEF close
<1>3. Holds(Atr(frame, Feature.atr), n, NatsOrNone)
  BY FeaturePeriods, AtrHolds
<1>4. Holds(Sma(close, Feature.bb), n, IntsOrNone)
  BY <1>2, FeaturePeriods, SmaHolds
<1>5. /\ Holds(Ema(Hundredths(close), Feature.fast), n, NatsOrNone)
      /\ Holds(Ema(Hundredths(close), Feature.slow), n, NatsOrNone)
  BY <1>2, FeaturePeriods, EmaHolds
<1>6. Holds(Adx(frame, Feature.adx), n, NatsOrNone)
  BY FeaturePeriods, AdxHolds
<1>7. Holds(Rsi(close, Feature.rsi), n, NatsOrNone)
  BY <1>2, FeaturePeriods, RsiHolds
<1>8. Holds(RateOfChange(close, Feature.roc), n, IntsOrNone)
  BY <1>2, FeaturePeriods, RateOfChangeHolds
<1>9. /\ Holds(Upper(frame), n, IntsOrNone) /\ Holds(Lower(frame), n, IntsOrNone)
      /\ Holds(Consolidation(frame), n, IntsOrNone)
  BY ChannelHolds, ConsolidationHolds
<1>10. Swing(High(frame), t).level \in IntsOrNone /\ Swing(Flipped(Low(frame)), t).level \in IntsOrNone
  <2>1. Holds(High(frame), n, Int) /\ Holds(Low(frame), n, Int)
    BY PricesHold, HoldsMore
  <2> QED  BY <2>1, FlippedHolds, SwingHolds
<1> DEFINE c == Columns(frame)
           row == Row(c, t)
<1>11. /\ c.atr = Atr(frame, Feature.atr) /\ c.middle = Sma(close, Feature.bb)
       /\ c.fast = Ema(Hundredths(close), Feature.fast)
       /\ c.slow = Ema(Hundredths(close), Feature.slow)
       /\ c.adx = Adx(frame, Feature.adx) /\ c.rsi = Rsi(close, Feature.rsi)
       /\ c.roc = RateOfChange(close, Feature.roc)
       /\ c.upper = Upper(frame) /\ c.lower = Lower(frame)
       /\ c.consolidation = Consolidation(frame)
       /\ c.highs = High(frame) /\ c.lows = Flipped(Low(frame))
  BY DEF Columns, close
<1> HIDE DEF c
<1>12. /\ row.atr = c.atr[t] /\ row.middle = c.middle[t] /\ row.fast = c.fast[t]
       /\ row.slow = c.slow[t] /\ row.adx = c.adx[t] /\ row.rsi = c.rsi[t]
       /\ row.roc = c.roc[t] /\ row.upper = c.upper[t] /\ row.lower = c.lower[t]
       /\ row.consolidation = c.consolidation[t]
       /\ row.resistance = Swing(c.highs, t).level
       /\ row.support = IF Known(Swing(c.lows, t).level) THEN -Swing(c.lows, t).level ELSE NaN
  BY DEF Row
<1>13. /\ row.toResistance = InAtrs(IF Known(row.resistance) THEN row.resistance - c.close[t] ELSE NaN, c.atr[t])
       /\ Known(row.toSupport) => Known(Swing(c.lows, t).level)
  BY DEF Row, InAtrs, Known
<1> HIDE DEF row
<1>14. /\ row.atr \in NatsOrNone /\ row.fast \in NatsOrNone /\ row.slow \in NatsOrNone
       /\ row.adx \in NatsOrNone /\ row.rsi \in NatsOrNone /\ row.middle \in IntsOrNone
       /\ row.roc \in IntsOrNone /\ row.upper \in IntsOrNone /\ row.lower \in IntsOrNone
       /\ row.consolidation \in IntsOrNone /\ row.resistance \in IntsOrNone
  BY <1>3, <1>4, <1>5, <1>6, <1>7, <1>8, <1>9, <1>10, <1>11, <1>12, HoldsIs
<1>15. row.support \in IntsOrNone
  BY <1>10, <1>11, <1>12 DEF IntsOrNone, Known
<1>16. \A x \in NatsOrNone : x \in IntsOrNone
  BY DEF NatsOrNone, IntsOrNone
<1>17. Known(row.toResistance) => Known(row.resistance)
  BY <1>13 DEF InAtrs, Known
<1>18. Known(row.toSupport) => Known(row.support)
  <2>1. -Swing(c.lows, t).level \in Int \/ ~Known(Swing(c.lows, t).level)
    BY <1>10, <1>11 DEF IntsOrNone, Known
  <2> QED  BY <1>12, <1>13, <2>1, NaNAssumption DEF Known
<1>19. IsRow(row)
  BY <1>14, <1>15, <1>16, <1>17, <1>18 DEF IsRow, Measured
<1> QED  BY <1>19 DEF c, row

LEMMA ComputeHolds ==
  ASSUME NEW n, NEW frame, Holds(frame, n, Candle)
  PROVE  Holds(Compute(frame).rows, n, {row \in {Row(Columns(frame), i) : i \in 1 .. n} : IsRow(row)})
<1>1. n \in Nat /\ Len(frame) = n
  BY HoldsIs
<1> DEFINE c == Columns(frame)
           S == {row \in {Row(c, i) : i \in 1 .. n} : IsRow(row)}
           f == [i \in 1 .. n |-> Row(c, i)]
<1>2. Compute(frame).rows = f \o <<>>
  BY <1>1 DEF Compute, Rows, Series
<1>3. \A i \in 1 .. n : IsRow(Row(c, i))
  BY RowHolds
<1> HIDE DEF c
<1>4. f = [i \in 1 .. n |-> f[i]] /\ \A i \in 1 .. n : f[i] \in S
  BY <1>3
<1> HIDE DEF f, S
<1>5. Holds(f \o <<>>, n, S)
  BY <1>1, <1>4, SeriesHolds
<1> QED  BY <1>2, <1>5 DEF S, c

---------------------------------------------------------------------------
(* The confidence in a regime *)

\* A sum of magnitudes is a magnitude, and no less than any of them.
LEMMA SumOfMagnitudes ==
  ASSUME NEW f, IsFiniteSet(DOMAIN f), \A x \in DOMAIN f : f[x] \in Nat
  PROVE  SumFunction(f) \in Nat /\ \A y \in DOMAIN f : SumFunction(f) >= f[y]
<1> DEFINE D == DOMAIN f
           T == {s \in SUBSET D : SumFunctionOnSet(f, s) \in Nat}
<1>1. {} \in T
  BY SumEmpty
<1>2. ASSUME NEW s \in SUBSET D, s # {}, \A x \in s : s \ {x} \in T
      PROVE  s \in T
  <2>1. PICK c \in s : SumFunctionOnSet(f, s) = f[c] + SumFunctionOnSet(f, s \ {c})
    BY <1>2, SumPeeled, FS_Subset
  <2>2. f[c] \in Nat /\ SumFunctionOnSet(f, s \ {c}) \in Nat
    BY <1>2
  <2> QED  BY <2>1, <2>2
<1>3. \A s \in SUBSET D : s \in T
  <2> HIDE DEF T
  <2>1. \A s \in SUBSET D : s # {} /\ (\A x \in s : s \ {x} \in T) => s \in T
    BY <1>2
  <2> QED  BY <1>1, <2>1, SubsetInduction
<1>4. ASSUME NEW y \in D PROVE SumFunctionOnSet(f, D) >= f[y]
  <2>1. SumFunctionOnSet(f, D) = f[y] + SumFunctionOnSet(f, D \ {y})
    <3>1. \A x \in D : f[x] \in Int
      OBVIOUS
    <3> QED  BY <3>1, SumWithout
  <2>2. SumFunctionOnSet(f, D \ {y}) \in Nat /\ f[y] \in Nat
    BY <1>3
  <2> QED  BY <2>1, <2>2
<1> QED  BY <1>3, <1>4 DEF SumFunction

LEMMA MaxOfPair ==
  ASSUME NEW x \in Int, NEW y \in Int
  PROVE  Max({x, y}) \in {x, y} /\ Max({x, y}) >= x /\ Max({x, y}) >= y
<1>1. \E m \in {x, y} : \A z \in {x, y} : m >= z
  <2>1. x >= y \/ y >= x
    OBVIOUS
  <2> QED  BY <2>1
<1> QED  BY <1>1 DEF Max

LEMMA UnitIs ==
  ASSUME NEW x \in Int
  PROVE  Unit(x) \in 0 .. 100 /\ Capped(x) \in Int /\ Capped(x) <= 100
<1>1. PICK m \in Int : m = Min({x, 100}) /\ m <= 100
  BY MinOfPair
<1>2. PICK u \in Int : u = Max({0, m}) /\ u \in {0, m} /\ u >= 0
  <2>1. Max({0, m}) \in {0, m} /\ Max({0, m}) >= 0
    BY MaxOfPair
  <2> QED  BY <2>1
<1> QED  BY <1>1, <1>2 DEF Unit, Capped

\* Blending scores, of any size, with weights.
LEMMA BlendIs ==
  ASSUME NEW n \in Nat, NEW parts, DOMAIN parts = 1 .. n,
         \A i \in 1 .. n : parts[i][1] \in Int /\ parts[i][2] \in Nat
  PROVE  Blend(parts) \in Nat
<1> DEFINE f == [i \in DOMAIN parts |-> Unit(parts[i][1]) * parts[i][2]]
<1>1. ASSUME NEW i \in DOMAIN f PROVE f[i] \in Nat
  <2>1. PICK u \in Nat : u = Unit(parts[i][1])
    <3>1. i \in 1 .. n
      OBVIOUS
    <3>2. Unit(parts[i][1]) \in 0 .. 100
      BY <3>1, UnitIs
    <3> QED  BY <3>2
  <2>2. PICK w \in Nat : w = parts[i][2]
    OBVIOUS
  <2>3. u * w \in Nat
    OBVIOUS
  <2> QED  BY <2>1, <2>2, <2>3
<1>2. DOMAIN f = 1 .. n /\ IsFiniteSet(1 .. n)
  BY FS_Interval
<1>3. Blend(parts) = SumFunction(f) \div 100
  BY DEF Blend, Sum
<1> HIDE DEF f
<1>4. PICK s \in Nat : s = SumFunction(f)
  BY <1>1, <1>2, SumOfMagnitudes
<1> QED  BY <1>3, <1>4

LEMMA AgreementIs ==
  ASSUME NEW row
  PROVE  Agreement(row) \in Int
<1>1. Votes(row) \in Seq(Int)
  <2>1. \A x : SignOf(x) \in Int
    BY DEF SignOf
  <2> DEFINE a == IF Known(row.plus) /\ Known(row.minus) /\ row.plus # row.minus
                  THEN <<SignOf(row.plus - row.minus)>> ELSE <<>>
             b == IF ~Known(row.slope) THEN <<>>
                  ELSE <<IF row.slope > Regime.slope THEN 1
                         ELSE IF row.slope < -Regime.slope THEN -1 ELSE 0>>
             c == CASE row.structure = "UPTREND" -> <<1>>
                    [] row.structure = "DOWNTREND" -> <<-1>>
                    [] OTHER -> <<>>
  <2>2. a \in Seq(Int) /\ b \in Seq(Int) /\ c \in Seq(Int)
    <3>1. a \in Seq(Int)
      BY <2>1
    <3>2. b \in Seq(Int)
      OBVIOUS
    <3>3. c \in Seq(Int)
      OBVIOUS
    <3> QED  BY <3>1, <3>2, <3>3
  <2>3. Votes(row) = a \o b \o c
    BY DEF Votes
  <2> HIDE DEF a, b, c
  <2> QED  BY <2>2, <2>3
<1> DEFINE v == Votes(row)
<1>2. v \in Seq(Int)
  BY <1>1
<1>3. Agreement(row) = IF v = <<>> THEN 0 ELSE (100 * Gap(Sum(v), 0)) \div Len(v)
  BY DEF Agreement
<1> HIDE DEF v
<1>4. DOMAIN v = 1 .. Len(v) /\ Len(v) \in Nat /\ \A i \in 1 .. Len(v) : v[i] \in Int
  BY <1>2
<1>5. PICK s \in Int : s = Sum(v)
  <2>1. IsFiniteSet(DOMAIN v) /\ \A i \in DOMAIN v : v[i] \in Int
    BY <1>4, FS_Interval
  <2> QED  BY <2>1, SumTyped DEF Sum
<1>6. PICK g \in Int : g = 100 * Gap(s, 0)
  <2>1. Gap(s, 0) \in Int
    BY DEF Gap, Larger
  <2> QED  BY <2>1
<1>7. v # <<>> => Len(v) # 0
  BY <1>2
<1>8. \A m \in Nat \ {0} : g \div m \in Int
  BY SMT
<1> QED  BY <1>3, <1>4, <1>5, <1>6, <1>7, <1>8

LEMMA DetectIs ==
  ASSUME NEW f, NEW t, WarmAt(f, t) => IsRow(f.rows[t])
  PROVE  Detect(f, t).confidence \in Nat
<1> DEFINE row == f.rows[t]
<1>1. SUFFICES ASSUME WarmAt(f, t), Known(row.adx) PROVE Classify(row).confidence \in Nat
  BY DEF Detect, Classify, UnknownRegime
<1>2. PICK adx \in Int : adx = row.adx
  <2>1. row.adx \in IntsOrNone
    BY <1>1 DEF IsRow, Measured
  <2> QED  BY <1>1, <2>1 DEF IntsOrNone, Known
<1> HIDE DEF row
<1>3. PICK up \in Nat \ {0}, flat \in Nat \ {0} : up = Regime.adxTrending /\ flat = Regime.adxRanging
  BY RegimeAssumption DEF RegimeConfig
<1>4. PICK a \in Int : a = Agreement(row)
  BY AgreementIs
<1>5. PICK calm \in Int : calm = Calm(row)
  <2>1. 100 - (100 * adx) \div flat \in Int
    BY SMT
  <2> QED  BY <1>2, <1>3, <2>1 DEF Calm
<1>6. PICK strength \in Int : strength = (2 * Min({(100 * row.adx) \div Regime.adxTrending, 150})) \div 3
  <2>1. PICK x \in Int : x = (100 * adx) \div up
    BY SMT
  <2>2. PICK m \in Int : m = Min({x, 150})
    BY MinOfPair
  <2> QED  BY <1>2, <1>3, <2>1, <2>2
<1>7. PICK lead \in Int : lead = (50 * (row.adx - Regime.adxRanging)) \div Regime.adxTrending
  <2>1. (50 * (adx - flat)) \div up \in Int
    BY SMT
  <2> QED  BY <1>2, <1>3, <2>1
<1>8. PICK tight \in Int : tight = IF Tight(row) THEN 80 ELSE 40
  OBVIOUS
<1>9. /\ Blend(<<<<a, 40>>, <<strength, 30>>, <<tight, 30>>>>) \in Nat
      /\ Blend(<<<<a, 45>>, <<lead, 35>>, <<2 * adx, 20>>>>) \in Nat
      /\ Blend(<<<<calm, 50>>, <<80, 50>>>>) \in Nat
      /\ Blend(<<<<calm, 60>>, <<100 - a, 40>>>>) \in Nat
  <2>1. ASSUME NEW x \in Int, NEW y \in Int, NEW z \in Int,
               NEW u \in Nat, NEW v \in Nat, NEW w \in Nat
        PROVE  Blend(<<<<x, u>>, <<y, v>>, <<z, w>>>>) \in Nat
    <3> DEFINE parts == <<<<x, u>>, <<y, v>>, <<z, w>>>>
    <3>1. DOMAIN parts = 1 .. 3 /\ \A i \in 1 .. 3 : parts[i][1] \in Int /\ parts[i][2] \in Nat
      OBVIOUS
    <3> HIDE DEF parts
    <3> QED  BY <3>1, BlendIs DEF parts
  <2>2. ASSUME NEW x \in Int, NEW y \in Int, NEW u \in Nat, NEW v \in Nat
        PROVE  Blend(<<<<x, u>>, <<y, v>>>>) \in Nat
    <3> DEFINE parts == <<<<x, u>>, <<y, v>>>>
    <3>1. DOMAIN parts = 1 .. 2 /\ \A i \in 1 .. 2 : parts[i][1] \in Int /\ parts[i][2] \in Nat
      OBVIOUS
    <3> HIDE DEF parts
    <3> QED  BY <3>1, BlendIs DEF parts
  <2>3. 2 * adx \in Int /\ 100 - a \in Int
    OBVIOUS
  <2>4. 20 \in Nat /\ 30 \in Nat /\ 35 \in Nat /\ 40 \in Nat /\ 45 \in Nat /\ 50 \in Nat
        /\ 60 \in Nat /\ 80 \in Int
    OBVIOUS
  <2>5. Blend(<<<<a, 40>>, <<strength, 30>>, <<tight, 30>>>>) \in Nat
    BY ONLY <2>1, <2>4, a \in Int, strength \in Int, tight \in Int
  <2>6. Blend(<<<<a, 45>>, <<lead, 35>>, <<2 * adx, 20>>>>) \in Nat
    BY ONLY <2>1, <2>3, <2>4, a \in Int, lead \in Int
  <2>7. Blend(<<<<calm, 50>>, <<80, 50>>>>) \in Nat
    BY ONLY <2>2, <2>4, calm \in Int
  <2>8. Blend(<<<<calm, 60>>, <<100 - a, 40>>>>) \in Nat
    BY ONLY <2>2, <2>3, <2>4, calm \in Int
  <2> QED  BY <2>5, <2>6, <2>7, <2>8
<1>10. Reading(row).confidence \in Nat /\ Reading(row) = [regime |-> Reading(row).regime, confidence |-> Reading(row).confidence]
  <2> DEFINE label(x, y) == [regime |-> x, confidence |-> y]
  <2>1. \E x, y : y \in Nat /\ Reading(row) = label(x, y)
    <3>1. CASE BreaksOut(row)
      BY <1>4, <1>6, <1>8, <1>9, <3>1 DEF Reading
    <3>2. CASE ~BreaksOut(row) /\ Trends(row)
      BY <1>2, <1>4, <1>7, <1>9, <3>2 DEF Reading
    <3>3. CASE ~BreaksOut(row) /\ ~Trends(row)
      <4>1. CASE row.adx >= Regime.adxRanging
        BY <3>3, <4>1 DEF Reading
      <4>2. CASE ~ (row.adx >= Regime.adxRanging)
        BY <1>4, <1>5, <1>9, <3>3, <4>2 DEF Reading
      <4> QED  BY <4>1, <4>2
    <3> QED  BY <3>1, <3>2, <3>3
  <2> QED  BY <2>1
<1>11. [Reading(row) EXCEPT !.regime = "UNCERTAIN"].confidence = Reading(row).confidence
  BY <1>10
<1> QED  BY <1>1, <1>10, <1>11 DEF Classify

---------------------------------------------------------------------------
(* What a strategy proposes *)

\* A proposal enters at the close, or is the one without a stop, which is not well formed.
IsProposal(s, close) ==
  /\ s.dir \in {"LONG", "SHORT"} /\ s.confidence \in Nat /\ s.stop \in Int
  /\ s.entry = close \/ s = NoStop

LEMMA SignalIs ==
  ASSUME NEW dir \in {"LONG", "SHORT"}, NEW c \in Int, NEW entry, NEW stop \in Int, NEW target
  PROVE  IsProposal(Signal(dir, c, entry, stop, target), entry)
<1>1. PICK m \in Int : m = Min({c, 100})
  BY MinOfPair
<1>2. Max({0, m}) \in {0, m} /\ Max({0, m}) >= 0
  BY MaxOfPair
<1>3. Max({0, Min({c, 100})}) \in Nat
  BY <1>1, <1>2
<1> QED  BY <1>3 DEF Signal, IsProposal

LEMMA NoStopIs ==
  ASSUME NEW close
  PROVE  IsProposal(NoStop, close) /\ ~WellFormed(NoStop)
<1>1. IsProposal(NoStop, 0)
  BY SignalIs DEF NoStop
<1>2. NoStop.entry = 0
  BY DEF NoStop, Signal
<1> QED  BY <1>1, <1>2 DEF IsProposal, WellFormed

LEMMA SideIs ==
  /\ \A up : Side(up) \in {"LONG", "SHORT"}
  /\ \A dir : Toward(dir) \in {1, -1}
BY DEF Side, Toward

LEMMA AheadIs ==
  ASSUME NEW dir, NEW price \in Int, NEW percent \in Int, NEW row, row.atr \in Int
  PROVE  Ahead(dir, price, percent, row) \in Int
<1>1. PICK x \in Int : x = percent * row.atr
  OBVIOUS
<1>2. PICK y \in Int : y = x \div 10000
  BY SMT
<1>3. PICK d \in Int : d = Toward(dir)
  BY SideIs
<1>4. price + d * y \in Int
  OBVIOUS
<1> QED  BY <1>1, <1>2, <1>3, <1>4 DEF Ahead

LEMMA StopIs ==
  ASSUME NEW name \in Enabled, NEW dir, NEW price \in Int, NEW row, row.atr \in Int
  PROVE  StopAt(name, dir, price, row) \in Int
<1>1. -Config(name).stop \in Int
  BY RosterAssumption DEF StrategyConfig, Config, Enabled
<1> QED  BY <1>1, AheadIs DEF StopAt

LEMMA ShareIs ==
  ASSUME NEW part \in Int, NEW whole \in Nat \ {0}
  PROVE  Share(part, whole) \in Int
<1>1. PICK x \in Int : x = 100 * part
  OBVIOUS
<1>2. x \div whole \in Int
  BY SMT
<1> QED  BY <1>1, <1>2 DEF Share

LEMMA GapIs ==
  ASSUME NEW x \in Int, NEW y \in Int
  PROVE  Gap(x, y) \in Nat
<1>1. PICK d \in Int : d = x - y /\ y - x = -d
  OBVIOUS
<1> QED  BY <1>1 DEF Gap, Larger

LEMMA RegimeScoreIs ==
  ASSUME NEW name, NEW reading, reading.confidence \in Nat, NEW hostile \in Int
  PROVE  RegimeScore(name, reading, hostile) \in Int
<1>1. reading.confidence \div 2 \in Int
  BY SMT
<1> QED  BY <1>1 DEF RegimeScore

\* What the roster gives a score to divide by.
LEMMA RosterIs ==
  /\ \A p \in {"adxMinimum", "rocThreshold", "rsiOversold", "rsiOverbought", "maxAdx",
               "buffer", "minAge", "maxAge", "proximity"} : Roster[p] \in Int
  /\ Roster.rsiOversold \in Nat \ {0} /\ 100 - Roster.rsiOverbought \in Nat \ {0}
  /\ Roster.rocThreshold \in Nat \ {0} /\ 3 * Roster.rocThreshold \in Nat \ {0}
  /\ Roster.maxAdx \in Nat \ {0}
  /\ 40 - Roster.adxMinimum \in Nat \ {0}
<1>1. \A p \in {"adxMinimum", "rocThreshold", "rsiOversold", "rsiOverbought", "maxAdx",
               "buffer", "minAge", "maxAge", "proximity"} : Roster[p] \in Int
  BY RosterAssumption
<1>2. /\ 0 < Roster.rsiOversold /\ Roster.rsiOverbought < 100
      /\ Roster.rocThreshold > 0 /\ Roster.maxAdx > 0 /\ Roster.adxMinimum < 40
  BY RosterAssumption
<1> QED  BY <1>1, <1>2

\* A feature that is known is a number.
LEMMA KnownIs ==
  ASSUME NEW row, IsRow(row)
  PROVE  /\ \A x \in Measured : Known(row[x]) => row[x] \in Int
         /\ Known(row.atr) => row.atr \in Nat
BY DEF IsRow, IntsOrNone, NatsOrNone, Known

LEMMA TrendFollowingProposes ==
  ASSUME NEW row, IsRow(row), NEW bar \in Candle, NEW reading, reading.confidence \in Nat,
         "trend_following" \in Enabled, NEW s \in TrendFollowing(row, bar, reading)
  PROVE  IsProposal(s, bar.close)
<1> DEFINE up == row.fast > row.slow /\ 100 * bar.close > row.filter
           dir == Side(up)
           strength == IF row.adx > Roster.adxMinimum
                       THEN Capped(Share(row.adx - Roster.adxMinimum, 40 - Roster.adxMinimum))
                       ELSE 0
           score == 40 * strength
                    + 25 * Capped(Share(Gap(row.fast, row.slow), 2 * row.atr))
                    + 35 * RegimeScore("trend_following", reading, 20)
           signal == Signal(dir, score \div 100, bar.close,
                            StopAt("trend_following", dir, bar.close, row),
                            TargetAt("trend_following", dir, bar, row))
<1>1. /\ Has(row, {"fast", "slow", "filter", "adx"})
      /\ s = NoStop \/ (Known(row.atr) /\ ~ (row.atr <= 0) /\ s = signal)
  BY DEF TrendFollowing
<1>2. CASE s = NoStop
  BY <1>2, NoStopIs
<1>3. CASE Known(row.atr) /\ ~ (row.atr <= 0) /\ s = signal
  <2>1. /\ row.fast \in Int /\ row.slow \in Int /\ row.adx \in Int
        /\ row.atr \in Nat \ {0} /\ row.atr \in Int /\ bar.close \in Int
    BY <1>1, <1>3, KnownIs DEF Has, Measured, Candle
  <2>2. strength \in Int
    <3>1. PICK x \in Int : x = row.adx - Roster.adxMinimum
      BY <2>1, RosterIs
    <3>2. Share(x, 40 - Roster.adxMinimum) \in Int
      BY RosterIs, ShareIs
    <3>3. Capped(Share(x, 40 - Roster.adxMinimum)) \in Int
      BY <3>2, UnitIs
    <3> QED  BY <3>1, <3>3
  <2>3. Capped(Share(Gap(row.fast, row.slow), 2 * row.atr)) \in Int
    <3>1. PICK g \in Int : g = Gap(row.fast, row.slow)
      <4>1. Gap(row.fast, row.slow) \in Nat
        BY <2>1, GapIs
      <4> QED  BY <4>1
    <3>2. Share(g, 2 * row.atr) \in Int
      <4>1. 2 * row.atr \in Nat \ {0}
        BY <2>1
      <4> QED  BY <4>1, ShareIs
    <3> QED  BY <3>1, <3>2, UnitIs
  <2>4. RegimeScore("trend_following", reading, 20) \in Int
    BY RegimeScoreIs
  <2> HIDE DEF strength
  <2>5. score \in Int
    BY <2>2, <2>3, <2>4
  <2> HIDE DEF score
  <2>6. score \div 100 \in Int
    BY <2>5, SMT
  <2>7. StopAt("trend_following", dir, bar.close, row) \in Int
    BY <2>1, StopIs
  <2>8. dir \in {"LONG", "SHORT"}
    BY SideIs
  <2> HIDE DEF dir
  <2>9. IsProposal(signal, bar.close)
    BY <2>6, <2>7, <2>8, SignalIs
  <2> QED  BY <1>3, <2>9
<1> QED  BY <1>1, <1>2, <1>3
LEMMA MomentumProposes ==
  ASSUME NEW row, IsRow(row), NEW bar \in Candle, NEW reading, reading.confidence \in Nat,
         "momentum" \in Enabled, NEW s \in Momentum(row, bar, reading)
  PROVE  IsProposal(s, bar.close)
<1> DEFINE up == row.roc >= Roster.rocThreshold /\ row.rsi >= Roster.rsiBullFloor
           dir == Side(up)
           agrees == Known(row.hist) /\ (IF up THEN row.hist > 0 ELSE row.hist < 0)
           stretched == Capped((10 * Gap(row.rsi, 50)) \div 3)
           pace == Capped((100 * Gap(row.roc, 0)) \div (3 * Roster.rocThreshold))
           stretch == IF row.rsi > 80 \/ row.rsi < 20 THEN (7 * stretched) \div 10 ELSE stretched
           macd == IF ~Known(row.hist) THEN 50 ELSE IF agrees THEN 100 ELSE 20
           score == 30 * pace + 20 * stretch + 15 * macd
                    + 35 * RegimeScore("momentum", reading, 20)
           signal == Signal(dir, score \div 100, bar.close,
                            StopAt("momentum", dir, bar.close, row),
                            TargetAt("momentum", dir, bar, row))
<1>1. Has(row, {"roc", "rsi", "atr"}) /\ s = signal
  BY DEF Momentum
<1>2. row.roc \in Int /\ row.rsi \in Int /\ row.atr \in Int /\ bar.close \in Int
  <2>1. row.atr \in Nat
    BY <1>1, KnownIs DEF Has
  <2> QED  BY <1>1, <2>1, KnownIs DEF Has, Measured, Candle
<1>3. pace \in Int
  <2>1. PICK g \in Nat, w \in Nat \ {0} : g = Gap(row.roc, 0) /\ w = 3 * Roster.rocThreshold
    <3>1. Gap(row.roc, 0) \in Nat
      <4>1. 0 \in Int
        OBVIOUS
      <4> QED  BY <1>2, <4>1, GapIs
    <3> QED  BY <3>1, RosterIs
  <2>2. (100 * g) \div w \in Int
    BY SMT
  <2> QED  BY <2>1, <2>2, UnitIs
<1>4. stretch \in Int
  <2>1. PICK g \in Nat : g = Gap(row.rsi, 50)
    <3>1. 50 \in Int
      OBVIOUS
    <3> QED  BY <1>2, <3>1, GapIs
  <2>2. (10 * g) \div 3 \in Int
    BY SMT
  <2>3. stretched \in Int
    BY <2>1, <2>2, UnitIs
  <2> HIDE DEF stretched
  <2>4. (7 * stretched) \div 10 \in Int
    BY <2>3, SMT
  <2> QED  BY <2>3, <2>4
<1>5. macd \in Int
  OBVIOUS
<1>6. RegimeScore("momentum", reading, 20) \in Int
  BY RegimeScoreIs
<1> HIDE DEF pace, stretch, macd
<1>7. score \in Int
  BY <1>3, <1>4, <1>5, <1>6
<1> HIDE DEF score
<1>8. score \div 100 \in Int
  BY <1>7, SMT
<1>9. StopAt("momentum", dir, bar.close, row) \in Int
  BY <1>2, StopIs
<1>10. dir \in {"LONG", "SHORT"}
  BY SideIs
<1> HIDE DEF dir
<1>11. IsProposal(signal, bar.close)
  BY <1>8, <1>9, <1>10, SignalIs
<1> QED  BY <1>1, <1>11

LEMMA MeanReversionProposes ==
  ASSUME NEW row, IsRow(row), NEW bar \in Candle, NEW reading, reading.confidence \in Nat,
         "mean_reversion" \in Enabled, NEW s \in MeanReversion(row, bar, reading)
  PROVE  IsProposal(s, bar.close)
<1> DEFINE up == row.band = -1 /\ row.rsi <= Roster.rsiOversold
           dir == Side(up)
           distance == Share(Gap(100 * bar.close, row.middle), row.atr)
           extreme == IF row.rsi <= Roster.rsiOversold
                      THEN Share(Roster.rsiOversold - row.rsi, Roster.rsiOversold)
                      ELSE Share(row.rsi - Roster.rsiOverbought, 100 - Roster.rsiOverbought)
           quiet == Larger(0, 100 - Share(row.adx, Roster.maxAdx))
           score == 30 * Capped(extreme) + 25 * Capped(distance \div 3) + 15 * quiet
                    + 30 * RegimeScore("mean_reversion", reading, 10)
           signal == Signal(dir, score \div 100, bar.close,
                            StopAt("mean_reversion", dir, bar.close, row), row.middle \div 100)
<1>1. Has(row, {"rsi", "adx", "band", "middle", "atr"}) /\ ~ (row.atr <= 0) /\ s = signal
  BY DEF MeanReversion
<1>2. /\ row.rsi \in Int /\ row.adx \in Int /\ row.middle \in Int
      /\ row.atr \in Nat \ {0} /\ row.atr \in Int /\ bar.close \in Int
  <2>1. row.atr \in Nat
    BY <1>1, KnownIs DEF Has
  <2> QED  BY <1>1, <2>1, KnownIs DEF Has, Measured, Candle
<1>3. Capped(extreme) \in Int
  <2>1. PICK low \in Nat \ {0}, top \in Nat \ {0}, over \in Int :
          low = Roster.rsiOversold /\ top = 100 - Roster.rsiOverbought /\ over = Roster.rsiOverbought
    BY RosterIs
  <2>2. Share(low - row.rsi, low) \in Int /\ Share(row.rsi - over, top) \in Int
    <3>1. low - row.rsi \in Int /\ row.rsi - over \in Int
      BY <1>2
    <3> QED  BY <3>1, ShareIs
  <2>3. extreme \in Int
    BY <2>1, <2>2
  <2> HIDE DEF extreme
  <2> QED  BY <2>3, UnitIs
<1>4. Capped(distance \div 3) \in Int
  <2>1. PICK g \in Nat : g = Gap(100 * bar.close, row.middle)
    <3>1. 100 * bar.close \in Int
      BY <1>2
    <3> QED  BY <1>2, <3>1, GapIs
  <2>2. distance \in Int
    BY <1>2, <2>1, ShareIs
  <2> HIDE DEF distance
  <2>3. distance \div 3 \in Int
    BY <2>2, SMT
  <2> QED  BY <2>3, UnitIs
<1>5. quiet \in Int
  <2>1. PICK x \in Int : x = Share(row.adx, Roster.maxAdx)
    BY <1>2, RosterIs, ShareIs
  <2> QED  BY <2>1 DEF Larger
<1>6. RegimeScore("mean_reversion", reading, 10) \in Int
  BY RegimeScoreIs
<1> HIDE DEF extreme, distance, quiet
<1>7. score \in Int
  BY <1>3, <1>4, <1>5, <1>6
<1> HIDE DEF score
<1>8. score \div 100 \in Int
  BY <1>7, SMT
<1>9. StopAt("mean_reversion", dir, bar.close, row) \in Int
  BY <1>2, StopIs
<1>10. dir \in {"LONG", "SHORT"}
  BY SideIs
<1> HIDE DEF dir
<1>11. IsProposal(signal, bar.close)
  BY <1>8, <1>9, <1>10, SignalIs
<1> QED  BY <1>1, <1>11

LEMMA BreakoutProposes ==
  ASSUME NEW row, IsRow(row), NEW bar \in Candle, NEW reading, reading.confidence \in Nat,
         "breakout" \in Enabled, NEW s \in Breakout(row, bar, reading)
  PROVE  IsProposal(s, bar.close)
<1> DEFINE up == 10000 * (bar.close - row.upper) > Roster.buffer * row.atr
           dir == Side(up)
           level == IF up THEN row.upper ELSE row.lower
           excess == Share(100 * Gap(bar.close, level), row.atr)
           confirmed == Known(row.volume) /\ row.volume >= Roster.volumeMultiple
           reach == IF excess <= 200 THEN Capped(excess)
                    ELSE Larger(30, 100 - (excess - 200) \div 3)
           calm == IF Known(row.consolidation) THEN Unit(150 - row.consolidation) ELSE 50
           volume == IF ~Known(row.volume) THEN 50 ELSE IF confirmed THEN 100 ELSE 30
           score == 30 * reach + 25 * calm + 15 * volume
                    + 30 * RegimeScore("breakout", reading, 25)
           behind == Ahead(dir, level, -25, row)
           far == StopAt("breakout", dir, bar.close, row)
           stop == IF dir = "LONG" THEN Min({behind, far}) ELSE Max({behind, far})
           signal == Signal(dir, score \div 100, bar.close, stop,
                            TargetAt("breakout", dir, bar, row))
<1>1. Has(row, {"atr", "upper", "lower"}) /\ ~ (row.atr <= 0) /\ s = signal
  BY DEF Breakout
<1>2. /\ row.upper \in Int /\ row.lower \in Int
      /\ row.atr \in Nat \ {0} /\ row.atr \in Int /\ bar.close \in Int
  <2>1. row.atr \in Nat
    BY <1>1, KnownIs DEF Has
  <2> QED  BY <1>1, <2>1, KnownIs DEF Has, Measured, Candle
<1> HIDE DEF up
<1>3. level \in Int
  BY <1>2
<1> HIDE DEF level
<1>4. reach \in Int
  <2>1. PICK g \in Nat : g = 100 * Gap(bar.close, level)
    <3>1. Gap(bar.close, level) \in Nat
      BY <1>2, <1>3, GapIs
    <3> QED  BY <3>1
  <2>2. excess \in Int
    BY <1>2, <2>1, ShareIs
  <2> HIDE DEF excess
  <2>3. Capped(excess) \in Int
    BY <2>2, UnitIs
  <2>4. PICK x \in Int : x = 100 - (excess - 200) \div 3
    BY <2>2, SMT
  <2> QED  BY <2>3, <2>4 DEF Larger
<1>5. calm \in Int
  <2>1. ASSUME Known(row.consolidation) PROVE Unit(150 - row.consolidation) \in Int
    <3>1. 150 - row.consolidation \in Int
      BY <2>1, KnownIs DEF Measured
    <3>2. Unit(150 - row.consolidation) \in 0 .. 100
      BY <3>1, UnitIs
    <3> QED  BY <3>2
  <2> QED  BY <2>1
<1>6. RegimeScore("breakout", reading, 25) \in Int
  BY RegimeScoreIs
<1>7. volume \in Int
  OBVIOUS
<1> HIDE DEF reach, calm, volume
<1>8. score \in Int
  BY <1>4, <1>5, <1>6, <1>7
<1> HIDE DEF score
<1>9. score \div 100 \in Int
  BY <1>8, SMT
<1>10. behind \in Int /\ far \in Int
  <2>1. -25 \in Int
    OBVIOUS
  <2>2. behind \in Int
    BY <1>2, <1>3, <2>1, AheadIs
  <2> QED  BY <1>2, <2>2, StopIs
<1>11. dir \in {"LONG", "SHORT"}
  BY SideIs
<1> HIDE DEF behind, far, dir
<1>12. stop \in Int
  BY <1>10, MinOfPair, MaxOfPair
<1> HIDE DEF stop
<1>13. IsProposal(signal, bar.close)
  BY <1>9, <1>11, <1>12, SignalIs
<1> QED  BY <1>1, <1>13

LEMMA RejectionIs ==
  ASSUME NEW bar \in Candle, NEW dir
  PROVE  Rejection(bar, dir) \in Int
<1>1. bar.open \in Int /\ bar.high \in Int /\ bar.low \in Int /\ bar.close \in Int
  BY DEF Candle
<1>2. PICK x \in Int, y \in Int : x = Min({bar.open, bar.close}) /\ y = Max({bar.open, bar.close})
  <2>1. Min({bar.open, bar.close}) \in Int /\ Max({bar.open, bar.close}) \in Int
    BY <1>1, MinOfPair, MaxOfPair
  <2> QED  BY <2>1
<1>3. PICK part \in Int : part = IF dir = "LONG" THEN x - bar.low ELSE bar.high - y
  BY <1>1
<1>4. ASSUME ~ (bar.high <= bar.low) PROVE Share(part, bar.high - bar.low) \in Int
  <2>1. bar.high - bar.low \in Nat \ {0}
    BY <1>1, <1>4
  <2> QED  BY <2>1, ShareIs
<1> QED  BY <1>2, <1>3, <1>4 DEF Rejection

LEMMA SupportResistanceProposes ==
  ASSUME NEW row, IsRow(row), NEW bar \in Candle, NEW reading, reading.confidence \in Nat,
         "support_resistance" \in Enabled, NEW s \in SupportResistance(row, bar, reading)
  PROVE  IsProposal(s, bar.close)
<1> DEFINE near(distance, age) == /\ Known(distance) /\ distance \in 0 .. Roster.proximity
                                  /\ age \in Roster.minAge .. Roster.maxAge
           up == near(row.toSupport, row.supportAge)
           down == near(row.toResistance, row.resistanceAge)
           dir == Side(up)
           level == IF up THEN row.support ELSE row.resistance
           age == IF up THEN row.supportAge ELSE row.resistanceAge
           position == Share(age - Roster.minAge, Larger(Roster.maxAge - Roster.minAge, 1))
           rejection == Rejection(bar, dir)
           stop == StopAt("support_resistance", dir, level, row)
           wick == Capped((10 * rejection) \div 7)
           youth == Unit(100 - (100 * Gap(position, 35)) \div 65)
           score == 40 * wick + 20 * youth + 40 * RegimeScore("support_resistance", reading, 15)
           signal == Signal(dir, score \div 100, bar.close, stop,
                            TargetAt("support_resistance", dir, bar, row))
<1>1. Known(row.atr) /\ up # down /\ s = signal
  BY DEF SupportResistance
<1>2. /\ Roster.minAge \in Int /\ Roster.maxAge \in Int
      /\ row.atr \in Int /\ bar.close \in Int
  BY <1>1, KnownIs, RosterIs DEF Candle
<1>3. level \in Int /\ age \in Int
  <2>1. CASE up
    <3>1. Known(row.support) /\ row.supportAge \in Int
      BY <1>2, <2>1 DEF IsRow
    <3> QED  BY <2>1, <3>1, KnownIs DEF Measured
  <2>2. CASE ~up
    <3>1. down
      BY <1>1, <2>2
    <3>2. Known(row.resistance) /\ row.resistanceAge \in Int
      BY <1>2, <3>1 DEF IsRow
    <3> QED  BY <2>2, <3>2, KnownIs DEF Measured
  <2> QED  BY <2>1, <2>2
<1> HIDE DEF up, down, level, age
<1>4. youth \in Int
  <2>1. PICK x \in Int, y \in Int : x = age - Roster.minAge /\ y = Roster.maxAge - Roster.minAge
    BY <1>2, <1>3
  <2>2. Larger(y, 1) \in Nat \ {0}
    BY DEF Larger
  <2>3. position \in Int
    BY <2>1, <2>2, ShareIs
  <2> HIDE DEF position
  <2>4. PICK g \in Nat : g = Gap(position, 35)
    BY <2>3, GapIs
  <2>5. 100 - (100 * g) \div 65 \in Int
    BY SMT
  <2>6. Unit(100 - (100 * g) \div 65) \in 0 .. 100
    BY <2>5, UnitIs
  <2> QED  BY <2>4, <2>6
<1>5. wick \in Int
  <2>1. rejection \in Int
    BY RejectionIs
  <2> HIDE DEF rejection
  <2>2. (10 * rejection) \div 7 \in Int
    BY <2>1, SMT
  <2> QED  BY <2>2, UnitIs
<1>6. RegimeScore("support_resistance", reading, 15) \in Int
  BY RegimeScoreIs
<1> HIDE DEF wick, youth
<1>7. score \in Int
  BY <1>4, <1>5, <1>6
<1> HIDE DEF score
<1>8. score \div 100 \in Int
  BY <1>7, SMT
<1>9. stop \in Int
  BY <1>2, <1>3, StopIs
<1>10. dir \in {"LONG", "SHORT"}
  BY SideIs
<1> HIDE DEF dir, stop
<1>11. IsProposal(signal, bar.close)
  BY <1>8, <1>9, <1>10, SignalIs
<1> QED  BY <1>1, <1>11

\* Whichever strategy, reading and bar: a proposal enters at the close of the bar.
LEMMA ProposeIs ==
  ASSUME NEW name \in Enabled, NEW frame, NEW f, NEW reading, reading.confidence \in Nat,
         NEW t, frame[t] \in Candle, WarmAt(f, t) => IsRow(f.rows[t]),
         NEW s \in Propose(name, frame, f, reading, t)
  PROVE  IsProposal(s, frame[t].close)
<1> DEFINE row == f.rows[t]
           bar == frame[t]
<1>1. IsRow(row) /\ bar \in Candle /\ s \in Generate(name, row, bar, reading)
  BY DEF Propose, MayRun
<1> HIDE DEF row, bar
<1>2. name \in StrategyNames
  BY RosterAssumption DEF Enabled
<1>3. CASE name = "trend_following"
  <2>1. s \in TrendFollowing(row, bar, reading) /\ "trend_following" \in Enabled
    BY <1>1, <1>3 DEF Generate
  <2> QED  BY <1>1, <2>1, TrendFollowingProposes DEF bar
<1>4. CASE name = "momentum"
  <2>1. s \in Momentum(row, bar, reading) /\ "momentum" \in Enabled
    BY <1>1, <1>4 DEF Generate
  <2> QED  BY <1>1, <2>1, MomentumProposes DEF bar
<1>5. CASE name = "mean_reversion"
  <2>1. s \in MeanReversion(row, bar, reading) /\ "mean_reversion" \in Enabled
    BY <1>1, <1>5 DEF Generate
  <2> QED  BY <1>1, <2>1, MeanReversionProposes DEF bar
<1>6. CASE name = "breakout"
  <2>1. s \in Breakout(row, bar, reading) /\ "breakout" \in Enabled
    BY <1>1, <1>6 DEF Generate
  <2> QED  BY <1>1, <2>1, BreakoutProposes DEF bar
<1>7. CASE name = "support_resistance"
  <2>1. s \in SupportResistance(row, bar, reading) /\ "support_resistance" \in Enabled
    BY <1>1, <1>7 DEF Generate
  <2> QED  BY <1>1, <2>1, SupportResistanceProposes DEF bar
<1> QED  BY <1>2, <1>3, <1>4, <1>5, <1>6, <1>7 DEF StrategyNames

---------------------------------------------------------------------------
(* Weights *)

LEMMA RegimeFactorIs ==
  ASSUME NEW name, NEW reading
  PROVE  RegimeFactor(name, reading) \in Nat
BY DEF RegimeFactor

\* A sequence of closed trades with results.
IsClosed(closed) ==
  /\ closed \in Seq({closed[i] : i \in DOMAIN closed})
  /\ \A i \in DOMAIN closed : closed[i].r \in Int

LEMMA PerformanceIs ==
  ASSUME NEW closed, IsClosed(closed), NEW name, NEW reading
  PROVE  PerformanceFactor(closed, name, reading) \in Nat
<1> DEFINE S == Samples(closed, name, reading)
           g == [i \in S |-> closed[i].r]
           mean == SumFunction(g) \div Cardinality(S)
<1>1. S \subseteq DOMAIN closed /\ \A i \in S : closed[i].r \in Int
  BY DEF Samples, IsClosed
<1>2. IsFiniteSet(S)
  <2>1. closed \in Seq({closed[i] : i \in DOMAIN closed})
    BY DEF IsClosed
  <2>2. DOMAIN closed = 1 .. Len(closed) /\ Len(closed) \in Nat
    <3> DEFINE V == {closed[i] : i \in DOMAIN closed}
    <3>1. closed \in Seq(V)
      BY <2>1
    <3> HIDE DEF V
    <3> QED  BY <3>1, LenProperties
  <2>3. IsFiniteSet(DOMAIN closed)
    BY <2>2, FS_Interval
  <2> QED  BY <1>1, <2>3, FS_Subset
<1>3. PerformanceFactor(closed, name, reading) =
        IF Cardinality(S) < Selector.minSamples THEN 100
        ELSE IF mean <= -50 THEN 20
        ELSE IF mean < 0 THEN 50
        ELSE IF mean < 20 THEN 100 ELSE Min({150, 100 + mean})
  BY DEF PerformanceFactor
<1> HIDE DEF S
<1>4. PICK total \in Int : total = SumFunction(g)
  <2>1. DOMAIN g = S /\ \A i \in DOMAIN g : g[i] \in Int
    BY <1>1
  <2> HIDE DEF g
  <2> QED  BY <1>2, <2>1, SumTyped
<1>5. PICK n \in Nat : n = Cardinality(S)
  BY <1>2, FS_CardinalityType
<1>6. PICK least \in Nat \ {0} : least = Selector.minSamples
  BY SelectorAssumption
<1>7. n # 0 => mean \in Int
  BY <1>4, <1>5, SMT
<1> HIDE DEF mean
<1>8. mean \in Int /\ ~ (mean < 20) => Min({150, 100 + mean}) \in Nat
  <2> SUFFICES ASSUME mean \in Int, ~ (mean < 20) PROVE Min({150, 100 + mean}) \in Nat
    OBVIOUS
  <2>1. PICK x \in Nat : x = 100 + mean
    OBVIOUS
  <2>2. Min({150, x}) \in {150, x}
    BY MinOfPair
  <2> QED  BY <2>1, <2>2
<1>9. ~ (n < least) => mean \in Int
  BY <1>7
<1> QED  BY <1>3, <1>5, <1>6, <1>8, <1>9

LEMMA RawWeightIs ==
  ASSUME NEW name \in Enabled, NEW reading, reading.confidence \in Nat,
         NEW closed, IsClosed(closed)
  PROVE  RawWeight(name, reading, closed) \in Nat
<1>1. PICK a \in Nat : a = Config(name).weight
  BY RosterAssumption DEF StrategyConfig, Config, Enabled
<1>2. PICK b \in Nat : b = RegimeFactor(name, reading)
  BY RegimeFactorIs
<1>3. PICK c \in Nat : c = 50 + reading.confidence \div 2
  <2>1. reading.confidence \div 2 \in Nat
    BY SMT
  <2> QED  BY <2>1
<1>4. PICK d \in Nat : d = PerformanceFactor(closed, name, reading.regime)
  BY PerformanceIs
<1>5. PICK x \in Nat : x = a * b
  OBVIOUS
<1>6. PICK y \in Nat : y = x * c
  OBVIOUS
<1>7. PICK z \in Nat : z = y * d
  OBVIOUS
<1>8. z \div 10000 \in Nat
  BY SMT
<1>9. RawWeight(name, reading, closed) = (a * b * c * d) \div 10000
  BY <1>1, <1>2, <1>3, <1>4 DEF RawWeight
<1> QED  BY <1>5, <1>6, <1>7, <1>8, <1>9

LEMMA NormalisedIs ==
  ASSUME NEW D, IsFiniteSet(D), NEW weight \in [D -> Nat]
  PROVE  Normalised(weight) \in [D -> Nat]
<1>1. DOMAIN weight = D /\ \A n \in D : weight[n] \in Nat
  OBVIOUS
<1>2. PICK total \in Nat : total = SumFunction(weight)
  BY <1>1, SumOfMagnitudes
<1>3. ASSUME total # 0, NEW n \in D PROVE (1000 * weight[n]) \div total \in Nat
  <2>1. PICK x \in Nat : x = 1000 * weight[n]
    BY <1>1
  <2>2. x \div total \in Nat
    BY <1>3, SMT
  <2> QED  BY <2>1, <2>2
<1>4. CASE total = 0
  <2>1. Normalised(weight) = [n \in D |-> 0]
    BY <1>1, <1>2, <1>4 DEF Normalised
  <2> QED  BY <2>1
<1>5. CASE total # 0
  <2>1. Normalised(weight) = [n \in D |-> (1000 * weight[n]) \div total]
    BY <1>1, <1>2, <1>5 DEF Normalised
  <2> QED  BY <1>3, <1>5, <2>1
<1> QED  BY <1>4, <1>5

LEMMA EnabledIsFinite == IsFiniteSet(Enabled)
<1> DEFINE four == {"trend_following", "momentum", "mean_reversion", "breakout"}
<1>1. IsFiniteSet(four)
  BY FourAreFinite
<1>2. IsFiniteSet({"support_resistance"})
  BY FS_Singleton
<1> HIDE DEF four
<1>3. IsFiniteSet(four \cup {"support_resistance"})
  BY <1>1, <1>2, FS_Union
<1>4. Enabled \subseteq four \cup {"support_resistance"}
  BY RosterAssumption DEF Enabled, StrategyNames, four
<1> QED  BY <1>3, <1>4, FS_Subset

LEMMA SelectIs ==
  ASSUME NEW reading, reading.confidence \in Nat, NEW closed, IsClosed(closed)
  PROVE  Select(reading, closed) \in [Enabled -> Nat]
<1> DEFINE raw == [name \in Enabled |-> RawWeight(name, reading, closed)]
           share == Normalised(raw)
           kept == [name \in Enabled |-> IF share[name] < Selector.minWeight THEN 0 ELSE share[name]]
<1>1. raw \in [Enabled -> Nat]
  BY RawWeightIs
<1> HIDE DEF raw
<1>2. share \in [Enabled -> Nat]
  BY <1>1, EnabledIsFinite, NormalisedIs
<1>3. Select(reading, closed) = Normalised(kept)
  BY DEF Select, raw
<1> HIDE DEF share
<1>4. kept \in [Enabled -> Nat]
  BY <1>2
<1> HIDE DEF kept
<1> QED  BY <1>3, <1>4, EnabledIsFinite, NormalisedIs

---------------------------------------------------------------------------
(* Scores and means *)

\* A sum of multiples is the multiple of the sum.
LEMMA SumOfMultiples ==
  ASSUME NEW f, NEW g, NEW c \in Int, DOMAIN g = DOMAIN f, IsFiniteSet(DOMAIN f),
         \A x \in DOMAIN f : f[x] \in Int /\ g[x] = f[x] * c
  PROVE  SumFunction(g) = SumFunction(f) * c
<1> DEFINE D == DOMAIN f
           T == {s \in SUBSET D : SumFunctionOnSet(g, s) = SumFunctionOnSet(f, s) * c}
<1>1. {} \in T
  BY SumEmpty
<1>2. ASSUME NEW s \in SUBSET D, s # {}, \A x \in s : s \ {x} \in T
      PROVE  s \in T
  <2>1. IsFiniteSet(s) /\ \A x \in s : f[x] \in Int /\ g[x] \in Int
    BY FS_Subset
  <2>2. PICK x \in s : TRUE
    BY <1>2
  <2>3. PICK a \in Int, b \in Int : a = f[x] /\ b = SumFunctionOnSet(f, s \ {x})
    <3>1. IsFiniteSet(s \ {x}) /\ \A y \in s \ {x} : f[y] \in Int
      BY <2>1, FS_Subset
    <3>2. SumFunctionOnSet(f, s \ {x}) \in Int /\ f[x] \in Int
      BY <2>1, <3>1, SumIsInt
    <3> QED  BY <3>2
  <2>4. SumFunctionOnSet(f, s) = a + b /\ SumFunctionOnSet(g, s) = g[x] + SumFunctionOnSet(g, s \ {x})
    BY <2>1, <2>3, SumWithout
  <2>5. g[x] = a * c /\ SumFunctionOnSet(g, s \ {x}) = b * c
    BY <1>2, <2>3
  <2>6. a * c + b * c = (a + b) * c
    OBVIOUS
  <2> QED  BY <2>4, <2>5, <2>6
<1>3. \A s \in SUBSET D : s \in T
  <2> HIDE DEF T
  <2>1. \A s \in SUBSET D : s # {} /\ (\A x \in s : s \ {x} \in T) => s \in T
    BY <1>2
  <2> QED  BY <1>1, <2>1, SubsetInduction
<1> QED  BY <1>3 DEF SumFunction

\* What adds nothing may be left out.
LEMMA SumOfSupport ==
  ASSUME NEW f, IsFiniteSet(DOMAIN f), \A x \in DOMAIN f : f[x] \in Int,
         NEW g, DOMAIN g \subseteq DOMAIN f, \A x \in DOMAIN g : g[x] = f[x],
         \A x \in DOMAIN f \ DOMAIN g : f[x] = 0
  PROVE  SumFunction(g) = SumFunction(f)
<1> DEFINE D == DOMAIN f
           E == DOMAIN g
           T == {s \in SUBSET D : SumFunctionOnSet(f, s) = SumFunctionOnSet(g, s \cap E)}
<1>1. {} \in T
  <2>1. {} \cap E = {}
    OBVIOUS
  <2> QED  BY <2>1, SumEmpty
<1>2. ASSUME NEW s \in SUBSET D, s # {}, \A x \in s : s \ {x} \in T
      PROVE  s \in T
  <2>1. /\ IsFiniteSet(s) /\ \A x \in s : f[x] \in Int
        /\ IsFiniteSet(s \cap E) /\ \A x \in s \cap E : g[x] \in Int
    BY FS_Subset
  <2>2. PICK x \in s : TRUE
    BY <1>2
  <2>3. SumFunctionOnSet(f, s \ {x}) = SumFunctionOnSet(g, (s \ {x}) \cap E)
    BY <1>2
  <2>4. SumFunctionOnSet(f, s) = f[x] + SumFunctionOnSet(f, s \ {x})
    BY <2>1, SumWithout
  <2>5. CASE x \in E
    <3>1. SumFunctionOnSet(g, s \cap E) = g[x] + SumFunctionOnSet(g, (s \cap E) \ {x})
      BY <2>1, <2>5, SumWithout
    <3>2. (s \cap E) \ {x} = (s \ {x}) \cap E
      OBVIOUS
    <3> QED  BY <2>3, <2>4, <2>5, <3>1, <3>2
  <2>6. CASE x \notin E
    <3>1. s \cap E = (s \ {x}) \cap E /\ f[x] = 0
      BY <2>6
    <3>2. SumFunctionOnSet(f, s \ {x}) \in Int
      <4>1. IsFiniteSet(s \ {x}) /\ \A y \in s \ {x} : f[y] \in Int
        BY <2>1, FS_Subset
      <4> QED  BY <4>1, SumIsInt
    <3>3. SumFunctionOnSet(f, s) = SumFunctionOnSet(f, s \ {x})
      BY <2>4, <3>1, <3>2
    <3> QED  BY <2>3, <3>1, <3>3
  <2> QED  BY <2>5, <2>6
<1>3. \A s \in SUBSET D : s \in T
  <2> HIDE DEF T
  <2>1. \A s \in SUBSET D : s # {} /\ (\A x \in s : s \ {x} \in T) => s \in T
    BY <1>2
  <2> QED  BY <1>1, <2>1, SubsetInduction
<1>4. D \cap E = E /\ D \in SUBSET D
  OBVIOUS
<1>5. SumFunctionOnSet(f, D) = SumFunctionOnSet(g, E)
  BY <1>3, <1>4
<1> QED  BY <1>5 DEF SumFunction

\* The selector has weighed the strategies of the roster, or nothing.
IsTable(table) ==
  table = {} \/ \E w \in [Enabled -> Nat] : table = {w}

LEMMA WeightIs ==
  ASSUME NEW table, IsTable(table), NEW name \in Enabled
  PROVE  /\ WeightOf(name, table) \in Nat
         /\ \A w \in table : WeightOf(name, table) = w[name]
<1>1. CASE table = {}
  BY <1>1 DEF WeightOf
<1>2. CASE table # {}
  <2>1. PICK w \in [Enabled -> Nat] : table = {w}
    BY <1>2 DEF IsTable
  <2>2. (CHOOSE x \in table : TRUE) = w
    BY <2>1
  <2> QED  BY <1>2, <2>1, <2>2 DEF WeightOf
<1> QED  BY <1>1, <1>2

LEMMA MultipleDivides ==
  ASSUME NEW x \in Nat \ {0}, NEW c \in Int
  PROVE  (x * c) \div x = c
<1>1. PICK y \in Int : y = x * c
  OBVIOUS
<1>2. PICK q \in Int : q = y \div x /\ x * q <= y /\ y < x * q + x
  BY SMT
<1>3. ~ (q < c)
  <2> SUFFICES ASSUME q < c PROVE FALSE
    OBVIOUS
  <2>1. q + 1 <= c
    OBVIOUS
  <2>2. x * (q + 1) <= x * c
    BY <2>1, SMT
  <2>3. x * (q + 1) = x * q + x
    OBVIOUS
  <2> QED  BY <1>1, <1>2, <2>2, <2>3
<1>4. ~ (c < q)
  <2> SUFFICES ASSUME c < q PROVE FALSE
    OBVIOUS
  <2>1. x * c < x * q
    BY SMT
  <2> QED  BY <1>1, <1>2, <2>1
<1> QED  BY <1>1, <1>2, <1>3, <1>4

---------------------------------------------------------------------------
(* What the signals add up to *)

\* Well-formed signals of the strategies of one bar, which enter at its close.
IsVotes(votes, close) ==
  /\ close \in Nat \ {0} /\ DOMAIN votes \subseteq Enabled
  /\ \A n \in DOMAIN votes :
       /\ votes[n].dir \in {"LONG", "SHORT"} /\ votes[n].confidence \in Nat
       /\ votes[n].stop \in Int /\ votes[n].entry = close
       /\ WellFormed(votes[n])

LEMMA ForIs ==
  ASSUME NEW votes, NEW close, IsVotes(votes, close), NEW dir
  PROVE  /\ For(votes, dir) \subseteq DOMAIN votes /\ For(votes, dir) \subseteq Enabled
         /\ IsFiniteSet(For(votes, dir))
         /\ \A names : names \subseteq For(votes, dir) => IsFiniteSet(names)
<1>1. For(votes, dir) \subseteq DOMAIN votes /\ For(votes, dir) \subseteq Enabled
  BY DEF For, IsVotes
<1>2. \A names : names \subseteq For(votes, dir) => IsFiniteSet(names)
  BY <1>1, EnabledIsFinite, FS_Subset
<1> QED  BY <1>1, <1>2

LEMMA ScoreIs ==
  ASSUME NEW votes, NEW close, IsVotes(votes, close), NEW table, IsTable(table),
         NEW dir, NEW method
  PROVE  /\ Score(votes, table, dir, method) \in Nat
         /\ Score(votes, table, dir, method) > 0 =>
              \E n \in For(votes, dir) : WeightOf(n, table) > 0
<1> DEFINE names == {n \in For(votes, dir) : WeightOf(n, table) > 0}
           f == [n \in names |-> WeightOf(n, table)
                   * (IF method = "weighted" THEN votes[n].confidence ELSE 100)]
<1>1. Score(votes, table, dir, method) = SumFunction(f)
  BY DEF Score, Total
<1>2. DOMAIN f = names
  OBVIOUS
<1>3. IsFiniteSet(names)
  BY ForIs
<1>4. ASSUME NEW n \in names PROVE f[n] \in Nat
  <2>1. PICK w \in Nat : w = WeightOf(n, table)
    BY WeightIs, ForIs
  <2>2. PICK x \in Nat : x = IF method = "weighted" THEN votes[n].confidence ELSE 100
    <3>1. votes[n].confidence \in Nat
      BY ForIs DEF IsVotes
    <3> QED  BY <3>1
  <2>3. w * x \in Nat
    OBVIOUS
  <2> QED  BY <2>1, <2>2, <2>3
<1> HIDE DEF f
<1>5. SumFunction(f) \in Nat
  <2> HIDE DEF names
  <2> QED  BY <1>2, <1>3, <1>4, SumOfMagnitudes
<1>6. names = {} => SumFunction(f) = 0
  BY <1>2, SumNone
<1> QED  BY <1>1, <1>5, <1>6

\* The weights of a side of which one strategy counts.
LEMMA SomeWeight ==
  ASSUME NEW names, names \subseteq Enabled, NEW table, IsTable(table),
         NEW n \in names, WeightOf(n, table) > 0
  PROVE  SumFunction([m \in names |-> WeightOf(m, table)]) \in Nat \ {0}
<1> DEFINE f == [m \in names |-> WeightOf(m, table)]
<1>1. IsFiniteSet(DOMAIN f) /\ \A m \in DOMAIN f : f[m] \in Nat
  BY EnabledIsFinite, FS_Subset, WeightIs
<1>2. n \in DOMAIN f /\ f[n] = WeightOf(n, table)
  OBVIOUS
<1> HIDE DEF f
<1>3. SumFunction(f) \in Nat /\ SumFunction(f) >= f[n]
  BY <1>1, <1>2, SumOfMagnitudes
<1>4. f[n] \in Nat /\ f[n] > 0
  BY <1>1, <1>2
<1>5. SumFunction(f) # 0
  BY <1>3, <1>4
<1> QED  BY <1>3, <1>5 DEF f

\* The mean of entries that are all the same is that entry; the stop is the tightest.
LEMMA LevelsAre ==
  ASSUME NEW votes, NEW close, IsVotes(votes, close), NEW table, IsTable(table),
         NEW dir \in {"LONG", "SHORT"}, NEW n \in For(votes, dir), WeightOf(n, table) > 0
  PROVE  LET levels == Levels(votes, For(votes, dir), dir, table)
         IN /\ levels.entry = close /\ levels.stop \in Int
            /\ \A m \in For(votes, dir) : Abs(close - levels.stop) <= Abs(close - votes[m].stop)
<1> DEFINE names == For(votes, dir)
           f == [m \in names |-> WeightOf(m, table)]
           g == [m \in names |-> WeightOf(m, table) * votes[m].entry]
           mean == WeightedMean(names, table, LAMBDA m : votes[m].entry)
<1>1. /\ names \subseteq Enabled /\ names \subseteq DOMAIN votes /\ IsFiniteSet(names)
      /\ n \in names /\ close \in Nat \ {0}
  BY ForIs DEF IsVotes
<1>2. \A m \in names : /\ votes[m].dir = dir /\ votes[m].stop \in Int /\ votes[m].entry = close
                       /\ WellFormed(votes[m])
  BY DEF For, IsVotes
<1>3. SumFunction(f) \in Nat \ {0}
  BY <1>1, SomeWeight
<1>4. mean = SumFunction(g) \div SumFunction(f)
  BY <1>3 DEF WeightedMean, Total
<1>5. SumFunction(g) = SumFunction(f) * close
  <2>1. DOMAIN g = names /\ DOMAIN f = names
    OBVIOUS
  <2>2. \A m \in names : f[m] \in Int /\ g[m] = f[m] * close
    BY <1>1, <1>2, WeightIs
  <2> HIDE DEF names, f, g
  <2> QED  BY <1>1, <2>1, <2>2, SumOfMultiples
<1> DEFINE t == SumFunction(f)
<1>6. mean = close
  <2> HIDE DEF f, g, mean
  <2>1. t \in Nat \ {0} /\ mean = (t * close) \div t
    BY <1>3, <1>4, <1>5
  <2> HIDE DEF t
  <2> QED  BY <1>1, <2>1, MultipleDivides
<1> DEFINE stops == {votes[m].stop : m \in names}
           tightest == IF dir = "LONG" THEN Max(stops) ELSE Min(stops)
           widest == IF dir = "LONG" THEN Min(stops) ELSE Max(stops)
           levels == Levels(votes, names, dir, table)
<1>7. /\ levels.entry = mean
      /\ levels.stop = IF Toward(dir) * (mean - tightest) > 0 THEN tightest ELSE widest
  BY DEF Levels
<1> HIDE DEF mean, f, g, t, levels
<1>8. /\ stops # {} /\ (\A x \in stops : x \in Int) /\ (\A m \in names : votes[m].stop \in stops)
      /\ \A x \in stops : \E m \in names : x = votes[m].stop
  BY <1>1, <1>2
<1>9. IsFiniteSet(stops)
  <2> DEFINE h == [m \in names |-> votes[m].stop]
  <2>1. h \in Surjection(names, stops)
    BY DEF Surjection
  <2> HIDE DEF h, stops, names
  <2> QED  BY <1>1, <2>1, FS_Surjection
<1> HIDE DEF stops
<1>10. /\ Max(stops) \in stops /\ \A x \in stops : Max(stops) >= x
       /\ Min(stops) \in stops /\ \A x \in stops : Min(stops) <= x
  <2>1. (\E x \in stops : \A y \in stops : x <= y) /\ (\E x \in stops : \A y \in stops : x >= y)
    BY <1>8, <1>9, Extremes
  <2> QED  BY <2>1 DEF Max, Min
<1>11. \A x \in stops : x \in Int /\ Toward(dir) * (close - x) > 0
  <2>1. \A m \in names : Toward(dir) * (close - votes[m].stop) > 0
    BY <1>2 DEF WellFormed
  <2> HIDE DEF names
  <2> QED  BY <1>8, <2>1
<1>12. tightest \in stops /\ \A x \in stops : Abs(close - tightest) <= Abs(close - x)
  <2>1. close \in Int
    BY <1>1
  <2>2. CASE dir = "LONG"
    <3>1. PICK x \in Int : x = Max(stops)
      BY <1>8, <1>10
    <3>2. \A y \in stops : y \in Int /\ x >= y /\ close - x > 0 /\ close - y > 0
      BY <1>8, <1>10, <1>11, <2>1, <2>2, <3>1 DEF Toward
    <3> QED  BY <1>10, <2>1, <2>2, <3>1, <3>2 DEF Abs
  <2>3. CASE dir = "SHORT"
    <3>1. PICK x \in Int : x = Min(stops)
      BY <1>8, <1>10
    <3>2. \A y \in stops : y \in Int /\ x <= y /\ x - close > 0 /\ y - close > 0
      BY <1>8, <1>10, <1>11, <2>1, <2>3, <3>1 DEF Toward
    <3> QED  BY <1>10, <2>1, <2>3, <3>1, <3>2 DEF Abs
  <2> QED  BY <2>2, <2>3
<1> HIDE DEF tightest, widest
<1>13. levels.stop = tightest /\ tightest \in Int
  BY <1>6, <1>7, <1>8, <1>11, <1>12
<1>14. \A m \in names : Abs(close - tightest) <= Abs(close - votes[m].stop)
  <2> HIDE DEF names
  <2> QED  BY <1>8, <1>12
<1> QED  BY <1>6, <1>7, <1>13, <1>14 DEF levels

\* A trade enters at the close, and stops no farther from it than any signal it follows.
LEMMA DecisionIs ==
  ASSUME NEW votes, NEW close, IsVotes(votes, close), NEW table, IsTable(table),
         NEW config, NEW d, d = Aggregate(votes, table, config), Actionable(d)
  PROVE  /\ d.entry = close /\ d.stop \in Int
         /\ \A n \in d.contributing :
              /\ n \in DOMAIN votes /\ votes[n].dir = d.dir
              /\ Abs(close - d.stop) <= Abs(close - votes[n].stop)
<1> DEFINE score == [dir \in {"LONG", "SHORT"} |-> Score(votes, table, dir, config.method)]
           long == score["LONG"]
           short == score["SHORT"]
           dir == IF long > short THEN "LONG" ELSE "SHORT"
           levels == Levels(votes, For(votes, dir), dir, table)
<1>1. /\ ~ (long + short <= 0) /\ d.dir = dir /\ d.entry = levels.entry /\ d.stop = levels.stop
      /\ d.contributing = For(votes, dir)
  BY DEF Aggregate, Actionable, StandAside
<1>2. /\ long \in Nat /\ short \in Nat
      /\ (long > 0 => \E n \in For(votes, "LONG") : WeightOf(n, table) > 0)
      /\ (short > 0 => \E n \in For(votes, "SHORT") : WeightOf(n, table) > 0)
  BY ScoreIs
<1> HIDE DEF score
<1>3. (long > short /\ long > 0) \/ (~ (long > short) /\ short > 0)
  BY <1>1, <1>2
<1>4. dir \in {"LONG", "SHORT"} /\ \E n \in For(votes, dir) : WeightOf(n, table) > 0
  BY <1>2, <1>3
<1> HIDE DEF dir
<1>5. /\ levels.entry = close /\ levels.stop \in Int
      /\ \A m \in For(votes, dir) : Abs(close - levels.stop) <= Abs(close - votes[m].stop)
  BY <1>4, LevelsAre
<1>6. \A m \in For(votes, dir) : m \in DOMAIN votes /\ votes[m].dir = dir
  BY DEF For
<1> QED  BY <1>1, <1>5, <1>6

\* A strategy without a weight adds nothing to a score, nor to a mean.
LEMMA OnlyHeardDecide ==
  ASSUME NEW votes, NEW close, IsVotes(votes, close),
         NEW w \in [Enabled -> Nat], NEW table, table = {w},
         NEW heard, heard = [n \in {m \in DOMAIN votes : w[m] > 0} |-> votes[n]],
         NEW config, config.method = "weighted"
  PROVE  LET all == Aggregate(votes, table, config)
             few == Aggregate(heard, table, config)
         IN all.dir = few.dir /\ all.confidence = few.confidence
<1>1. IsTable(table) /\ \A n \in Enabled : WeightOf(n, table) = w[n] /\ w[n] \in Nat
  BY WeightIs DEF IsTable
<1>2. ASSUME NEW dir
      PROVE  For(heard, dir) = {n \in For(votes, dir) : WeightOf(n, table) > 0}
  BY <1>1 DEF For, IsVotes
<1>3. ASSUME NEW dir
      PROVE  Score(heard, table, dir, "weighted") = Score(votes, table, dir, "weighted")
  <2> DEFINE names == {n \in For(votes, dir) : WeightOf(n, table) > 0}
  <2>1. {n \in For(heard, dir) : WeightOf(n, table) > 0} = names
    BY <1>2
  <2>2. \A n \in names : heard[n] = votes[n]
    BY <1>1 DEF For, IsVotes
  <2>3. [n \in names |-> WeightOf(n, table) * heard[n].confidence]
          = [n \in names |-> WeightOf(n, table) * votes[n].confidence]
    <3> HIDE DEF names
    <3> QED  BY <2>2
  <2> QED  BY <2>1, <2>3 DEF Score, Total
<1>4. ASSUME NEW dir, NEW n \in For(votes, dir), WeightOf(n, table) > 0
      PROVE  WeightedMean(For(heard, dir), table, LAMBDA m : heard[m].confidence)
               = WeightedMean(For(votes, dir), table, LAMBDA m : votes[m].confidence)
  <2> DEFINE many == For(votes, dir)
             few == For(heard, dir)
             f == [m \in many |-> WeightOf(m, table)]
             g == [m \in few |-> WeightOf(m, table)]
             h == [m \in many |-> WeightOf(m, table) * votes[m].confidence]
             k == [m \in few |-> WeightOf(m, table) * heard[m].confidence]
  <2>1. /\ many \subseteq Enabled /\ many \subseteq DOMAIN votes /\ IsFiniteSet(many)
        /\ few = {m \in many : WeightOf(m, table) > 0} /\ n \in few /\ few \subseteq Enabled
    BY <1>2, <1>4, ForIs
  <2>2. \A m \in many : /\ WeightOf(m, table) \in Nat /\ votes[m].confidence \in Nat
                        /\ WeightOf(m, table) * votes[m].confidence \in Nat
    BY <1>1, <2>1 DEF IsVotes
  <2>3. \A m \in few : heard[m] = votes[m]
    BY <1>1, <2>1
  <2> HIDE DEF many, few
  <2>4. ASSUME NEW m \in many \ few PROVE WeightOf(m, table) = 0
    <3>1. PICK x \in Nat : x = WeightOf(m, table)
      BY <2>2
    <3>2. ~ (x > 0)
      BY <2>1, <3>1
    <3> QED  BY <3>1, <3>2
  <2>5. DOMAIN f = many /\ DOMAIN g = few /\ DOMAIN h = many /\ DOMAIN k = few
    OBVIOUS
  <2>6. SumFunction(g) = SumFunction(f)
    <3>1. ASSUME NEW m \in many PROVE f[m] \in Int
      <4>1. f[m] = WeightOf(m, table)
        OBVIOUS
      <4>2. PICK x \in Nat : x = WeightOf(m, table)
        BY <2>2
      <4> QED  BY <4>1, <4>2
    <3>2. \A m \in few : m \in many /\ g[m] = f[m]
      BY <2>1
    <3>3. \A m \in many \ few : f[m] = 0
      BY <2>4
    <3> HIDE DEF f, g
    <3> QED  BY <2>1, <2>5, <3>1, <3>2, <3>3, SumOfSupport
  <2>7. SumFunction(k) = SumFunction(h)
    <3>1. ASSUME NEW m \in many PROVE h[m] \in Int
      <4>1. h[m] = WeightOf(m, table) * votes[m].confidence
        OBVIOUS
      <4>2. PICK x \in Nat : x = WeightOf(m, table) * votes[m].confidence
        BY <2>2
      <4> QED  BY <4>1, <4>2
    <3>2. \A m \in few : m \in many /\ k[m] = h[m]
      BY <2>1, <2>3
    <3>3. ASSUME NEW m \in many \ few PROVE h[m] = 0
      <4>1. h[m] = WeightOf(m, table) * votes[m].confidence
        OBVIOUS
      <4>2. PICK x \in Nat : x = votes[m].confidence
        BY <2>2
      <4>3. 0 * x = 0
        OBVIOUS
      <4> QED  BY <2>4, <4>1, <4>2, <4>3
    <3> HIDE DEF h, k
    <3> QED  BY <2>1, <2>5, <3>1, <3>2, <3>3, SumOfSupport
  <2>8. SumFunction(f) \in Nat \ {0}
    BY <1>1, <1>4, <2>1, SomeWeight
  <2>9. /\ WeightedMean(many, table, LAMBDA m : votes[m].confidence) = SumFunction(h) \div SumFunction(f)
        /\ WeightedMean(few, table, LAMBDA m : heard[m].confidence) = SumFunction(k) \div SumFunction(g)
    BY <2>6, <2>8 DEF WeightedMean, Total
  <2> QED  BY <2>6, <2>7, <2>9 DEF many, few
<1> DEFINE score == [dir \in {"LONG", "SHORT"} |-> Score(votes, table, dir, config.method)]
           count == [dir \in {"LONG", "SHORT"} |-> Score(heard, table, dir, config.method)]
           total(s) == s["LONG"] + s["SHORT"]
           dir(s) == IF s["LONG"] > s["SHORT"] THEN "LONG" ELSE "SHORT"
           lead(s) == s[dir(s)] - s[Opposite(dir(s))]
           confidence(s, x) == Min({100, (x * (50 + (50 * lead(s)) \div total(s))) \div 100})
           aside(s) == \/ total(s) <= 0
                       \/ config.policy = "abstain" /\ \A d \in {"LONG", "SHORT"} : s[d] > 0
                       \/ 100 * lead(s) < config.minMargin * total(s)
           stands(s, x) == aside(s) \/ confidence(s, x) < config.minConfidence
           mean(s) == WeightedMean(For(votes, dir(s)), table, LAMBDA m : votes[m].confidence)
           other(s) == WeightedMean(For(heard, dir(s)), table, LAMBDA m : heard[m].confidence)
           label(s, x) == IF stands(s, x) THEN "WAIT" ELSE dir(s)
           trust(s, x) == IF stands(s, x) THEN 0 ELSE confidence(s, x)
<1>5. count = score
  BY <1>3
<1>6. /\ Aggregate(votes, table, config).dir = label(score, mean(score))
      /\ Aggregate(votes, table, config).confidence = trust(score, mean(score))
  BY DEF Aggregate, StandAside
<1>7. /\ Aggregate(heard, table, config).dir = label(count, other(count))
      /\ Aggregate(heard, table, config).confidence = trust(count, other(count))
  BY DEF Aggregate, StandAside
<1>8. ~ (total(score) <= 0) => mean(score) = other(score)
  <2> SUFFICES ASSUME ~ (total(score) <= 0) PROVE mean(score) = other(score)
    OBVIOUS
  <2> DEFINE long == score["LONG"]
             short == score["SHORT"]
             side == dir(score)
  <2>1. /\ long \in Nat /\ short \in Nat
        /\ (long > 0 => \E n \in For(votes, "LONG") : WeightOf(n, table) > 0)
        /\ (short > 0 => \E n \in For(votes, "SHORT") : WeightOf(n, table) > 0)
    BY <1>1, ScoreIs
  <2> HIDE DEF score
  <2>2. (long > short /\ long > 0) \/ (~ (long > short) /\ short > 0)
    BY <2>1
  <2>3. PICK n \in For(votes, side) : WeightOf(n, table) > 0
    BY <2>1, <2>2
  <2> HIDE DEF side
  <2>4. WeightedMean(For(heard, side), table, LAMBDA m : heard[m].confidence)
               = WeightedMean(For(votes, side), table, LAMBDA m : votes[m].confidence)
    BY <1>4, <2>3
  <2> QED  BY <2>4 DEF side
<1> HIDE DEF score, count
<1>9. label(score, mean(score)) = label(score, other(score))
      /\ trust(score, mean(score)) = trust(score, other(score))
  <2>1. CASE total(score) <= 0
    <3>1. \A x : stands(score, x)
      BY <2>1
    <3> HIDE DEF stands
    <3> QED  BY <3>1
  <2>2. CASE ~ (total(score) <= 0)
    <3> HIDE DEF label, trust, mean, other, total
    <3> QED  BY <1>8, <2>2
  <2> QED  BY <2>1, <2>2
<1> HIDE DEF label, trust, mean, other
<1>10. /\ Aggregate(votes, table, config).dir = Aggregate(heard, table, config).dir
       /\ Aggregate(votes, table, config).confidence = Aggregate(heard, table, config).confidence
  BY <1>5, <1>6, <1>7, <1>9
<1> QED  BY <1>10

---------------------------------------------------------------------------
(* What a run reads *)

LEMMA InputIs ==
  ASSUME NEW in \in Inputs
  PROVE  /\ in.account \in Accounts /\ in.closed \in Closed
         /\ in.frame[in.bar] \in Candle
         /\ \A t \in DOMAIN Panels[in.frame].rows : IsRow(Panels[in.frame].rows[t])
         /\ \A t \in DOMAIN Upto(Panels[in.frame], in.bar).rows :
              IsRow(Upto(Panels[in.frame], in.bar).rows[t])
<1>1. PICK f \in Histories, t \in Bars :
        /\ t <= Len(f) /\ in.bar = t /\ in.frame \in {f, UpTo(f, t)}
        /\ in.account \in Accounts /\ in.closed \in Closed
  BY DEF Inputs
<1>2. f \in Seq(Candle) /\ t \in Nat \ {0}
  BY GraphAssumption
<1>3. Holds(f, Len(f), Candle)
  <2>1. f = [i \in 1 .. Len(f) |-> f[i]] /\ Len(f) \in Nat /\ \A i \in 1 .. Len(f) : f[i] \in Candle
    BY <1>2
  <2>2. f \o <<>> = f /\ Holds(f \o <<>>, Len(f), Candle)
    BY <2>1, SeriesIs, SeriesHolds
  <2> QED  BY <2>2
<1>4. t \in 1 .. Len(f) /\ t \in DOMAIN f
  BY <1>1, <1>2
<1>5. Holds(UpTo(f, t), t, Candle)
  <2>1. Cut(UpTo(f, t), t, f, Len(f))
    BY <1>3, <1>4, PrefixCut DEF UpTo, Holds
  <2> QED  BY <1>3, <2>1, CutIs DEF Cut, Holds
<1>6. PICK n \in Nat : Holds(in.frame, n, Candle) /\ t \in 1 .. n
  <2>1. in.frame = f \/ in.frame = UpTo(f, t)
    BY <1>1
  <2>2. Len(f) \in Nat /\ t \in 1 .. t
    BY <1>2
  <2> QED  BY <1>3, <1>4, <1>5, <2>1, <2>2
<1>7. in.frame \in Frames
  BY <1>1, <1>4 DEF Frames
<1>8. Panels[in.frame] = Compute(in.frame)
  BY <1>7 DEF Panels
<1> DEFINE rows == Compute(in.frame).rows
           S == {row \in {Row(Columns(in.frame), i) : i \in 1 .. n} : IsRow(row)}
<1>9. Holds(rows, n, S) /\ \A row \in S : IsRow(row)
  BY <1>6, ComputeHolds
<1>10. Upto(Compute(in.frame), t).rows = SubSeq(rows, 1, t)
  BY DEF Compute, Upto
<1> HIDE DEF rows, S
<1>11. DOMAIN rows = 1 .. n /\ \A i \in 1 .. n : IsRow(rows[i])
  BY <1>9, HoldsIs
<1>12. DOMAIN SubSeq(rows, 1, t) = 1 .. t /\ \A i \in 1 .. t : IsRow(SubSeq(rows, 1, t)[i])
  <2>1. Cut(SubSeq(rows, 1, t), t, rows, n)
    BY <1>6, <1>9, PrefixCut DEF Holds
  <2> HIDE DEF rows
  <2> QED  BY <1>11, <2>1, CutIs
<1>13. in.frame[t] \in Candle
  BY <1>6, HoldsIs
<1>14. in.bar = t
  BY <1>1
<1>15. /\ \A i \in DOMAIN Compute(in.frame).rows : IsRow(Compute(in.frame).rows[i])
       /\ \A i \in DOMAIN Upto(Compute(in.frame), t).rows : IsRow(Upto(Compute(in.frame), t).rows[i])
  BY <1>10, <1>11, <1>12 DEF rows
<1> QED  BY <1>1, <1>8, <1>13, <1>14, <1>15

---------------------------------------------------------------------------
(* What a run has sized *)

\* The features of a run, where they are warm, are numbers or missing.
Panelled == \A f \in features : \A t \in DOMAIN f.rows : IsRow(f.rows[t])

\* The weights and the signals are those the nodes can write; the decision is the sum
\* of the signals, the verdict is about the decision, an order is what was approved.
Sized ==
  /\ IsTable(weights)
  /\ \A n \in DOMAIN signals : \A s \in signals[n] : WellFormed(s)
  /\ \A d \in aggregated : d = Decided(Proposed)
  /\ \A v \in verdict : \E d \in aggregated, corr \in Matrices :
                          v = Evaluated(FinalSignal(d), input.account, corr)
  /\ pending = {"order"} => \A v \in verdict : v.approved
  /\ \A o \in order : \E d \in aggregated, v \in verdict :
       /\ v.approved
       /\ o = [dir |-> d.dir, qty |-> v.quantity, entry |-> d.entry, stop |-> d.stop,
               target |-> d.target]

Traced == Control /\ Judged /\ Panelled /\ Sized

LEMMA InitPanelled == Init => Panelled /\ Sized
<1> SUFFICES ASSUME Init PROVE Panelled /\ Sized
  OBVIOUS
<1>1. Panelled
  BY InputIs DEF Init, Panelled
<1>2. Sized
  BY DEF Init, Sized, IsTable
<1> QED  BY <1>1, <1>2

LEMMA FeaturePanelled == Traced /\ FeatureNode => Panelled' /\ Sized'
<1> SUFFICES ASSUME Traced, FeatureNode PROVE Panelled' /\ Sized'
  OBVIOUS
<1>1. /\ input' = input /\ weights' = weights /\ signals' = signals
      /\ aggregated' = aggregated /\ verdict' = verdict /\ order' = order
      /\ features' = features \/ features' = {Panels[input.frame]}
      /\ pending' = {"finalise"} \/ pending' = {"regime"}
  BY DEF FeatureNode, Raise, FailsAnyway, Results
<1>2. Panelled'
  BY <1>1, InputIs DEF Panelled, Traced, Judged
<1>3. Decided(Proposed)' = Decided(Proposed)
  BY <1>1 DEF Decided, Proposed, SignalOf
<1>4. pending' # {"order"}
  BY <1>1
<1>5. Sized'
  BY <1>1, <1>3, <1>4 DEF Sized, Traced
<1> QED  BY <1>2, <1>5

LEMMA RegimePanelled == Traced /\ RegimeNode => Panelled' /\ Sized'
<1> SUFFICES ASSUME Traced, RegimeNode PROVE Panelled' /\ Sized'
  OBVIOUS
<1>1. /\ input' = input /\ weights' = weights /\ signals' = signals /\ features' = features
      /\ aggregated' = aggregated /\ verdict' = verdict /\ order' = order
      /\ pending' = Enabled
  BY DEF RegimeNode, Raise, FailsAnyway, Results
<1>2. Decided(Proposed)' = Decided(Proposed)
  BY <1>1 DEF Decided, Proposed, SignalOf
<1>3. pending' # {"order"}
  BY <1>1, StrategiesApart DEF Stage
<1> QED  BY <1>1, <1>2, <1>3 DEF Sized, Traced, Panelled

LEMMA StrategyPanelled ==
  ASSUME NEW name \in Enabled, Traced, StrategyNode(name)
  PROVE  Panelled' /\ Sized'
<1>1. /\ name \in pending /\ pending' = After(name) /\ input' = input /\ features' = features
      /\ weights' = weights /\ aggregated' = aggregated /\ verdict' = verdict /\ order' = order
  BY DEF StrategyNode, Raise, FailsAnyway, Results
<1>2. Asking
  BY <1>1, StrategiesApart DEF Traced, Control, Staged, Over, Asking
<1>3. aggregated = {} /\ verdict = {} /\ order = {}
  BY <1>1, <1>2 DEF Traced, Control, InOrder, Unsized, Unweighed, Over
<1>4. pending' # {"order"}
  BY <1>1, <1>2, StrategiesApart DEF After, Asking, Stage
<1>5. \A n \in DOMAIN signals' : \A s \in signals'[n] : WellFormed(s)
  <2>1. \/ signals' = signals
        \/ /\ signals' = [n \in DOMAIN signals \cup {name} |->
                            IF n = name THEN Answer(name) ELSE signals[n]]
           /\ \A s \in Answer(name) : WellFormed(s)
    BY DEF StrategyNode, Raise, FailsAnyway, Results
  <2> QED  BY <2>1 DEF Sized, Traced
<1> QED  BY <1>1, <1>3, <1>4, <1>5 DEF Sized, Traced, Panelled

LEMMA SelectionPanelled == Traced /\ SelectionNode => Panelled' /\ Sized'
<1> SUFFICES ASSUME Traced, SelectionNode PROVE Panelled' /\ Sized'
  OBVIOUS
<1>1. /\ pending = {"selection"} /\ pending' = {"aggregation"} /\ input' = input
      /\ features' = features /\ signals' = signals
      /\ aggregated' = aggregated /\ verdict' = verdict /\ order' = order
  BY DEF SelectionNode, Raise, FailsAnyway, Results
<1>2. aggregated = {} /\ verdict = {} /\ order = {}
  BY <1>1 DEF Traced, Control, InOrder, Unsized, Unweighed, Over
<1>3. IsTable(weights')
  <2>1. \/ weights' = weights
        \/ \E r \in (IF regime = {} THEN {UnknownRegime} ELSE regime) :
             weights' = {Select(r, input.closed)}
    BY DEF SelectionNode, Raise, FailsAnyway, Results
  <2>2. ASSUME NEW r \in (IF regime = {} THEN {UnknownRegime} ELSE regime)
        PROVE  Select(r, input.closed) \in [Enabled -> Nat]
    <3>1. r.confidence \in Nat
      <4>1. CASE regime = {}
        BY <4>1 DEF UnknownRegime
      <4>2. CASE regime # {}
        <5>1. PICK f \in features : r = Detect(f, input.bar)
          BY <4>2 DEF Traced, Judged
        <5>2. WarmAt(f, input.bar) => IsRow(f.rows[input.bar])
          BY DEF Traced, Panelled, WarmAt
        <5> QED  BY <5>1, <5>2, DetectIs
      <4> QED  BY <4>1, <4>2
    <3>2. IsClosed(input.closed)
      <4>1. input.closed \in Closed
        BY InputIs DEF Traced, Judged
      <4> QED  BY <4>1, CallerAssumption DEF IsClosed
    <3> QED  BY <3>1, <3>2, SelectIs
  <2> QED  BY <2>1, <2>2 DEF IsTable, Traced, Sized
<1>4. pending' # {"order"}
  BY <1>1
<1> QED  BY <1>1, <1>2, <1>3, <1>4 DEF Sized, Traced, Panelled

LEMMA AggregationPanelled == Traced /\ AggregationNode => Panelled' /\ Sized'
<1> SUFFICES ASSUME Traced, AggregationNode PROVE Panelled' /\ Sized'
  OBVIOUS
<1>1. /\ pending = {"aggregation"} /\ input' = input /\ features' = features
      /\ weights' = weights /\ signals' = signals /\ verdict' = verdict /\ order' = order
      /\ pending' = {"risk"} \/ pending' = {"finalise"}
      /\ aggregated' = {Decided(Proposed)} \/ aggregated' = aggregated
  BY DEF AggregationNode, Raise, FailsAnyway, Results
<1>2. aggregated = {} /\ verdict = {} /\ order = {}
  BY <1>1 DEF Traced, Control, InOrder, Unsized, Unweighed, Over
<1>3. Decided(Proposed)' = Decided(Proposed)
  BY <1>1 DEF Decided, Proposed, SignalOf
<1>4. pending' # {"order"}
  BY <1>1
<1> QED  BY <1>1, <1>2, <1>3, <1>4 DEF Sized, Traced, Panelled

LEMMA RiskPanelled == Traced /\ RiskNode => Panelled' /\ Sized'
<1> SUFFICES ASSUME Traced, RiskNode PROVE Panelled' /\ Sized'
  OBVIOUS
<1>1. /\ pending = {"risk"} /\ input' = input /\ features' = features
      /\ weights' = weights /\ signals' = signals /\ aggregated' = aggregated /\ order' = order
      /\ pending' = IF \E v \in verdict' : v.approved THEN {"order"} ELSE {"finalise"}
  BY DEF RiskNode, Raise, FailsAnyway, Results
<1>2. verdict = {} /\ order = {}
  BY <1>1 DEF Traced, Control, InOrder, Unsized, Over
<1>3. \/ verdict' = {}
      \/ \E d \in aggregated, corr \in Matrices :
           verdict' = {Evaluated(FinalSignal(d), input.account, corr)}
  BY <1>2 DEF RiskNode, Raise, FailsAnyway, Results
<1>4. \A v \in verdict' : \E d \in aggregated, corr \in Matrices :
        v = Evaluated(FinalSignal(d), input.account, corr)
  BY <1>3
<1>5. pending' = {"order"} => \A v \in verdict' : v.approved
  BY <1>1, <1>3
<1>6. Decided(Proposed)' = Decided(Proposed)
  BY <1>1 DEF Decided, Proposed, SignalOf
<1> QED  BY <1>1, <1>2, <1>4, <1>5, <1>6 DEF Sized, Traced, Panelled

LEMMA OrderPanelled == Traced /\ OrderNode => Panelled' /\ Sized'
<1> SUFFICES ASSUME Traced, OrderNode PROVE Panelled' /\ Sized'
  OBVIOUS
<1>1. /\ pending = {"order"} /\ input' = input /\ features' = features /\ pending' = {}
      /\ weights' = weights /\ signals' = signals /\ aggregated' = aggregated
      /\ verdict' = verdict
      /\ \/ order' = order
         \/ order' = {[dir |-> d.dir, qty |-> v.quantity, entry |-> d.entry,
                       stop |-> d.stop, target |-> d.target] : d \in aggregated, v \in verdict}
  BY DEF OrderNode, Raise, FailsAnyway, Results
<1>2. \A v \in verdict : v.approved
  BY <1>1 DEF Traced, Sized
<1>3. \A o \in order' : \E d \in aggregated, v \in verdict :
        /\ v.approved
        /\ o = [dir |-> d.dir, qty |-> v.quantity, entry |-> d.entry, stop |-> d.stop,
                target |-> d.target]
  <2>1. CASE order' = order
    BY <2>1 DEF Traced, Sized
  <2>2. CASE order' # order
    BY <1>1, <1>2, <2>2
  <2> QED  BY <2>1, <2>2
<1>4. Decided(Proposed)' = Decided(Proposed)
  BY <1>1 DEF Decided, Proposed, SignalOf
<1>5. pending' # {"order"}
  BY <1>1
<1> QED  BY <1>1, <1>3, <1>4, <1>5 DEF Sized, Traced, Panelled

LEMMA FinalisePanelled == Traced /\ FinaliseNode => Panelled' /\ Sized'
<1> SUFFICES ASSUME Traced, FinaliseNode PROVE Panelled' /\ Sized'
  OBVIOUS
<1>1. /\ input' = input /\ features' = features /\ pending' = {}
      /\ weights' = weights /\ signals' = signals /\ aggregated' = aggregated
      /\ verdict' = verdict /\ order' = order
  BY DEF FinaliseNode, Raise, FailsAnyway, Results
<1>2. Decided(Proposed)' = Decided(Proposed)
  BY <1>1 DEF Decided, Proposed, SignalOf
<1>3. pending' # {"order"}
  BY <1>1
<1> QED  BY <1>1, <1>2, <1>3 DEF Sized, Traced, Panelled

LEMMA SpecTraced == Spec => []Traced
<1>1. Init => Panelled /\ Sized
  BY InitPanelled
<1>2. Control /\ Judged /\ Panelled /\ Sized /\ [Next]_vars => Panelled' /\ Sized'
  <2> SUFFICES ASSUME Traced, [Next]_vars PROVE Panelled' /\ Sized'
    BY DEF Traced
  <2>1. CASE UNCHANGED vars
    <3>1. Decided(Proposed)' = Decided(Proposed)
      BY <2>1 DEF vars, Decided, Proposed, SignalOf
    <3> QED  BY <2>1, <3>1 DEF vars, Traced, Panelled, Sized
  <2>2. CASE Next
    BY <2>2, FeaturePanelled, RegimePanelled, StrategyPanelled, SelectionPanelled,
       AggregationPanelled, RiskPanelled, OrderPanelled, FinalisePanelled DEF Next
  <2> QED  BY <2>1, <2>2
<1>3. Control /\ Judged /\ Panelled /\ Sized => Traced
  BY DEF Traced
<1> QED  BY <1>1, <1>2, <1>3, SpecJudged, PTL DEF Spec

\* The aggregator stands aside or takes a side.
LEMMA AsideOrSided ==
  ASSUME NEW votes, NEW table, NEW config
  PROVE  \/ Aggregate(votes, table, config) = StandAside
         \/ Aggregate(votes, table, config).dir \in {"LONG", "SHORT"}
<1> DEFINE score == [dir \in {"LONG", "SHORT"} |-> Score(votes, table, dir, config.method)]
           dir == IF score["LONG"] > score["SHORT"] THEN "LONG" ELSE "SHORT"
<1>1. \/ Aggregate(votes, table, config) = StandAside
      \/ Aggregate(votes, table, config).dir = dir
  BY DEF Aggregate
<1>2. dir \in {"LONG", "SHORT"}
  OBVIOUS
<1> HIDE DEF dir
<1> QED  BY <1>1, <1>2

\* The signals of a run enter at the close of its bar.
LEMMA VotesAre ==
  ASSUME Traced, NEW names, names \subseteq Proposed
  PROVE  IsVotes([n \in names |-> SignalOf(n)], input.frame[input.bar].close)
<1> DEFINE bar == input.frame[input.bar]
           votes == [n \in names |-> SignalOf(n)]
<1>1. bar \in Candle /\ bar.close \in Nat \ {0}
  BY InputIs DEF Traced, Judged, Candle
<1>2. ASSUME NEW n \in names
      PROVE  /\ n \in Enabled /\ IsProposal(SignalOf(n), bar.close) /\ WellFormed(SignalOf(n))
  <2>1. n \in DOMAIN signals /\ signals[n] # {} /\ n \in Enabled /\ signals[n] = Answer(n)
    BY DEF Proposed, Traced, Judged
  <2>2. SignalOf(n) \in signals[n] /\ WellFormed(SignalOf(n))
    BY <2>1 DEF SignalOf, Traced, Sized
  <2>3. PICK f \in features, r \in regime :
          SignalOf(n) \in Propose(n, input.frame, f, r, input.bar)
    BY <2>1, <2>2 DEF Answer
  <2>4. r.confidence \in Nat
    <3>1. PICK g \in features : r = Detect(g, input.bar)
      BY DEF Traced, Judged
    <3>2. WarmAt(g, input.bar) => IsRow(g.rows[input.bar])
      BY DEF Traced, Panelled, WarmAt
    <3> QED  BY <3>1, <3>2, DetectIs
  <2>5. WarmAt(f, input.bar) => IsRow(f.rows[input.bar])
    BY DEF Traced, Panelled, WarmAt
  <2>6. IsProposal(SignalOf(n), bar.close)
    BY <1>1, <2>1, <2>3, <2>4, <2>5, ProposeIs
  <2> QED  BY <2>1, <2>2, <2>6
<1> HIDE DEF bar
<1>3. \A n \in names : /\ SignalOf(n).dir \in {"LONG", "SHORT"} /\ SignalOf(n).confidence \in Nat
                       /\ SignalOf(n).stop \in Int /\ SignalOf(n).entry = bar.close
                       /\ WellFormed(SignalOf(n)) /\ n \in Enabled
  BY <1>2, NoStopIs DEF IsProposal
<1>4. IsVotes(votes, bar.close)
  BY <1>1, <1>3 DEF IsVotes
<1> QED  BY <1>4 DEF bar

\* Whatever the strategies propose and whichever of them raise: a strategy the selector
\* has given no weight changes neither the direction nor the confidence of the ensemble
\* (SignalAggregator.aggregate in weighted mode, app/signals/aggregator.py).
THEOREM OnlyWeightedStrategiesDecide == Spec => []SilencedDoNotVote
<1>1. Traced => SilencedDoNotVote
  <2> SUFFICES ASSUME Traced, weights # {}, input.aggregator.method = "weighted",
                      NEW d \in aggregated
               PROVE  LET heard == Decided({n \in Proposed : \E w \in weights : w[n] > 0})
                      IN d.dir = heard.dir /\ d.confidence = heard.confidence
    BY DEF SilencedDoNotVote
  <2>1. PICK w \in [Enabled -> Nat] : weights = {w}
    BY DEF Traced, Sized, IsTable
  <2> DEFINE votes == [n \in Proposed |-> SignalOf(n)]
             names == {n \in Proposed : w[n] > 0}
             heard == [n \in names |-> SignalOf(n)]
  <2>2. IsVotes(votes, input.frame[input.bar].close)
    BY VotesAre
  <2>3. heard = [n \in {m \in DOMAIN votes : w[m] > 0} |-> votes[n]]
    OBVIOUS
  <2>4. {n \in Proposed : \E x \in weights : x[n] > 0} = names
    BY <2>1
  <2>5. d = Aggregate(votes, weights, input.aggregator)
    BY DEF Traced, Sized, Decided
  <2>6. Decided({n \in Proposed : \E x \in weights : x[n] > 0})
          = Aggregate(heard, weights, input.aggregator)
    BY <2>4 DEF Decided
  <2> HIDE DEF votes, heard
  <2>7. /\ Aggregate(votes, weights, input.aggregator).dir
             = Aggregate(heard, weights, input.aggregator).dir
        /\ Aggregate(votes, weights, input.aggregator).confidence
             = Aggregate(heard, weights, input.aggregator).confidence
    BY <2>1, <2>2, <2>3, OnlyHeardDecide
  <2> QED  BY <2>5, <2>6, <2>7
<1> QED  BY <1>1, SpecTraced, PTL

\* Whatever the signals, the book, the settings and the correlations: an order risks no
\* more than the budget of one trade, and stops no farther from its entry than any
\* strategy it follows (RiskEngine.evaluate and SignalAggregator._levels).
THEOREM OrdersStayWithinRisk == Spec => []OrderWithinRisk
<1>1. Traced => OrderWithinRisk
  <2> SUFFICES ASSUME Traced, NEW o \in order, NEW d \in aggregated
               PROVE  /\ o.qty > 0
                      /\ o.qty * Abs(o.entry - o.stop)
                           <= ScaledRisk(input.account.book, input.account.equity)
                      /\ \A n \in d.contributing :
                           /\ o.dir = SignalOf(n).dir
                           /\ Abs(o.entry - o.stop) <= Abs(o.entry - SignalOf(n).stop)
    BY DEF OrderWithinRisk
  <2> DEFINE account == input.account
             close == input.frame[input.bar].close
             votes == [n \in Proposed |-> SignalOf(n)]
             sig == FinalSignal(d)
  <2>1. \A e \in aggregated : e = d
    BY DEF Traced, Sized
  <2>2. PICK v \in verdict, corr \in Matrices :
          /\ v.approved /\ v = Evaluated(sig, account, corr)
          /\ o = [dir |-> d.dir, qty |-> v.quantity, entry |-> d.entry, stop |-> d.stop,
                  target |-> d.target]
    <3>1. PICK v \in verdict : v.approved
                /\ o = [dir |-> d.dir, qty |-> v.quantity, entry |-> d.entry, stop |-> d.stop,
                        target |-> d.target]
      BY <2>1 DEF Traced, Sized
    <3>2. \E corr \in Matrices : v = Evaluated(sig, account, corr)
      BY <2>1 DEF Traced, Sized
    <3> QED  BY <3>1, <3>2
  <2>3. /\ o.dir = d.dir /\ o.qty = v.quantity /\ o.entry = d.entry /\ o.stop = d.stop
        /\ sig.entry = d.entry /\ sig.stop = d.stop
    BY <2>2 DEF FinalSignal
  <2>4. /\ Approves(sig, account.book, account.equity, account.quality, account.enabled, corr)
        /\ v.quantity = Size(sig, account.book, account.equity, corr)
    BY <2>2 DEF Evaluated
  <2>5. RiskPerUnit(sig) > 0 /\ Size(sig, account.book, account.equity, corr) >= Max2(Risk.minUnits, 1)
    BY <2>4 DEF Approves, GatesPass
  <2>6. Actionable(d)
    <3> SUFFICES ASSUME ~Actionable(d) PROVE FALSE
      OBVIOUS
    <3>1. d = StandAside
      <4>1. d = Aggregate(votes, weights, input.aggregator)
        BY DEF Traced, Sized, Decided
      <4>2. Aggregate(votes, weights, input.aggregator) = StandAside
              \/ Aggregate(votes, weights, input.aggregator).dir \in {"LONG", "SHORT"}
        BY AsideOrSided
      <4> QED  BY <4>1, <4>2 DEF Actionable
    <3>2. RiskPerUnit(sig) = 0
      BY <2>3, <3>1 DEF RiskPerUnit, StandAside, Abs
    <3> QED  BY <2>5, <3>2
  <2>7. IsVotes(votes, close) /\ close \in Nat \ {0}
    BY VotesAre DEF IsVotes
  <2>8. /\ d.entry = close /\ d.stop \in Int
        /\ \A n \in d.contributing :
             /\ n \in DOMAIN votes /\ votes[n].dir = d.dir
             /\ Abs(close - d.stop) <= Abs(close - votes[n].stop)
    <3>1. d = Aggregate(votes, weights, input.aggregator) /\ IsTable(weights)
      BY DEF Traced, Sized, Decided
    <3> HIDE DEF votes, close
    <3> QED  BY <2>6, <2>7, <3>1, DecisionIs
  <2>9. IsPriced(sig)
    <3>1. RiskPerUnit(sig) \in Int
      <4>1. PICK x \in Int : x = sig.entry - sig.stop
        BY <2>3, <2>7, <2>8
      <4> QED  BY <4>1 DEF RiskPerUnit, Abs
    <3> QED  BY <2>3, <2>5, <2>7, <2>8, <3>1 DEF IsPriced
  <2>10. IsHolding(account.book) /\ account.equity \in Int
    <3>1. account \in Accounts
      BY InputIs DEF Traced, Judged
    <3> QED  BY <3>1, CallerAssumption DEF IsHolding
  <2>11. /\ Size(sig, account.book, account.equity, corr) \in Int
         /\ Size(sig, account.book, account.equity, corr) * RiskPerUnit(sig)
              <= ScaledRisk(account.book, account.equity)
    BY <2>9, <2>10, SizeWithinBudgets
  <2>12. o.qty > 0
    <3>1. Max2(Risk.minUnits, 1) \in Nat \ {0}
      BY RiskAssumption DEF RiskConfig, Max2
    <3> QED  BY <2>3, <2>4, <2>5, <2>11, <3>1
  <2>13. o.qty * Abs(o.entry - o.stop) <= ScaledRisk(account.book, account.equity)
    BY <2>3, <2>4, <2>11 DEF RiskPerUnit
  <2>14. ASSUME NEW n \in d.contributing
         PROVE  o.dir = SignalOf(n).dir /\ Abs(o.entry - o.stop) <= Abs(o.entry - SignalOf(n).stop)
    <3>1. n \in DOMAIN votes /\ votes[n] = SignalOf(n)
      BY <2>8
    <3> QED  BY <2>3, <2>8, <3>1
  <2> QED  BY <2>12, <2>13, <2>14
<1> QED  BY <1>1, SpecTraced, PTL
=============================================================================
