-------------------------- MODULE MarketDataProofs --------------------------
(* What the market-data service serves, for any number of processes that      *)
(* share a cached series, any vendor and any faults.                          *)
EXTENDS MarketData, FiniteSetTheorems, FunctionTheorems, TLAPS

---------------------------------------------------------------------------
(* Frames.                                                                    *)

Row == [t : Nat, again : BOOLEAN, closed : BOOLEAN, kind : Kinds]

\* What stays of a frame are rows of it, and of every bar one stays.
LEMMA LastKept ==
  ASSUME NEW frame
  PROVE  LastOfEach(frame) \subseteq frame
BY DEF LastOfEach

LEMMA LastTimes ==
  ASSUME NEW frame, \A row \in frame : row.again \in BOOLEAN
  PROVE  Times(LastOfEach(frame)) = Times(frame)
<1>1. ASSUME NEW row \in frame
      PROVE  \E last \in LastOfEach(frame) : last.t = row.t
  <2>1. CASE \E other \in frame : other.t = row.t /\ other.again
    BY <2>1 DEF LastOfEach
  <2>2. CASE ~ \E other \in frame : other.t = row.t /\ other.again
    BY <2>2 DEF LastOfEach
  <2> QED  BY <2>1, <2>2
<1> QED  BY <1>1, LastKept DEF Times

\* The last of each bar are the last of each bar.
LEMMA LastTwice ==
  ASSUME NEW frame
  PROVE  LastOfEach(LastOfEach(frame)) = LastOfEach(frame)
BY DEF LastOfEach

\* In what is merged every bar is one of the downloaded rows, if there is one.
LEMMA MergedRows ==
  ASSUME NEW cached, NEW fresh, NEW row \in Merge(cached, fresh)
  PROVE  row \in cached \/ row \in fresh
BY LastKept DEF Merge

LEMMA MergedLast ==
  ASSUME NEW cached, NEW fresh, fresh # {},
         \A row \in cached \cup fresh : row.again \in BOOLEAN
  PROVE  LastOfEach(Merge(cached, fresh))
           = {row \in LastOfEach(cached) : row.t \notin Times(fresh)} \cup LastOfEach(fresh)
<1> DEFINE old == {row \in LastOfEach(cached) : row.t \notin Times(fresh)}
           new == LastOfEach(fresh)
<1>1. Merge(cached, fresh) = old \cup new
  BY DEF Merge
<1>2. \A row \in old, other \in new : row.t # other.t
  BY LastKept DEF Times
<1>3. \A row \in old, other \in old : row.t = other.t /\ other.again => row.again
  BY LastKept DEF LastOfEach
<1>4. \A row \in new, other \in new : row.t = other.t /\ other.again => row.again
  BY LastKept DEF LastOfEach
<1> HIDE DEF old, new
<1>5. LastOfEach(old \cup new) = old \cup new
  BY <1>2, <1>3, <1>4 DEF LastOfEach
<1> QED  BY <1>1, <1>5 DEF old, new

---------------------------------------------------------------------------
(* The vendor.                                                                *)

\* What the vendor reports of one bar, and of a request, as functions of its series.
ReportOf(kinds, t, now) ==
  {row \in Row :
     /\ row.t = t /\ row.kind = kinds[t + 1] /\ row.kind # "missing"
     /\ row.again => row.kind = "twice"
     /\ row.closed = (t < now /\ (row.kind = "twice" => row.again))}
ReportsOf(kinds, from, to, now) ==
  {row \in Row : row.t \in 0..now /\ row \in ReportOf(kinds, row.t, now)
                 /\ WithinRequest(row.t, from, to)}

LEMMA ReportOfBar ==
  ASSUME series \in Seq(Kinds), NEW now \in Nat, NEW t \in Nat, t < Len(series)
  PROVE  RowsOfBar(t, now) = ReportOf(series, t, now)
<1>1. series[t + 1] \in Kinds
  OBVIOUS
<1>2. CASE series[t + 1] = "missing"
  BY <1>1, <1>2 DEF RowsOfBar, ReportOf
<1>3. CASE series[t + 1] = "twice"
  <2>1. RowsOfBar(t, now)
          = {[t |-> t, again |-> FALSE, closed |-> FALSE, kind |-> series[t + 1]],
             [t |-> t, again |-> TRUE, closed |-> t < now, kind |-> series[t + 1]]}
    BY <1>3 DEF RowsOfBar
  <2>2. (t < now) \in BOOLEAN
    OBVIOUS
  <2>3. ASSUME NEW row \in ReportOf(series, t, now) PROVE row \in RowsOfBar(t, now)
    <3>1. CASE row.again
      BY <1>3, <2>1, <2>2, <3>1 DEF ReportOf, Row
    <3>2. CASE ~row.again
      BY <1>3, <2>1, <2>2, <3>2 DEF ReportOf, Row
    <3> QED  BY <3>1, <3>2
  <2>4. [t |-> t, again |-> FALSE, closed |-> FALSE, kind |-> series[t + 1]]
          \in ReportOf(series, t, now)
    BY <1>1, <1>3 DEF ReportOf, Row
  <2>5. [t |-> t, again |-> TRUE, closed |-> t < now, kind |-> series[t + 1]]
          \in ReportOf(series, t, now)
    BY <1>1, <1>3, <2>2 DEF ReportOf, Row
  <2> QED  BY <2>1, <2>3, <2>4, <2>5
<1>4. CASE series[t + 1] \notin {"missing", "twice"}
  <2>1. RowsOfBar(t, now)
          = {[t |-> t, again |-> FALSE, closed |-> t < now, kind |-> series[t + 1]]}
    BY <1>4 DEF RowsOfBar
  <2>2. (t < now) \in BOOLEAN
    OBVIOUS
  <2>3. ASSUME NEW row \in ReportOf(series, t, now) PROVE row \in RowsOfBar(t, now)
    BY <1>4, <2>1, <2>2 DEF ReportOf, Row
  <2>4. [t |-> t, again |-> FALSE, closed |-> t < now, kind |-> series[t + 1]]
          \in ReportOf(series, t, now)
    BY <1>1, <1>4, <2>2 DEF ReportOf, Row
  <2> QED  BY <2>1, <2>3, <2>4
<1> QED  BY <1>2, <1>3, <1>4

LEMMA PublishedRows ==
  ASSUME series \in Seq(Kinds), NEW now \in Nat, now < Len(series), NEW from, NEW to
  PROVE  /\ Published(from, to, now) = ReportsOf(series, from, to, now)
         /\ IsFiniteSet(Published(from, to, now))
<1> DEFINE of == [t \in 0..now |-> RowsOfBar(t, now)]
<1>1. ASSUME NEW t \in 0..now
      PROVE  RowsOfBar(t, now) = ReportOf(series, t, now) /\ IsFiniteSet(RowsOfBar(t, now))
  <2>1. RowsOfBar(t, now) = ReportOf(series, t, now)
    BY ReportOfBar
  <2> DEFINE first == [t |-> t, again |-> FALSE, closed |-> FALSE, kind |-> series[t + 1]]
             second == [t |-> t, again |-> TRUE, closed |-> t < now, kind |-> series[t + 1]]
             only == [t |-> t, again |-> FALSE, closed |-> t < now, kind |-> series[t + 1]]
  <2>2. RowsOfBar(t, now) \subseteq ({first} \cup {second}) \cup {only}
    BY DEF RowsOfBar
  <2> HIDE DEF first, second, only
  <2>3. IsFiniteSet(({first} \cup {second}) \cup {only})
    BY FS_Singleton, FS_Union
  <2> QED  BY <2>1, <2>2, <2>3, FS_Subset
<1>2. UNION {RowsOfBar(t, now) : t \in 0..now} = {row \in Row : row.t \in 0..now /\ row \in ReportOf(series, row.t, now)}
  BY <1>1 DEF ReportOf
<1>3. IsFiniteSet(UNION {RowsOfBar(t, now) : t \in 0..now})
  <2> DEFINE parts == {RowsOfBar(t, now) : t \in 0..now}
  <2>1. IsFiniteSet(0..now)
    BY FS_Interval
  <2>2. of \in [0..now -> parts] /\ \A part \in parts : \E t \in 0..now : of[t] = part
    OBVIOUS
  <2>3. of \in Surjection(0..now, parts)
    BY <2>2, Fun_IsSurj
  <2>4. IsFiniteSet(parts)
    BY <2>1, <2>3, FS_Surjection
  <2>5. \A part \in parts : IsFiniteSet(part)
    BY <1>1
  <2> HIDE DEF parts
  <2>6. IsFiniteSet(UNION parts)
    BY <2>4, <2>5, FS_UNION
  <2> QED  BY <2>6 DEF parts
<1>4. Published(from, to, now) \subseteq UNION {RowsOfBar(t, now) : t \in 0..now}
  BY DEF Published
<1>5. Published(from, to, now) = ReportsOf(series, from, to, now)
  BY <1>2 DEF Published, ReportsOf
<1> QED  BY <1>3, <1>4, <1>5, FS_Subset

---------------------------------------------------------------------------
(* Windows.                                                                   *)

\* The window of a row of a bar opens at a multiple of the width, and has the
\* row in it.
LEMMA WindowOfRow ==
  ASSUME NEW t \in Nat, NEW width \in Nat \ {0}
  PROVE  \E n \in Nat : /\ WindowOf(t, width) = width * n
                        /\ width * n <= t /\ t < width * n + width
<1> DEFINE n == t \div width
<1>1. n \in Nat /\ n * width <= t /\ t < (n + 1) * width
  OBVIOUS
<1>2. WindowOf(t, width) = width * n
  BY DEF WindowOf
<1> HIDE DEF n
<1>3. width * n = n * width /\ (n + 1) * width = n * width + width
  BY <1>1
<1> QED  BY <1>1, <1>2, <1>3

\* Of two windows the earlier ends before the later opens.
LEMMA WindowsApart ==
  ASSUME NEW m \in Nat, NEW n \in Nat, NEW width \in Nat, width * m < width * n
  PROVE  width * m + width <= width * n
<1>1. m < n
  <2>1. CASE m >= n
    <3>1. PICK d \in Nat : m = n + d
      BY <2>1
    <3>2. width * (n + d) = width * n + width * d /\ width * d \in Nat /\ width * n \in Nat
      OBVIOUS
    <3> QED  BY <3>1, <3>2
  <2> QED  BY <2>1
<1>2. PICK d \in Nat : n = (m + 1) + d
  BY <1>1
<1>3. width * ((m + 1) + d) = width * m + width + width * d /\ width * d \in Nat
      /\ width * m \in Nat
  OBVIOUS
<1> QED  BY <1>2, <1>3

MultipleOf(x, width) == \E n \in Nat : x = width * n

\* A bar that resampling makes: its rows are of its window, and it has one.
LEMMA ResampledBar ==
  ASSUME NEW rows, \A row \in rows : row.t \in Nat, NEW width \in Nat \ {0},
         NEW bar \in Resample(rows, width)
  PROVE  /\ bar.parts = {row \in rows : WindowOf(row.t, width) = bar.open}
         /\ \E row \in bar.parts : TRUE
         /\ MultipleOf(bar.open, width)
<1>1. PICK row \in rows :
        bar = [open |-> WindowOf(row.t, width),
               parts |-> {other \in rows : WindowOf(other.t, width) = WindowOf(row.t, width)}]
  BY DEF Resample, Times
<1>2. row \in bar.parts
  BY <1>1
<1>3. MultipleOf(bar.open, width)
  <2>1. row.t \in Nat /\ bar.open = WindowOf(row.t, width)
    BY <1>1
  <2> QED  BY <2>1, WindowOfRow DEF MultipleOf
<1> QED  BY <1>1, <1>2, <1>3

LEMMA ResampledOnce ==
  ASSUME NEW rows, NEW width, NEW bar \in Resample(rows, width),
         NEW other \in Resample(rows, width), other.open = bar.open
  PROVE  other = bar
<1> DEFINE made(o) == [open |-> o, parts |-> {row \in rows : WindowOf(row.t, width) = o}]
<1>1. ASSUME NEW one \in Resample(rows, width) PROVE one = made(one.open)
  BY DEF Resample
<1> QED  BY <1>1

---------------------------------------------------------------------------
(* Cleaning.                                                                  *)

Kept(rows) == {row \in LastOfEach(rows) : Usable(row)}

\* What is cleaned is a kept row but for the kind of a repaired one.
LEMMA CleanedRow ==
  ASSUME NEW rows, \A row \in rows : row \in Row, NEW row \in CleanOhlcv(rows).rows
  PROVE  \E kept \in Kept(rows) :
           row = Repaired(kept) /\ row.t = kept.t /\ row.closed = kept.closed
<1>1. PICK kept \in Kept(rows) : row = Repaired(kept)
  BY DEF CleanOhlcv, Kept
<1>2. kept \in Row
  BY LastKept DEF Kept
<1>3. row.t = kept.t /\ row.closed = kept.closed
  BY <1>1, <1>2 DEF Repaired, Row
<1> QED  BY <1>1, <1>3

\* The rows that a repair changed, and that are still there, are counted.
LEMMA RepairsCounted ==
  ASSUME NEW rows, IsFiniteSet(rows), NEW wicks,
         \A row \in wicks : \E kept \in Kept(rows) :
                             row = Repaired(kept) /\ kept.kind = "wick"
  PROVE  Cardinality(wicks) <= CleanOhlcv(rows).repaired
<1> DEFINE from == {row \in Kept(rows) : row.kind = "wick"}
           to == {Repaired(row) : row \in from}
           repair == [row \in from |-> Repaired(row)]
<1>1. IsFiniteSet(from)
  BY LastKept, FS_Subset DEF Kept
<1>2. CleanOhlcv(rows).repaired = Cardinality(from)
  BY DEF CleanOhlcv, Kept
<1>3. wicks \subseteq to
  OBVIOUS
<1>4. repair \in [from -> to] /\ \A row \in to : \E old \in from : repair[old] = row
  OBVIOUS
<1>5. repair \in Surjection(from, to)
  BY <1>4, Fun_IsSurj
<1> HIDE DEF from, to, repair
<1>6. IsFiniteSet(to) /\ Cardinality(to) <= Cardinality(from)
  BY <1>1, <1>5, FS_Surjection
<1>7. Cardinality(wicks) <= Cardinality(to) /\ IsFiniteSet(wicks)
  BY <1>3, <1>6, FS_Subset
<1> QED  BY <1>1, <1>2, <1>6, <1>7, FS_CardinalityType

\* Of the last rows of a frame, one that follows one of them is one of them.
LEMMA LastRowsUpward ==
  ASSUME NEW frame, IsFiniteSet(frame), \A row \in frame : row \in Row, NEW count \in Nat,
         NEW row \in LastRows(frame, count), NEW other \in frame, After(other, row)
  PROVE  other \in LastRows(frame, count)
<1> DEFINE behind(x) == {y \in frame : After(y, x)}
<1>1. row \in frame /\ Cardinality(behind(row)) < count
  BY DEF LastRows, LastOnes
<1>2. behind(other) \subseteq behind(row)
  BY <1>1 DEF After, Row
<1>3. IsFiniteSet(behind(row))
  BY FS_Subset
<1>4. Cardinality(behind(other)) <= Cardinality(behind(row))
  BY <1>2, <1>3, FS_Subset
<1>5. Cardinality(behind(other)) < count
  BY <1>1, <1>2, <1>3, <1>4, FS_Subset, FS_CardinalityType
<1> QED  BY <1>5 DEF LastRows, LastOnes

---------------------------------------------------------------------------
(* The inductive invariant: whatever the files hold, what a process has read  *)
(* or received, and what the manifest vouches for, is what the vendor         *)
(* published.  The payload itself may hold anything; it is taken only where   *)
(* its rows are those of the manifest.                                        *)

Sound(row, kinds, now) ==
  /\ row \in Row /\ row.t \in 0..now
  /\ row.kind = kinds[row.t + 1] /\ row.kind \notin {"missing", "undated"}
  /\ row.closed => row.t < now
Reported(rows, kinds, now) == IsFiniteSet(rows) /\ \A row \in rows : Sound(row, kinds, now)

\* What a process has found for its request.
FrameOK(j, vendor, kinds, now) ==
  LET from == j.req.from
      to == j.req.to
  IN /\ j.at \in Nat /\ j.at <= now
     /\ j.req.kind = "historical" /\ j.source = "vendor" /\ vendor = "yahoo" =>
          {row \in LastOfEach(j.raw) : WithinRequest(row.t, from, to)}
            = LastOfEach(Coerce(ReportsOf(kinds, from, to, j.at)))
     /\ j.source = "cache" => j.req.kind = "historical" /\ CacheCovers(j.raw, from, to)
     /\ j.req.kind = "latest" => \A row \in LastOfEach(j.raw) : row.t < j.at => row.closed

Fields == {"pc", "req", "cached", "seen", "raw", "source", "tries", "at"}
Searching == {"manifest", "payload", "fetch"}
Reading == {"manifest", "payload"}

JobOK(j, vendor, kinds, now) ==
  /\ DOMAIN j = Fields
  /\ Reported(j.seen.sum, kinds, now)
  /\ Reported(j.cached, kinds, now)
  /\ Reported(j.raw, kinds, now)
  /\ j.pc = "idle" => j.cached = {}
  /\ j.pc # "idle" =>
       /\ j.req \in Requests /\ j.req.width \in Nat \ {0}
       /\ IF vendor = "csv" THEN j.req.width = 1 ELSE UsableSources(j.req.width, Native) # {}
       /\ j.req.kind = "latest" => j.cached = {} /\ j.pc \notin Reading
       /\ j.pc \notin Searching => FrameOK(j, vendor, kinds, now)

IInv ==
  /\ provider \in Providers /\ series \in Series
  /\ clock \in Nat /\ clock >= FileBars /\ clock < Len(series)
  /\ Reported(manifest.sum, series, clock)
  /\ DOMAIN job = Process
  /\ \A p \in Process : JobOK(job[p], provider, series, clock)

LEMMA ReportedLater ==
  ASSUME NEW rows, NEW kinds, NEW now \in Nat, NEW later \in Nat, now <= later,
         Reported(rows, kinds, now)
  PROVE  Reported(rows, kinds, later)
BY DEF Reported, Sound

LEMMA ReportedSubset ==
  ASSUME NEW rows, NEW kinds, NEW now, NEW some \in SUBSET rows, Reported(rows, kinds, now)
  PROVE  Reported(some, kinds, now)
BY FS_Subset DEF Reported

LEMMA ReportedMerge ==
  ASSUME NEW cached, NEW fresh, NEW kinds, NEW now,
         Reported(cached, kinds, now), Reported(fresh, kinds, now)
  PROVE  Reported(Merge(cached, fresh), kinds, now)
<1>1. Reported(cached \cup fresh, kinds, now)
  BY FS_Union DEF Reported
<1>2. Merge(cached, fresh) \subseteq cached \cup fresh
  BY MergedRows
<1> QED  BY <1>1, <1>2, ReportedSubset

LEMMA ReportedNone == ASSUME NEW kinds, NEW now PROVE Reported({}, kinds, now)
BY FS_EmptySet DEF Reported

\* What the vendor publishes is reported, once the rows without a date are gone.
LEMMA ReportedCoerced ==
  ASSUME series \in Seq(Kinds), NEW now \in Nat, now < Len(series), NEW from, NEW to,
         NEW rows \in SUBSET Coerce(Published(from, to, now))
  PROVE  Reported(rows, series, now)
<1>1. Coerce(Published(from, to, now)) \subseteq Published(from, to, now)
  BY DEF Coerce
<1>2. IsFiniteSet(rows)
  BY <1>1, PublishedRows, FS_Subset
<1>3. ASSUME NEW row \in rows PROVE Sound(row, series, now)
  <2>1. row \in ReportsOf(series, from, to, now) /\ row.kind # "undated"
    BY PublishedRows DEF Coerce
  <2> QED  BY <2>1 DEF ReportsOf, ReportOf, Sound
<1> QED  BY <1>2, <1>3 DEF Reported

\* A download covers what is cached of the bars asked for: every bar that is
\* known is one the vendor reports again.
LEMMA MergedWindow ==
  ASSUME NEW kinds, NEW now \in Nat, NEW cached, NEW from, NEW to,
         Reported(cached, kinds, now),
         NEW fresh, fresh = Coerce(ReportsOf(kinds, from, to, now)),
         NEW merged, merged = IF cached = {} THEN fresh ELSE Merge(cached, fresh)
  PROVE  {row \in LastOfEach(merged) : WithinRequest(row.t, from, to)} = LastOfEach(fresh)
<1>1. \A row \in fresh : row \in Row /\ WithinRequest(row.t, from, to)
  BY DEF Coerce, ReportsOf
<1>2. ASSUME NEW row \in cached, WithinRequest(row.t, from, to)
      PROVE  row.t \in Times(fresh)
  <2> DEFINE again == [t |-> row.t, again |-> FALSE,
                       closed |-> (row.t < now /\ row.kind # "twice"), kind |-> row.kind]
  <2>1. Sound(row, kinds, now)
    BY DEF Reported
  <2>2. (row.t < now /\ row.kind # "twice") \in BOOLEAN
    OBVIOUS
  <2>3. again \in Row
    BY <2>1, <2>2 DEF Sound, Row
  <2>4. again \in ReportOf(kinds, row.t, now)
    BY <2>1, <2>3 DEF Sound, ReportOf
  <2>5. again \in fresh
    BY <1>2, <2>1, <2>3, <2>4 DEF Sound, Coerce, ReportsOf
  <2> QED  BY <2>5 DEF Times
<1>3. \A row \in cached : row \in Row
  BY DEF Reported, Sound
<1>4. CASE cached = {}
  BY <1>1, <1>4, LastKept
<1>5. CASE cached # {} /\ fresh = {}
  <2>1. merged = cached
    BY <1>5 DEF Merge
  <2>2. \A row \in cached : ~WithinRequest(row.t, from, to)
    BY <1>2, <1>5 DEF Times
  <2> QED  BY <1>5, <2>1, <2>2, LastKept
<1>6. CASE cached # {} /\ fresh # {}
  <2>1. \A row \in cached \cup fresh : row.again \in BOOLEAN
    BY <1>1, <1>3 DEF Row
  <2>2. LastOfEach(merged)
          = {row \in LastOfEach(cached) : row.t \notin Times(fresh)} \cup LastOfEach(fresh)
    BY <1>6, <2>1, MergedLast
  <2>3. \A row \in LastOfEach(cached) :
          row.t \notin Times(fresh) => ~WithinRequest(row.t, from, to)
    BY <1>2, LastKept
  <2>4. \A row \in LastOfEach(fresh) : WithinRequest(row.t, from, to)
    BY <1>1, LastKept
  <2> QED  BY <2>2, <2>3, <2>4
<1> QED  BY <1>4, <1>5, <1>6

\* The last report of a bar that has closed is of the closed bar, also among
\* the last rows of a frame.
LEMMA LastRowsClosed ==
  ASSUME series \in Seq(Kinds), NEW now \in Nat, now < Len(series), NEW from, NEW to,
         NEW all \in SUBSET Coerce(Published(from, to, now)), NEW count \in Nat,
         \A one \in all, other \in Coerce(Published(from, to, now)) :
           other.t = one.t => other \in all,
         NEW row \in LastOfEach(LastRows(all, count)), row.t < now
  PROVE  row.closed
<1>1. Reported(all, series, now)
  BY ReportedCoerced
<1>2. row \in LastRows(all, count) /\ row \in all
  BY DEF LastOfEach, LastRows, LastOnes
<1>3. row \in ReportOf(series, row.t, now) /\ row \in ReportsOf(series, from, to, now)
      /\ row \in Row
  BY <1>2, PublishedRows DEF Coerce, ReportsOf
<1>4. CASE row.kind # "twice"
  BY <1>3, <1>4 DEF ReportOf
<1>5. CASE row.kind = "twice" /\ row.again
  BY <1>3, <1>5 DEF ReportOf
<1>6. CASE row.kind = "twice" /\ ~row.again
  <2> DEFINE second == [t |-> row.t, again |-> TRUE, closed |-> TRUE, kind |-> row.kind]
  <2>1. second \in Row
    BY <1>3 DEF Row
  <2>2. second \in ReportOf(series, second.t, now)
    BY <1>3, <1>6, <2>1 DEF ReportOf
  <2>3. second \in all
    BY <1>2, <1>3, <1>6, <2>1, <2>2, PublishedRows DEF ReportsOf, Coerce
  <2>4. After(second, row)
    BY <1>6 DEF After
  <2>5. second \in LastRows(all, count)
    BY <1>1, <1>2, <2>3, <2>4, LastRowsUpward DEF Reported, Sound
  <2> QED  BY <1>6, <2>5 DEF LastOfEach
<1> QED  BY <1>4, <1>5, <1>6

---------------------------------------------------------------------------
(* Every step keeps the invariant.                                            *)

\* One job changes, the world and what the manifest vouches for stay in order.
LEMMA OneJob ==
  ASSUME IInv, NEW p \in Process, NEW new, job' = [job EXCEPT ![p] = new],
         JobOK(new, provider, series, clock), UNCHANGED <<provider, series, clock>>,
         Reported(manifest'.sum, series, clock)
  PROVE  IInv'
BY DEF IInv

\* The fields a process changes are those named.
LEMMA Changed ==
  ASSUME NEW old, DOMAIN old = Fields, NEW changes
  PROVE  /\ DOMAIN With(old, changes) = Fields
         /\ \A field \in Fields : With(old, changes)[field]
              = IF field \in DOMAIN changes THEN changes[field] ELSE old[field]
BY DEF With

LEMMA IdleOK == ASSUME NEW vendor, NEW kinds, NEW now PROVE JobOK(Idle, vendor, kinds, now)
BY ReportedNone DEF JobOK, Idle, NoManifest, Fields

LEMMA FinishOK ==
  ASSUME IInv, NEW p \in Process, NEW result, Finish(p, result),
         UNCHANGED <<provider, series, clock>>, UNCHANGED manifest
  PROVE  IInv'
BY OneJob, IdleOK DEF Finish, IInv

\* A process that goes on with the same frame.
LEMMA GoesOn ==
  ASSUME IInv, NEW p \in Process, job[p].pc \notin Searching \cup {"idle"},
         NEW next \in {"fill", "swap", "open_manifest", "seal", "deliver"},
         Advance(p, [pc |-> next]),
         UNCHANGED <<provider, series, clock>>, Reported(manifest'.sum, series, clock)
  PROVE  IInv'
<1> DEFINE new == With(job[p], [pc |-> next])
<1>1. JobOK(job[p], provider, series, clock)
  BY DEF IInv
<1>2. /\ DOMAIN new = Fields /\ new.pc = next
      /\ new.req = job[p].req /\ new.cached = job[p].cached /\ new.seen = job[p].seen
      /\ new.raw = job[p].raw /\ new.source = job[p].source /\ new.at = job[p].at
  BY <1>1, Changed DEF JobOK, Fields
<1> HIDE DEF new
<1>3. JobOK(new, provider, series, clock)
  BY <1>1, <1>2 DEF JobOK, FrameOK, Reading, Searching
<1>4. job' = [job EXCEPT ![p] = new]
  BY DEF Advance, new
<1> QED  BY <1>3, <1>4, OneJob

LEMMA InitInvariant == ASSUME Init PROVE IInv
<1>1. series \in Seq(Kinds) /\ Len(series) > FileBars /\ FileBars \in Nat
      /\ FileBars - 1 \in Nat
  BY MarketDataAssumption DEF Init
<1>2. Reported(manifest.sum, series, clock)
  <2>1. CASE manifest = NoManifest
    BY <2>1, ReportedNone DEF NoManifest
  <2>2. CASE manifest.sum = EarlierRows
    <3>1. Reported(EarlierRows, series, FileBars - 1)
      BY <1>1, ReportedCoerced DEF EarlierRows
    <3> QED  BY <1>1, <2>2, <3>1, ReportedLater DEF Init
  <2> QED  BY <2>1, <2>2 DEF Init, CacheAtStart, Checksum
<1> QED  BY <1>1, <1>2, IdleOK DEF Init, IInv

LEMMA StartInvariant ==
  ASSUME IInv, NEW p \in Process, Start(p) PROVE IInv'
<1>1. UNCHANGED <<provider, series, clock, manifest>> /\ Reported(manifest.sum, series, clock)
  BY DEF Start, Files, IInv
<1>2. PICK req \in Requests :
        IF ~Serves(req.width)
        THEN Finish(p, [kind |-> "unavailable"])
        ELSE Advance(p, [req |-> req,
                         pc |-> IF req.kind = "historical" /\ req.mode = "cached"
                                THEN "manifest" ELSE "fetch"])
  BY DEF Start
<1>3. CASE ~Serves(req.width)
  BY <1>1, <1>2, <1>3, FinishOK
<1>4. CASE Serves(req.width)
  <2> DEFINE pc == IF req.kind = "historical" /\ req.mode = "cached" THEN "manifest" ELSE "fetch"
             new == With(job[p], [req |-> req, pc |-> pc])
  <2>1. JobOK(job[p], provider, series, clock)
    BY DEF IInv
  <2>2. /\ DOMAIN new = Fields /\ new.pc = pc /\ new.req = req /\ new.cached = job[p].cached
        /\ new.seen = job[p].seen /\ new.raw = job[p].raw
    BY <2>1, Changed DEF JobOK, Fields
  <2>3. job' = [job EXCEPT ![p] = new]
    BY <1>2, <1>4 DEF Advance
  <2>4. req.width \in Nat \ {0}
        /\ IF provider = "csv" THEN req.width = 1 ELSE UsableSources(req.width, Native) # {}
    BY <1>4, MarketDataAssumption DEF Serves
  <2>5. job[p].cached = {} /\ (req.kind = "latest" => pc = "fetch") /\ pc \in Searching
    BY <2>1 DEF Start, JobOK, Searching
  <2> HIDE DEF new, pc
  <2>6. JobOK(new, provider, series, clock)
    BY <2>1, <2>2, <2>4, <2>5 DEF JobOK, Reading, Searching
  <2> QED  BY <1>1, <2>3, <2>6, OneJob
<1> QED  BY <1>3, <1>4

\* A process that goes to the vendor, with the fields it has changed before.
LEMMA GoesToVendor ==
  ASSUME IInv, NEW p \in Process, job[p].pc \in Reading, NEW new,
         job' = [job EXCEPT ![p] = new], DOMAIN new = Fields, new.pc \in Searching,
         new.req = job[p].req, new.raw = job[p].raw,
         Reported(new.seen.sum, series, clock), Reported(new.cached, series, clock),
         UNCHANGED <<provider, series, clock, manifest>>
  PROVE  IInv'
<1>1. JobOK(job[p], provider, series, clock) /\ Reported(manifest.sum, series, clock)
  BY DEF IInv
<1>2. job[p].req.kind # "latest"
  BY <1>1, MarketDataAssumption DEF JobOK, Reading
<1>3. JobOK(new, provider, series, clock)
  BY <1>1, <1>2 DEF JobOK, Reading, Searching
<1> QED  BY <1>1, <1>3, OneJob

LEMMA ReadManifestInvariant ==
  ASSUME IInv, NEW p \in Process, ReadManifest(p) PROVE IInv'
<1>1. JobOK(job[p], provider, series, clock) /\ Reported(manifest.sum, series, clock)
  BY DEF IInv
<1>2. job[p].pc \in Reading /\ UNCHANGED <<provider, series, clock, manifest>>
  BY DEF ReadManifest, Reading, Files, World
<1>3. CASE Advance(p, [pc |-> "payload", seen |-> manifest])
  <2> DEFINE new == With(job[p], [pc |-> "payload", seen |-> manifest])
  <2>1. /\ DOMAIN new = Fields /\ new.pc = "payload" /\ new.req = job[p].req
        /\ new.cached = job[p].cached /\ new.seen = manifest /\ new.raw = job[p].raw
    BY <1>1, Changed DEF JobOK, Fields
  <2>2. job' = [job EXCEPT ![p] = new]
    BY <1>3 DEF Advance
  <2> HIDE DEF new
  <2> QED  BY <1>1, <1>2, <2>1, <2>2, GoesToVendor DEF JobOK, Searching
<1>4. CASE Advance(p, [pc |-> "fetch"])
  <2> DEFINE new == With(job[p], [pc |-> "fetch"])
  <2>1. /\ DOMAIN new = Fields /\ new.pc = "fetch" /\ new.req = job[p].req
        /\ new.cached = job[p].cached /\ new.seen = job[p].seen /\ new.raw = job[p].raw
    BY <1>1, Changed DEF JobOK, Fields
  <2>2. job' = [job EXCEPT ![p] = new]
    BY <1>4 DEF Advance
  <2> HIDE DEF new
  <2> QED  BY <1>1, <1>2, <2>1, <2>2, GoesToVendor DEF JobOK, Searching
<1> QED  BY <1>3, <1>4 DEF ReadManifest

LEMMA ReadPayloadInvariant ==
  ASSUME IInv, NEW p \in Process, ReadPayload(p) PROVE IInv'
<1>1. JobOK(job[p], provider, series, clock) /\ Reported(manifest.sum, series, clock)
      /\ clock \in Nat
  BY DEF IInv
<1>2. job[p].pc = "payload" /\ job[p].pc \in Reading
      /\ UNCHANGED <<provider, series, clock, manifest>>
  BY DEF ReadPayload, Reading, Files, World
<1>3. job[p].req \in Requests /\ job[p].req.kind = "historical"
  BY <1>1, <1>2, MarketDataAssumption DEF JobOK, Request
<1>4. CASE Advance(p, [pc |-> "fetch", seen |-> NoManifest])
  <2> DEFINE new == With(job[p], [pc |-> "fetch", seen |-> NoManifest])
  <2>1. /\ DOMAIN new = Fields /\ new.pc = "fetch" /\ new.req = job[p].req
        /\ new.cached = job[p].cached /\ new.seen = NoManifest /\ new.raw = job[p].raw
    BY <1>1, Changed DEF JobOK, Fields
  <2>2. job' = [job EXCEPT ![p] = new] /\ Reported(NoManifest.sum, series, clock)
    BY <1>4, ReportedNone DEF Advance, NoManifest
  <2> HIDE DEF new
  <2> QED  BY <1>1, <1>2, <2>1, <2>2, GoesToVendor DEF JobOK, Searching
<1>5. CASE Intact(payload, job[p].seen.sum)
  <2>1. Reported(payload.rows, series, clock)
    BY <1>1, <1>5 DEF Intact, Checksum, JobOK
  <2>2. CASE /\ CacheCovers(payload.rows, job[p].req.from, job[p].req.to)
             /\ Advance(p, [pc |-> "deliver", seen |-> NoManifest, raw |-> payload.rows,
                            source |-> "cache", at |-> clock])
    <3> DEFINE new == With(job[p], [pc |-> "deliver", seen |-> NoManifest, raw |-> payload.rows,
                                    source |-> "cache", at |-> clock])
    <3>1. /\ DOMAIN new = Fields /\ new.pc = "deliver" /\ new.req = job[p].req
          /\ new.cached = job[p].cached /\ new.seen = NoManifest /\ new.raw = payload.rows
          /\ new.source = "cache" /\ new.at = clock
      BY <1>1, Changed DEF JobOK, Fields
    <3>2. job' = [job EXCEPT ![p] = new] /\ Reported(NoManifest.sum, series, clock)
      BY <2>2, ReportedNone DEF Advance, NoManifest
    <3> HIDE DEF new
    <3>3. FrameOK(new, provider, series, clock)
      BY <1>1, <1>3, <2>2, <3>1 DEF FrameOK
    <3>4. JobOK(new, provider, series, clock)
      BY <1>1, <1>2, <1>3, <2>1, <3>1, <3>2, <3>3 DEF JobOK, Reading
    <3> QED  BY <1>1, <1>2, <3>2, <3>4, OneJob
  <2>3. CASE Advance(p, [pc |-> "fetch", seen |-> NoManifest, cached |-> payload.rows])
    <3> DEFINE new == With(job[p], [pc |-> "fetch", seen |-> NoManifest, cached |-> payload.rows])
    <3>1. /\ DOMAIN new = Fields /\ new.pc = "fetch" /\ new.req = job[p].req
          /\ new.cached = payload.rows /\ new.seen = NoManifest /\ new.raw = job[p].raw
      BY <1>1, Changed DEF JobOK, Fields
    <3>2. job' = [job EXCEPT ![p] = new] /\ Reported(NoManifest.sum, series, clock)
      BY <2>3, ReportedNone DEF Advance, NoManifest
    <3> HIDE DEF new
    <3> QED  BY <1>1, <1>2, <2>1, <3>1, <3>2, GoesToVendor DEF JobOK, Searching
  <2> QED  BY <1>5, <2>2, <2>3 DEF ReadPayload
<1> QED  BY <1>4, <1>5 DEF ReadPayload

\* What the provider answered with is merged and kept or handed on.
LEMMA ReceivedOK ==
  ASSUME IInv, NEW p \in Process, job[p].pc = "fetch", NEW rows, Received(p, rows),
         Reported(rows, series, clock),
         job[p].req.kind = "historical" /\ provider = "yahoo" =>
           rows = Coerce(ReportsOf(series, job[p].req.from, job[p].req.to, clock)),
         job[p].req.kind = "latest" =>
           \A row \in LastOfEach(rows) : row.t < clock => row.closed,
         UNCHANGED <<Files, World>>
  PROVE  IInv'
<1> DEFINE req == job[p].req
           merged == IF job[p].cached = {} THEN rows ELSE Merge(job[p].cached, rows)
           pc == IF Keeps(req) /\ merged # {} THEN "open" ELSE "deliver"
           new == With(job[p], [raw |-> merged, cached |-> {}, source |-> "vendor",
                                at |-> clock, pc |-> pc])
<1>1. JobOK(job[p], provider, series, clock) /\ Reported(manifest.sum, series, clock)
      /\ clock \in Nat /\ UNCHANGED <<provider, series, clock, manifest>>
  BY DEF IInv, Files, World
<1>2. job' = [job EXCEPT ![p] = new]
  BY DEF Received, Advance
<1>3. /\ DOMAIN new = Fields /\ new.pc = pc /\ new.req = req /\ new.cached = {}
      /\ new.seen = job[p].seen /\ new.raw = merged /\ new.source = "vendor"
      /\ new.at = clock
  BY <1>1, Changed DEF JobOK, Fields
<1>4. Reported(merged, series, clock)
  BY <1>1, ReportedMerge DEF JobOK
<1>5. req.kind = "historical" /\ provider = "yahoo" =>
        {row \in LastOfEach(merged) : WithinRequest(row.t, req.from, req.to)}
          = LastOfEach(Coerce(ReportsOf(series, req.from, req.to, clock)))
  <2> SUFFICES ASSUME req.kind = "historical", provider = "yahoo"
               PROVE  {row \in LastOfEach(merged) : WithinRequest(row.t, req.from, req.to)}
                        = LastOfEach(rows)
    OBVIOUS
  <2>1. Reported(job[p].cached, series, clock)
    BY <1>1 DEF JobOK
  <2>2. rows = Coerce(ReportsOf(series, req.from, req.to, clock))
    OBVIOUS
  <2>3. merged = IF job[p].cached = {} THEN rows ELSE Merge(job[p].cached, rows)
    OBVIOUS
  <2> HIDE DEF req, merged
  <2> QED  BY <1>1, <2>1, <2>2, <2>3, MergedWindow
<1>6. req.kind = "latest" => job[p].cached = {} /\ merged = rows
  BY <1>1 DEF JobOK
<1>7. pc \in {"open", "deliver"}
  OBVIOUS
<1> HIDE DEF new, pc, merged
<1>8. FrameOK(new, provider, series, clock)
  BY <1>1, <1>3, <1>5, <1>6 DEF FrameOK
<1>9. JobOK(new, provider, series, clock)
  BY <1>1, <1>3, <1>4, <1>7, <1>8, ReportedNone DEF JobOK, Reading
<1> QED  BY <1>1, <1>2, <1>9, OneJob

\* How many of the latest rows are asked for is a number.
LEMMA AskedNumber ==
  ASSUME IInv, NEW p \in Process, job[p].pc = "fetch", job[p].req.kind = "latest"
  PROVE  Asked(job[p].req) \in Nat
<1> DEFINE req == job[p].req
<1>1. req \in Requests /\ req.width \in Nat \ {0} /\ req.bars \in Nat
      /\ IF provider = "csv" THEN req.width = 1 ELSE UsableSources(req.width, Native) # {}
  BY MarketDataAssumption DEF IInv, JobOK, Request
<1>2. SourceOf(req.width) = 1
  BY <1>1, MarketDataAssumption DEF SourceOf
<1>3. req.width \div SourceOf(req.width) = req.width
  BY <1>1, <1>2
<1>4. Max({1, req.width \div SourceOf(req.width)}) = req.width
  BY <1>1, <1>3 DEF Max
<1> HIDE DEF req
<1>5. req.bars * req.width \in Nat
  BY <1>1
<1> QED  BY <1>1, <1>4, <1>5 DEF Asked, req

LEMMA AnsweredOK ==
  ASSUME IInv, NEW p \in Process, job[p].pc = "fetch",
         NEW now \in Nat, now <= clock, NEW all, NEW from, NEW to,
         all \subseteq Coerce(Published(from, to, now)),
         \A one \in all, other \in Coerce(Published(from, to, now)) :
           other.t = one.t => other \in all,
         \A row \in all : row.t < clock => row.t < now
  PROVE  /\ Reported(Answered(job[p].req, all), series, clock)
         /\ job[p].req.kind = "latest" =>
              \A row \in LastOfEach(Answered(job[p].req, all)) : row.t < clock => row.closed
<1>1. series \in Seq(Kinds) /\ now < Len(series) /\ clock \in Nat
  BY MarketDataAssumption DEF IInv
<1>2. Reported(all, series, now)
  BY <1>1, ReportedCoerced
<1>3. Answered(job[p].req, all) \subseteq all
  BY DEF Answered, LastRows, LastOnes
<1>4. Reported(Answered(job[p].req, all), series, clock)
  BY <1>1, <1>2, <1>3, ReportedSubset, ReportedLater
<1>5. ASSUME job[p].req.kind = "latest", NEW row \in LastOfEach(Answered(job[p].req, all)),
             row.t < clock
      PROVE  row.closed
  <2>1. Asked(job[p].req) \in Nat
    BY <1>5, AskedNumber
  <2>2. row \in LastOfEach(LastRows(all, Asked(job[p].req)))
    BY <1>5 DEF Answered
  <2>3. row \in all
    BY <2>2, LastKept DEF LastRows, LastOnes
  <2>4. row.t < now
    BY <1>5, <2>3
  <2> QED  BY <1>1, <2>1, <2>2, <2>4, LastRowsClosed
<1> QED  BY <1>4, <1>5

LEMMA FetchInvariant ==
  ASSUME IInv, NEW p \in Process, Fetch(p) PROVE IInv'
<1> DEFINE req == job[p].req
<1>1. /\ JobOK(job[p], provider, series, clock) /\ Reported(manifest.sum, series, clock)
      /\ job[p].pc = "fetch" /\ UNCHANGED <<Files, World>>
      /\ UNCHANGED <<provider, series, clock, manifest>>
  BY DEF IInv, Fetch, Files, World
<1>2. series \in Seq(Kinds) /\ clock \in Nat /\ clock < Len(series) /\ FileBars \in Nat
      /\ FileBars <= clock
  BY MarketDataAssumption DEF IInv
<1>3. ASSUME NEW result, Finish(p, result) PROVE IInv'
  BY <1>1, <1>3, FinishOK
<1>4. CASE ReadFile(p)
  <2> DEFINE all == Coerce(FileRows(From(req), To(req)))
  <2>1. CASE Received(p, Answered(req, all))
    <3>1. all = {row \in Coerce(Published(From(req), To(req), FileBars)) : row.t < FileBars}
      BY DEF Coerce, FileRows
    <3>2. /\ Reported(Answered(req, all), series, clock)
          /\ req.kind = "latest" =>
               \A row \in LastOfEach(Answered(req, all)) : row.t < clock => row.closed
      BY <1>1, <1>2, <3>1, AnsweredOK
    <3>3. provider # "yahoo"
      BY <1>4 DEF ReadFile
    <3> QED  BY <1>1, <2>1, <3>2, <3>3, ReceivedOK
  <2> QED  BY <1>3, <1>4, <2>1 DEF ReadFile
<1>5. CASE Download(p)
  <2> DEFINE all == Coerce(Published(From(req), To(req), clock))
  <2>1. CASE Received(p, Answered(req, all))
    <3>1. /\ clock <= clock
          /\ all \subseteq all
          /\ \A one \in all, other \in all : other.t = one.t => other \in all
          /\ \A row \in all : row.t < clock => row.t < clock
      BY <1>2
    <3>2. /\ Reported(Answered(req, all), series, clock)
          /\ req.kind = "latest" =>
               \A row \in LastOfEach(Answered(req, all)) : row.t < clock => row.closed
      BY <1>1, <1>2, <3>1, AnsweredOK
    <3>3. req.kind = "historical" =>
            Answered(req, all) = Coerce(ReportsOf(series, req.from, req.to, clock))
      BY <1>2, PublishedRows DEF Answered, From, To
    <3> QED  BY <1>1, <2>1, <3>2, <3>3, ReceivedOK
  <2>2. CASE Advance(p, [tries |-> job[p].tries + 1])
    <3> DEFINE new == With(job[p], [tries |-> job[p].tries + 1])
    <3>1. /\ DOMAIN new = Fields /\ new.pc = "fetch" /\ new.req = req
          /\ new.cached = job[p].cached /\ new.seen = job[p].seen /\ new.raw = job[p].raw
      BY <1>1, Changed DEF JobOK, Fields
    <3>2. job' = [job EXCEPT ![p] = new]
      BY <2>2 DEF Advance
    <3> HIDE DEF new
    <3>3. JobOK(new, provider, series, clock)
      BY <1>1, <3>1 DEF JobOK, Reading, Searching
    <3> QED  BY <1>1, <3>2, <3>3, OneJob
  <2> QED  BY <1>3, <1>5, <2>1, <2>2 DEF Download
<1> QED  BY <1>4, <1>5 DEF Fetch

LEMMA SaveInvariant ==
  ASSUME IInv, NEW p \in Process,
         \/ OpenTmp(p) \/ FillTmp(p) \/ SwapPayload(p) \/ OpenManifest(p) \/ SealManifest(p)
  PROVE  IInv'
<1>1. JobOK(job[p], provider, series, clock) /\ Reported(manifest.sum, series, clock)
  BY DEF IInv
<1>2. CASE OpenTmp(p)
  BY <1>1, <1>2, GoesOn DEF OpenTmp, World, Searching
<1>3. CASE FillTmp(p)
  BY <1>1, <1>3, GoesOn DEF FillTmp, World, Searching
<1>4. CASE SwapPayload(p)
  <2>1. CASE Finish(p, [kind |-> "failed"])
    BY <1>4, <2>1, FinishOK DEF SwapPayload, World
  <2>2. CASE Advance(p, [pc |-> "open_manifest"])
    BY <1>1, <1>4, <2>2, GoesOn DEF SwapPayload, World, Searching
  <2> QED  BY <1>4, <2>1, <2>2 DEF SwapPayload
<1>5. CASE OpenManifest(p)
  <2>1. Reported(manifest'.sum, series, clock)
    BY <1>5, ReportedNone DEF OpenManifest, TornManifest
  <2> QED  BY <1>5, <2>1, GoesOn DEF OpenManifest, World, Searching
<1>6. CASE SealManifest(p)
  <2>1. Reported(manifest'.sum, series, clock)
    BY <1>1, <1>6 DEF SealManifest, Checksum, JobOK
  <2> QED  BY <1>6, <2>1, GoesOn DEF SealManifest, World, Searching
<1> QED  BY <1>2, <1>3, <1>4, <1>5, <1>6

LEMMA DeliverInvariant == ASSUME IInv, NEW p \in Process, Deliver(p) PROVE IInv'
BY FinishOK DEF Deliver, Files, World

LEMMA TickInvariant == ASSUME IInv, Tick PROVE IInv'
<1>1. /\ clock' = clock + 1 /\ clock' < Len(series) /\ UNCHANGED <<provider, series, job, manifest>>
      /\ clock \in Nat /\ FileBars \in Nat
  BY MarketDataAssumption DEF Tick, IInv, LastBar, Files
<1>2. ASSUME NEW j, JobOK(j, provider, series, clock)
      PROVE  JobOK(j, provider, series, clock + 1)
  <2>1. FrameOK(j, provider, series, clock) => FrameOK(j, provider, series, clock + 1)
    BY <1>1 DEF FrameOK
  <2>2. \A rows : Reported(rows, series, clock) => Reported(rows, series, clock + 1)
    BY <1>1, ReportedLater
  <2> QED  BY <1>2, <2>1, <2>2 DEF JobOK
<1>3. Reported(manifest.sum, series, clock + 1)
  BY <1>1, ReportedLater DEF IInv
<1>4. \A p \in Process : JobOK(job[p], provider, series, clock + 1)
  BY <1>2 DEF IInv
<1> QED  BY <1>1, <1>3, <1>4 DEF IInv

LEMMA FaultInvariant == ASSUME IInv, Fault PROVE IInv'
<1>1. UNCHANGED <<provider, series, clock>>
  BY DEF Fault
<1>2. CASE (Corrupt \/ Clear) /\ UNCHANGED job
  <2>1. Reported(manifest'.sum, series, clock)
    <3>1. manifest' = manifest \/ manifest' = TornManifest \/ manifest' = NoManifest
      BY <1>2 DEF Corrupt, Clear
    <3>2. TornManifest.sum = {} /\ NoManifest.sum = {}
      BY DEF TornManifest, NoManifest
    <3>3. Reported(manifest.sum, series, clock) /\ Reported({}, series, clock)
      BY ReportedNone DEF IInv
    <3> QED  BY <3>1, <3>2, <3>3
  <2> QED  BY <1>1, <1>2, <2>1 DEF IInv
<1>3. ASSUME NEW p \in Process, Crash(p) PROVE IInv'
  BY <1>1, <1>3, FinishOK DEF Crash
<1> QED  BY <1>2, <1>3 DEF Fault

LEMMA NextInvariant == ASSUME IInv, [Next]_vars PROVE IInv'
<1>1. CASE UNCHANGED vars
  BY <1>1 DEF IInv, vars
<1>2. ASSUME NEW p \in Process, Start(p) \/ Step(p) PROVE IInv'
  BY <1>2, StartInvariant, ReadManifestInvariant, ReadPayloadInvariant, FetchInvariant,
     SaveInvariant, DeliverInvariant DEF Step
<1> QED  BY <1>1, <1>2, TickInvariant, FaultInvariant DEF Next

LEMMA Invariance == Spec => []IInv
BY InitInvariant, NextInvariant, PTL DEF Spec

---------------------------------------------------------------------------
(* What is served.                                                            *)

\* What the delivery of a frame answers with.
Reply(j, grade, now) ==
  [kind |-> "served", req |-> j.req,
   bars |-> Clipped(j.req, Bars(j.req, CleanOhlcv(j.raw).rows), now), grade |-> grade,
   repaired |-> CleanOhlcv(j.raw).repaired, source |-> j.source,
   at |-> j.at, now |-> now, rows |-> j.raw]

\* The job of which a frame is served, and the world it is served in.
Serving(j) ==
  /\ j.pc = "deliver" /\ JobOK(j, provider, series, clock)
  /\ \E grade : answer' = Reply(j, grade, clock)
  /\ UNCHANGED <<provider, series, clock>>

\* Only the delivery of a frame serves bars.
LEMMA OnlyDelivered ==
  ASSUME IInv, Next, answer'.kind = "served"
  PROVE  \E p \in Process : Serving(job[p])
<1>1. ASSUME NEW p \in Process, Deliver(p) PROVE Serving(job[p])
  <2>1. PICK cleaning \in {CleanOhlcv(job[p].raw)} :
          \E bars \in {Clipped(job[p].req, Bars(job[p].req, cleaning.rows), clock)} :
          \E grade \in {Grade(InOrder(bars), job[p].req.width, cleaning, clock)} :
            Finish(p, IF Refused(job[p].req, grade)
                      THEN [kind |-> "refused"]
                      ELSE [kind |-> "served", req |-> job[p].req, bars |-> bars, grade |-> grade,
                            repaired |-> cleaning.repaired, source |-> job[p].source,
                            at |-> job[p].at, now |-> clock, rows |-> job[p].raw])
    BY <1>1 DEF Deliver
  <2>2. PICK grade :
          Finish(p, IF Refused(job[p].req, grade)
                    THEN [kind |-> "refused"]
                    ELSE Reply(job[p], grade, clock))
    BY <2>1 DEF Reply
  <2>3. answer' = Reply(job[p], grade, clock)
    BY <2>2 DEF Finish
  <2> QED  BY <1>1, <2>3 DEF Serving, Deliver, IInv, World
<1>2. Tick => answer' = None
  BY DEF Tick
<1>3. Fault => answer' = None
  BY DEF Fault, Crash, Finish
<1>4. ASSUME NEW p \in Process, Start(p) PROVE answer'.kind # "served"
  BY <1>4 DEF Start, Finish, Advance, None
<1>5. ASSUME NEW p \in Process, Fetch(p) PROVE answer'.kind # "served"
  BY <1>5 DEF Fetch, ReadFile, Download, Received, Finish, Advance, None
<1>6. ASSUME NEW p \in Process, Step(p), ~Fetch(p), ~Deliver(p) PROVE answer'.kind # "served"
  BY <1>6 DEF Step, ReadManifest, ReadPayload, OpenTmp, FillTmp, SwapPayload, OpenManifest,
              SealManifest, Finish, Advance, None
<1>7. None.kind # "served"
  BY DEF None
<1> QED  BY <1>1, <1>2, <1>3, <1>4, <1>5, <1>6, <1>7 DEF Next

\* Each property of what is served holds of the reply to a job that is in order.
LEMMA ServedGenuine ==
  ASSUME IInv, NEW j, Serving(j) PROVE ServedIsGenuine'
<1>1. PICK grade : answer' = Reply(j, grade, clock)
  BY DEF Serving
<1>2. answer'.rows = j.raw
  BY <1>1 DEF Reply
<1>3. ASSUME NEW row \in j.raw PROVE Genuine(row)'
  <2>1. Sound(row, series, clock)
    BY DEF Serving, JobOK, Reported
  <2> QED  BY <2>1 DEF Sound, Genuine, Serving
<1> QED  BY <1>2, <1>3 DEF ServedIsGenuine

LEMMA ServedDownloaded ==
  ASSUME IInv, NEW j, Serving(j) PROVE DownloadedBarsWin'
<1>1. PICK grade : answer' = Reply(j, grade, clock)
  BY DEF Serving
<1>2. /\ answer'.rows = j.raw /\ answer'.req = j.req /\ answer'.source = j.source
      /\ answer'.at = j.at
  BY <1>1 DEF Reply
<1>3. FrameOK(j, provider, series, clock) /\ UNCHANGED <<provider, series>>
  BY DEF Serving, JobOK, Searching
<1>4. series \in Seq(Kinds) /\ j.at \in Nat /\ j.at < Len(series)
  BY <1>3, MarketDataAssumption DEF IInv, FrameOK
<1>5. Published(j.req.from, j.req.to, j.at)' = ReportsOf(series, j.req.from, j.req.to, j.at)
  <2>1. Published(j.req.from, j.req.to, j.at) = ReportsOf(series, j.req.from, j.req.to, j.at)
    BY <1>4, PublishedRows
  <2>2. Published(j.req.from, j.req.to, j.at)' = Published(j.req.from, j.req.to, j.at)
    BY <1>3 DEF Published, RowsOfBar
  <2> QED  BY <2>1, <2>2
<1> QED  BY <1>2, <1>3, <1>5 DEF DownloadedBarsWin, FrameOK

\* A row of a bar that is served, before it was cleaned.
LEMMA ServedRow ==
  ASSUME NEW rows, NEW kinds, NEW now, Reported(rows, kinds, now), NEW width \in Nat \ {0},
         NEW bar \in Resample(CleanOhlcv(rows).rows, width), NEW row \in bar.parts
  PROVE  \E kept \in Kept(rows) :
           /\ row = Repaired(kept) /\ row.t = kept.t /\ row.closed = kept.closed
           /\ kept \in LastOfEach(rows) /\ Sound(kept, kinds, now)
<1>1. \A one \in rows : one \in Row
  BY DEF Reported, Sound
<1>2. \A one \in CleanOhlcv(rows).rows : one.t \in Nat
  <2>1. \A one \in Kept(rows) : one.t \in Nat
    BY <1>1, LastKept DEF Kept, Row
  <2> QED  BY <1>1, <2>1, CleanedRow
<1>3. row \in CleanOhlcv(rows).rows
  BY <1>2, ResampledBar
<1>4. PICK kept \in Kept(rows) :
        row = Repaired(kept) /\ row.t = kept.t /\ row.closed = kept.closed
  BY <1>1, <1>3, CleanedRow
<1>5. kept \in LastOfEach(rows) /\ kept \in rows
  BY LastKept DEF Kept
<1> QED  BY <1>4, <1>5 DEF Reported

\* A bar that is not the last has one that opens after it, and so has ended.
LEMMA KeptBarsEnded ==
  ASSUME NEW rows, NEW now \in Nat, \A row \in rows : row.t \in Nat /\ row.t <= now,
         NEW width \in Nat \ {0}, NEW bar \in DropFormingBar(Resample(rows, width), width, now)
  PROVE  WindowEnded(bar, width, now)
<1> DEFINE bars == Resample(rows, width)
           later == {other \in bars : other.open > bar.open}
<1>1. bar \in bars /\ (bar \in LastBars(bars, 1) => WindowEnded(bar, width, now))
  BY DEF DropFormingBar
<1>2. CASE later = {}
  <2>1. Cardinality({}) < 1
    BY FS_EmptySet
  <2> HIDE DEF later
  <2>3. Cardinality(later) < 1
    BY <1>2, <2>1
  <2>2. bar \in LastBars(bars, 1)
    BY <1>1, <2>3 DEF LastBars, LastOnes, later
  <2> QED  BY <1>1, <2>2
<1>3. ASSUME NEW other \in bars, other.open > bar.open PROVE WindowEnded(bar, width, now)
  <2>a. MultipleOf(bar.open, width) /\ MultipleOf(other.open, width)
    BY <1>1, ResampledBar
  <2>1. PICK m \in Nat : bar.open = width * m
    BY <2>a DEF MultipleOf
  <2>2. PICK n \in Nat : other.open = width * n
    BY <2>a DEF MultipleOf
  <2>3. PICK row \in rows : WindowOf(row.t, width) = other.open
    <3>1. /\ other.parts = {row \in rows : WindowOf(row.t, width) = other.open}
          /\ \E row \in other.parts : TRUE
      BY ResampledBar
    <3> QED  BY <3>1
  <2>4. other.open <= row.t /\ row.t <= now /\ row.t \in Nat
    <3>1. row.t \in Nat /\ row.t <= now
      OBVIOUS
    <3>2. PICK k \in Nat : WindowOf(row.t, width) = width * k /\ width * k <= row.t
      BY <3>1, WindowOfRow
    <3> QED  BY <2>3, <3>1, <3>2
  <2>5. width * m + width <= width * n
    BY <1>3, <2>1, <2>2, WindowsApart
  <2>6. width * m \in Nat /\ width * n \in Nat
    OBVIOUS
  <2> QED  BY <2>1, <2>2, <2>4, <2>5, <2>6 DEF WindowEnded
<1> QED  BY <1>2, <1>3

LEMMA ServedComplete ==
  ASSUME IInv, NEW j, Serving(j) PROVE FormingBarOnlyByRace'
<1>1. PICK grade : answer' = Reply(j, grade, clock)
  BY DEF Serving
<1> DEFINE clean == CleanOhlcv(j.raw).rows
<1>2. /\ answer'.req = j.req /\ answer'.at = j.at /\ answer'.now = clock
      /\ answer'.bars = Clipped(j.req, Resample(clean, j.req.width), clock)
  BY <1>1 DEF Reply, Bars
<1>3. /\ FrameOK(j, provider, series, clock) /\ Reported(j.raw, series, clock)
      /\ j.req.width \in Nat \ {0} /\ clock \in Nat
  BY DEF Serving, JobOK, Searching, IInv
<1>4. SUFFICES ASSUME j.req.kind = "latest", j.at = clock, NEW bar \in answer'.bars
               PROVE  /\ WindowEnded(bar, j.req.width, clock)
                      /\ \A row \in bar.parts : row.closed
  BY <1>2 DEF FormingBarOnlyByRace, WindowEnded
<1>5. bar \in DropFormingBar(Resample(clean, j.req.width), j.req.width, clock)
  BY <1>2, <1>4 DEF Clipped, LastBars, LastOnes
<1>6. bar \in Resample(clean, j.req.width)
  BY <1>5 DEF DropFormingBar
<1>7. \A row \in clean : row.t \in Nat /\ row.t <= clock
  <2>1. \A one \in j.raw : one \in Row /\ one.t \in 0..clock
    BY <1>3 DEF Reported, Sound
  <2>2. \A one \in Kept(j.raw) : one.t \in 0..clock
    BY <2>1, LastKept DEF Kept
  <2> QED  BY <1>3, <2>1, <2>2, CleanedRow
<1>8. WindowEnded(bar, j.req.width, clock)
  BY <1>3, <1>5, <1>7, KeptBarsEnded
<1>9. ASSUME NEW row \in bar.parts PROVE row.closed
  <2>1. PICK kept \in LastOfEach(j.raw) : row.t = kept.t /\ row.closed = kept.closed
    BY <1>3, <1>6, ServedRow
  <2>2. row \in clean /\ WindowOf(row.t, j.req.width) = bar.open
    BY <1>3, <1>6, <1>7, ResampledBar
  <2>3. row.t < bar.open + j.req.width
    <3>1. row.t \in Nat
      BY <1>7, <2>2
    <3>2. PICK n \in Nat : /\ WindowOf(row.t, j.req.width) = j.req.width * n
                           /\ row.t < j.req.width * n + j.req.width
      BY <1>3, <3>1, WindowOfRow
    <3> QED  BY <2>2, <3>2
  <2>4. \A one \in clean : one.t \in Nat
    BY <1>7
  <2>5. bar.open \in Nat
    <3> HIDE DEF clean
    <3>1. j.req.width \in Nat \ {0}
      BY <1>3
    <3>2. MultipleOf(bar.open, j.req.width)
      BY <1>6, <2>4, <3>1, ResampledBar
    <3>3. PICK n \in Nat : bar.open = j.req.width * n
      BY <3>2 DEF MultipleOf
    <3> QED  BY <3>1, <3>3
  <2>6. row.t < clock
    BY <1>3, <1>7, <1>8, <2>2, <2>3, <2>5 DEF WindowEnded
  <2> QED  BY <1>3, <1>4, <2>1, <2>6 DEF FrameOK
<1> QED  BY <1>8, <1>9

LEMMA ServedRepairs ==
  ASSUME IInv, NEW j, Serving(j) PROVE RepairsReported'
<1>1. PICK grade : answer' = Reply(j, grade, clock)
  BY DEF Serving
<1> DEFINE clean == CleanOhlcv(j.raw).rows
           served == UNION {bar.parts : bar \in answer'.bars}
           wicks == {row \in served : series[row.t + 1] = "wick"}
<1>2. /\ answer'.repaired = CleanOhlcv(j.raw).repaired
      /\ answer'.bars = Clipped(j.req, Resample(clean, j.req.width), clock)
  BY <1>1 DEF Reply, Bars
<1>3. /\ Reported(j.raw, series, clock) /\ j.req.width \in Nat \ {0}
      /\ UNCHANGED series
  BY DEF Serving, JobOK
<1>4. answer'.bars \subseteq Resample(clean, j.req.width)
  BY <1>2 DEF Clipped, Slice, LastBars, LastOnes, DropFormingBar
<1>5. ASSUME NEW row \in wicks
      PROVE  \E kept \in Kept(j.raw) : row = Repaired(kept) /\ kept.kind = "wick"
  <2>1. PICK bar \in answer'.bars : row \in bar.parts
    OBVIOUS
  <2>2. PICK kept \in Kept(j.raw) : /\ row = Repaired(kept) /\ row.t = kept.t
                                    /\ Sound(kept, series, clock)
    BY <1>3, <1>4, <2>1, ServedRow
  <2> QED  BY <2>2 DEF Sound
<1>6. IsFiniteSet(j.raw)
  BY <1>3 DEF Reported
<1> HIDE DEF wicks
<1>7. Cardinality(wicks) <= CleanOhlcv(j.raw).repaired
  BY <1>5, <1>6, RepairsCounted
<1> QED  BY <1>2, <1>3, <1>7 DEF RepairsReported, wicks

LEMMA ServedAnswers ==
  ASSUME IInv, NEW j, Serving(j) PROVE AnswersRequest'
<1>1. PICK grade : answer' = Reply(j, grade, clock)
  BY DEF Serving
<1> DEFINE made == Resample(CleanOhlcv(j.raw).rows, j.req.width)
<1>2. /\ answer'.req = j.req /\ answer'.source = j.source /\ answer'.rows = j.raw
      /\ answer'.bars = Clipped(j.req, made, clock)
  BY <1>1 DEF Reply, Bars
<1>3. FrameOK(j, provider, series, clock)
  BY DEF Serving, JobOK, Searching
<1>4. SUFFICES ASSUME j.req.kind = "historical"
               PROVE  /\ \A bar \in answer'.bars :
                           /\ WithinRequest(bar.open, j.req.from, j.req.to)
                           /\ \A other \in answer'.bars : other.open = bar.open => other = bar
                      /\ j.source = "cache" => CacheCovers(j.raw, j.req.from, j.req.to)
  BY <1>2 DEF AnswersRequest
<1>5. answer'.bars = {bar \in made : WithinRequest(bar.open, j.req.from, j.req.to)}
  BY <1>2, <1>4 DEF Clipped, Slice
<1>6. \A bar \in made, other \in made : other.open = bar.open => other = bar
  BY ResampledOnce
<1> HIDE DEF made
<1> QED  BY <1>3, <1>4, <1>5, <1>6 DEF FrameOK

---------------------------------------------------------------------------
(* The theorems.  A property of what is served holds because it holds of      *)
(* every reply, and of every step that serves nothing.                        *)

\* Whatever crashes, damage and interleaved writers leave in the cache, only rows
\* the vendor published are served (load, frame_checksum).
THEOREM Genuineness == Spec => []ServedIsGenuine
<1>1. Init => ServedIsGenuine
  BY DEF Init, None, ServedIsGenuine, Served
<1>2. IInv /\ ServedIsGenuine /\ [Next]_vars => ServedIsGenuine'
  <2>1. ASSUME UNCHANGED vars, ServedIsGenuine PROVE ServedIsGenuine'
    BY <2>1 DEF vars, ServedIsGenuine, Served, Genuine
  <2>2. ASSUME Next, answer'.kind # "served" PROVE ServedIsGenuine'
    BY <2>2 DEF ServedIsGenuine, Served
  <2> QED  BY <2>1, <2>2, OnlyDelivered, ServedGenuine
<1> QED  BY <1>1, <1>2, Invariance, PTL DEF Spec

\* Within the window asked for a download replaces what was cached of a bar
\* (merge): the answer is what the vendor reports at that moment.
THEOREM Freshness == Spec => []DownloadedBarsWin
<1>1. Init => DownloadedBarsWin
  BY DEF Init, None, DownloadedBarsWin, Served
<1>2. IInv /\ DownloadedBarsWin /\ [Next]_vars => DownloadedBarsWin'
  <2>1. ASSUME UNCHANGED vars, DownloadedBarsWin PROVE DownloadedBarsWin'
    BY <2>1 DEF vars, DownloadedBarsWin, Served, Published, RowsOfBar
  <2>2. ASSUME Next, answer'.kind # "served" PROVE DownloadedBarsWin'
    BY <2>2 DEF DownloadedBarsWin, Served
  <2> QED  BY <2>1, <2>2, OnlyDelivered, ServedDownloaded
<1> QED  BY <1>1, <1>2, Invariance, PTL DEF Spec

\* A latest bar whose window has not ended is served only when a bar closed
\* between the download and the check of the last bar (_drop_forming_bar).
THEOREM Completeness == Spec => []FormingBarOnlyByRace
<1>1. Init => FormingBarOnlyByRace
  BY DEF Init, None, FormingBarOnlyByRace, Served
<1>2. IInv /\ FormingBarOnlyByRace /\ [Next]_vars => FormingBarOnlyByRace'
  <2>1. ASSUME UNCHANGED vars, FormingBarOnlyByRace PROVE FormingBarOnlyByRace'
    BY <2>1 DEF vars, FormingBarOnlyByRace, Served
  <2>2. ASSUME Next, answer'.kind # "served" PROVE FormingBarOnlyByRace'
    BY <2>2 DEF FormingBarOnlyByRace, Served
  <2> QED  BY <2>1, <2>2, OnlyDelivered, ServedComplete
<1> QED  BY <1>1, <1>2, Invariance, PTL DEF Spec

\* Every repaired bar that is served is in the count the grade was given for
\* (clean_ohlcv, _check_repairs), however often it went through the cache.
THEOREM Candour == Spec => []RepairsReported
<1>1. Init => RepairsReported
  BY DEF Init, None, RepairsReported, Served
<1>2. IInv /\ RepairsReported /\ [Next]_vars => RepairsReported'
  <2>1. ASSUME UNCHANGED vars, RepairsReported PROVE RepairsReported'
    BY <2>1 DEF vars, RepairsReported, Served
  <2>2. ASSUME Next, answer'.kind # "served" PROVE RepairsReported'
    BY <2>2 DEF RepairsReported, Served
  <2> QED  BY <2>1, <2>2, OnlyDelivered, ServedRepairs
<1> QED  BY <1>1, <1>2, Invariance, PTL DEF Spec

\* The bars of an answer lie within the request, each once, and a frame out of
\* the cache spans it (slice, resample, _cache_covers).
THEOREM Scope == Spec => []AnswersRequest
<1>1. Init => AnswersRequest
  BY DEF Init, None, AnswersRequest, Served
<1>2. IInv /\ AnswersRequest /\ [Next]_vars => AnswersRequest'
  <2>1. ASSUME UNCHANGED vars, AnswersRequest PROVE AnswersRequest'
    BY <2>1 DEF vars, AnswersRequest, Served
  <2>2. ASSUME Next, answer'.kind # "served" PROVE AnswersRequest'
    BY <2>2 DEF AnswersRequest, Served
  <2> QED  BY <2>1, <2>2, OnlyDelivered, ServedAnswers
<1> QED  BY <1>1, <1>2, Invariance, PTL DEF Spec
=============================================================================
