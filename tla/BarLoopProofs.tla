--------------------------- MODULE BarLoopProofs ---------------------------
(* Lemmas about the operators of BarLoop: what one bar, and a trip through   *)
(* the state file, preserve of a book.                                       *)
EXTENDS BarLoop, PortfolioProofs

---------------------------------------------------------------------------
(* Prices are integers *)

\* A published bar has integer prices, and one signal at most.
LEMMA BarIsRecord ==
  ASSUME NEW bar \in Bars
  PROVE  /\ bar.open \in Int /\ bar.high \in Int /\ bar.low \in Int
         /\ bar.close \in Int /\ bar.atr \in Int
         /\ bar.low <= bar.high
         /\ \A s \in bar.signal : s \in Signals
         /\ \A s1, s2 \in bar.signal : s1 = s2
  BY BarAssumption DEF BarRecords

\* Each slippage model gives an integer (_slippage_per_unit).
LEMMA SlippageIsInt ==
  ASSUME NEW price \in Int, NEW atr \in Int
  PROVE  Slippage(price, atr) \in Int
<1>1. Exec.slippageModel \in SlippageModels /\ Exec.slippageValue \in Nat
  BY ExecAssumption DEF ExecConfig
<1>2. \A x, r \in Int : Bps(x, r) \in Int
  BY DEF Bps
<1> QED  BY <1>1, <1>2 DEF Slippage, SlippageModels

\* An order fills at an integer price (execute).
LEMMA EntryPriceIsInt ==
  ASSUME NEW bar \in Bars, NEW dir \in Directions
  PROVE  EntryPrice(dir, bar) \in Int
<1>1. Exec.halfSpread \in Nat
  BY ExecAssumption DEF ExecConfig
<1>2. Slippage(bar.open, bar.atr) \in Int
  BY BarIsRecord, SlippageIsInt
<1>3. Sign(dir) \in Int
  BY DEF Sign
<1> QED  BY <1>1, <1>2, <1>3, BarIsRecord DEF EntryPrice

---------------------------------------------------------------------------
(* Each step of process_bar keeps the shape of a book and its watermark *)

\* The fields of a book and of a portfolio, spelled out.
LEMMA BookFieldsAre ==
  /\ BookFields = {"watermark", "barCounter", "barsProcessed", "barsDecided",
                   "ambiguous", "pending", "lastRegime", "lastClose", "port", "perf"}
  /\ PortfolioFields = {"cash", "realised", "costs", "positions", "trades", "curve",
                        "peak", "dayStart", "day"}
  BY DEF BookFields, PortfolioFields, BlankBook, EmptyPortfolio

\* _blank_state and a new portfolio make a book.
LEMMA BlankBookIsBook == IsBook(BlankBook)
  BY BookFieldsAre DEF IsBook, IsBookAt, BlankBook, EmptyPortfolio

\* A filled order opens a position of the session's symbol, entered on the fill bar.
LEMMA PositionIsPosition ==
  ASSUME NEW o, NEW bar \in Bars, NEW t \in Nat \ {0}, NEW index, IsOrder(o, t)
  PROVE  /\ IsPosition(PositionOf(o, bar, t, index), t)
         /\ PositionOf(o, bar, t, index).symbol = Symbol
  BY EntryPriceIsInt DEF PositionOf, IsPosition, IsOrder, PositionFields

\* A record with the fields of a portfolio.
IsPortfolio(pf) == pf = [f \in PortfolioFields |-> pf[f]]

\* open_position adds one position and keeps the portfolio's fields.
LEMMA OpenPositionKeepsPortfolio ==
  ASSUME NEW pf, NEW p, IsPortfolio(pf)
  PROVE  /\ IsPortfolio(OpenPosition(pf, p))
         /\ OpenPosition(pf, p).positions = pf.positions \cup {p}
  BY BookFieldsAre DEF OpenPosition, IsPortfolio

\* _fill_pending_orders keeps the book's shape, leaves the watermark alone and
\* empties the queue.
LEMMA FillKeepsBook ==
  ASSUME NEW b, NEW bar \in Bars, NEW t \in Nat \ {0}, IsBookAt(b, t)
  PROVE  /\ IsBookAt(FillPendingOrders(b, bar, t), t)
         /\ FillPendingOrders(b, bar, t).watermark = b.watermark
         /\ FillPendingOrders(b, bar, t).pending = {}
<1> DEFINE filled == {o \in b.pending : Fills(o, bar) /\ StopStillValid(o, bar)}
           order == CHOOSE o \in filled : TRUE
           p == PositionOf(order, bar, t, b.barCounter)
           c == FillPendingOrders(b, bar, t)
<1>1. c = [b EXCEPT !.pending = {},
                    !.port = IF filled = {} THEN b.port ELSE OpenPosition(b.port, p)]
  BY DEF FillPendingOrders
<1>2. filled # {} => order \in b.pending
  OBVIOUS
<1>3. filled # {} => IsPosition(p, t)
  BY <1>2, PositionIsPosition DEF IsBookAt
<1>4. /\ IsPortfolio(b.port) /\ IsPortfolio(OpenPosition(b.port, p))
      /\ OpenPosition(b.port, p).positions = b.port.positions \cup {p}
  BY OpenPositionKeepsPortfolio DEF IsBookAt, IsPortfolio
<1> HIDE DEF p, filled
<1>5. /\ c = [f \in BookFields |-> c[f]]
      /\ c.pending = {} /\ c.watermark = b.watermark
      /\ c.port = IF filled = {} THEN b.port ELSE OpenPosition(b.port, p)
  BY <1>1, BookFieldsAre DEF IsBookAt
<1> HIDE DEF c
<1>6. \A q \in c.port.positions : IsPosition(q, t)
  BY <1>3, <1>4, <1>5 DEF IsBookAt
<1>7. IsBookAt(c, t)
  BY <1>4, <1>5, <1>6 DEF IsBookAt, IsPortfolio
<1> QED  BY <1>5, <1>7 DEF c

\* close_position removes the closed positions and keeps the portfolio's fields.
LEMMA ClosePositionsKeepsPortfolio ==
  ASSUME NEW pf, NEW exits, NEW t, NEW index, NEW regime, IsPortfolio(pf)
  PROVE  /\ IsPortfolio(ClosePositions(pf, exits, t, index, regime))
         /\ ClosePositions(pf, exits, t, index, regime).positions
              = pf.positions \ DOMAIN exits
  BY BookFieldsAre DEF ClosePositions, IsPortfolio

\* _process_exits keeps the book's shape, the watermark and the queue; the
\* positions left are those the bar does not close.
LEMMA ExitsKeepsBook ==
  ASSUME NEW b, NEW bar \in Bars, NEW t \in Nat \ {0}, IsBookAt(b, t)
  PROVE  LET c == ProcessExits(b, bar, t)
         IN  /\ IsBookAt(c, t)
             /\ c.watermark = b.watermark /\ c.pending = b.pending
             /\ c.port.positions = {p \in b.port.positions : ~Exits(p, bar)}
<1> DEFINE c == ProcessExits(b, bar, t)
           closing == {p \in b.port.positions : Exits(p, bar)}
           exits == [p \in closing |-> ExitOnBar(p, bar)]
           port == ClosePositions(b.port, exits, t, b.barCounter, b.lastRegime)
<1>0. IsPortfolio(b.port)
  BY DEF IsBookAt, IsPortfolio
<1>1. IsPortfolio(port) /\ port.positions = b.port.positions \ closing
  BY <1>0, ClosePositionsKeepsPortfolio
<1>2. /\ c = [f \in BookFields |-> c[f]]
      /\ c.pending = b.pending /\ c.watermark = b.watermark /\ c.port = port
  BY BookFieldsAre DEF ProcessExits, IsBookAt
<1> HIDE DEF c, port
<1>3. c.port.positions = {p \in b.port.positions : ~Exits(p, bar)}
  BY <1>1, <1>2
<1>4. IsBookAt(c, t)
  BY <1>1, <1>2, <1>3 DEF IsBookAt, IsPortfolio
<1> QED  BY <1>2, <1>3, <1>4 DEF c

\* track_excursions widens the range a position has seen, and nothing else.
LEMMA TrackedPosition ==
  ASSUME NEW p, NEW bar \in Bars, NEW t, IsPosition(p, t)
  PROVE  /\ IsPosition(TrackPosition(p, bar), t)
         /\ TrackPosition(p, bar).low = Min2(p.low, bar.low)
         /\ TrackPosition(p, bar).high = Max2(p.high, bar.high)
         /\ TrackPosition(p, bar).dir = p.dir /\ TrackPosition(p, bar).stop = p.stop
<1> DEFINE low == Min2(p.low, bar.low)
           high == Max2(p.high, bar.high)
           q == TrackPosition(p, bar)
<1>1. low \in Int /\ high \in Int /\ low <= high
  BY BarIsRecord DEF IsPosition, Min2, Max2
<1>2. q = [p EXCEPT !.low = low, !.high = high]
  BY DEF TrackPosition
<1> HIDE DEF low, high, q
<1>3. /\ q = [f \in PositionFields |-> q[f]]
      /\ q.low = low /\ q.high = high
      /\ q.dir = p.dir /\ q.stop = p.stop /\ q.symbol = p.symbol
      /\ q.entryBar = p.entryBar /\ q.queuedOn = p.queuedOn
  BY <1>2 DEF IsPosition, PositionFields
<1>4. IsPosition(q, t)
  BY <1>1, <1>3 DEF IsPosition
<1> QED  BY <1>3, <1>4 DEF low, high, q

\* Marking to market keeps the book's shape, the watermark and the queue; every
\* position is tracked through the bar.
LEMMA MarkKeepsBook ==
  ASSUME NEW b, NEW bar \in Bars, NEW t \in Nat \ {0}, IsBookAt(b, t)
  PROVE  LET c == MarkToMarket(b, bar, t)
         IN  /\ IsBookAt(c, t)
             /\ c.watermark = b.watermark /\ c.pending = b.pending
             /\ c.port.positions = {TrackPosition(p, bar) : p \in b.port.positions}
<1> DEFINE c == MarkToMarket(b, bar, t)
           tracked == TrackExcursions(b.port, bar)
           port == RecordSnapshot(tracked, t, bar.close)
           cut == IF Len(port.curve) > 2 * MaxEquityPoints
                  THEN [port EXCEPT !.curve = LastN(@, MaxEquityPoints)] ELSE port
<1>1. /\ IsPortfolio(tracked)
      /\ tracked.positions = {TrackPosition(p, bar) : p \in b.port.positions}
  BY BookFieldsAre DEF TrackExcursions, IsPortfolio, IsBookAt
<1>2. \A p \in tracked.positions : IsPosition(p, t)
  BY <1>1, TrackedPosition DEF IsBookAt
<1> HIDE DEF tracked
<1>3. IsPortfolio(RollDay(tracked, t)) /\ RollDay(tracked, t).positions = tracked.positions
  BY <1>1, BookFieldsAre DEF RollDay, IsPortfolio
<1>4. IsPortfolio(port) /\ port.positions = tracked.positions
  BY <1>3, BookFieldsAre DEF RecordSnapshot, IsPortfolio
<1>5. IsPortfolio(cut) /\ cut.positions = tracked.positions
  <2> HIDE DEF port
  <2> QED  BY <1>4, BookFieldsAre DEF IsPortfolio
<1>6. c = [b EXCEPT !.port = cut, !.lastClose = bar.close]
  BY DEF MarkToMarket, tracked
<1> HIDE DEF cut, c
<1>7. /\ c = [f \in BookFields |-> c[f]]
      /\ c.pending = b.pending /\ c.watermark = b.watermark /\ c.port = cut
  BY <1>6, BookFieldsAre DEF IsBookAt
<1>8. IsBookAt(c, t)
  BY <1>2, <1>5, <1>7 DEF IsBookAt, IsPortfolio
<1> QED  BY <1>1, <1>5, <1>7, <1>8 DEF c

\* The queue holds one order at most, and none at a position limit.
QueueWithinLimits(b) ==
  \/ b.pending = {}
  \/ /\ \E o \in b.pending : b.pending = {o}
     /\ Cardinality(b.port.positions) < Risk.maxConcurrent
     /\ Cardinality(PositionsIn(b.port, Symbol)) < Risk.maxPerSymbol

\* Nothing is queued with the kill switch off, or on a grade that is refused.
QueuePermitted(b, enabled, quality) ==
  b.pending # {} => enabled /\ QualityAccepted(quality)

\* _decide_on_bar keeps the book's shape, the watermark and the portfolio, and
\* queues nothing at a position limit, nor without permission.
LEMMA DecideKeepsBook ==
  ASSUME NEW b, NEW bar \in Bars, NEW t \in Nat \ {0}, NEW enabled, NEW quality,
         IsBookAt(b, t), b.pending = {}
  PROVE  LET c == DecideOnBar(b, bar, t, enabled, quality)
         IN  /\ IsBookAt(c, t)
             /\ c.watermark = b.watermark /\ c.port = b.port
             /\ QueueWithinLimits(c) /\ QueuePermitted(c, enabled, quality)
<1> DEFINE c == DecideOnBar(b, bar, t, enabled, quality)
           seen == [b EXCEPT !.lastRegime = bar.regime, !.barsDecided = @ + 1]
           equity == Last(b.port.curve).equity
           approved == {s \in {FinalSignal(x) : x \in bar.signal} :
                          Approves(s, b.port, equity, quality, enabled, <<>>)}
           orders == {OrderOf(s, seen, equity, t) : s \in approved}
<1>1. CASE bar.fails
  BY <1>1 DEF DecideOnBar, QueueWithinLimits, QueuePermitted
<1>2. CASE ~bar.fails
  <2>1. /\ seen = [f \in BookFields |-> seen[f]] /\ seen.watermark = b.watermark
        /\ seen.port = b.port /\ seen.pending = {}
    BY BookFieldsAre DEF IsBookAt
  <2>2. IsBookAt(seen, t)
    <3> HIDE DEF seen
    <3> QED  BY <2>1 DEF IsBookAt
  <2>3. c = IF approved = {} THEN seen ELSE [seen EXCEPT !.pending = orders]
    BY <1>2 DEF DecideOnBar
  <2>4. CASE approved = {}
    BY <2>1, <2>2, <2>3, <2>4 DEF QueueWithinLimits, QueuePermitted
  <2>5. CASE approved # {}
    <3>1. PICK s : s \in approved
      BY <2>5
    <3>2. approved = {s}
      <4>1. \A x1, x2 \in bar.signal : x1 = x2
        BY BarIsRecord
      <4> QED  BY <3>1, <4>1
    <3>3. /\ s.symbol = Symbol /\ s.dir \in Directions
          /\ GatesPass(s, b.port, equity, quality, enabled)
      <4>1. PICK x \in bar.signal : s = FinalSignal(x)
        BY <3>1
      <4>2. x.dir \in Directions
        BY BarIsRecord DEF Signals
      <4>3. Approves(s, b.port, equity, quality, enabled, <<>>)
        BY <3>1
      <4> QED  BY <4>1, <4>2, <4>3 DEF FinalSignal, Approves
    <3> DEFINE o == OrderOf(s, seen, equity, t)
    <3>4. o.symbol = Symbol /\ o.dir \in Directions /\ o.queuedOn = t
      <4> HIDE DEF seen, equity
      <4> QED  BY <3>3 DEF OrderOf
    <3>5. orders = {o}
      BY <3>2
    <3> HIDE DEF o, orders, seen
    <3>6. c = [seen EXCEPT !.pending = {o}]
      BY <2>3, <2>5, <3>5
    <3>7. /\ c = [f \in BookFields |-> c[f]] /\ c.watermark = b.watermark
          /\ c.port = b.port /\ c.pending = {o}
      BY <2>1, <3>6, BookFieldsAre
    <3>8. IsBookAt(c, t)
      BY <2>2, <3>4, <3>7, <2>1 DEF IsBookAt, IsOrder
    <3>9. QueuePermitted(c, enabled, quality)
      BY <3>3 DEF GatesPass, QueuePermitted
    <3> QED  BY <3>3, <3>7, <3>8, <3>9 DEF GatesPass, QueueWithinLimits
  <2> QED  BY <2>4, <2>5
<1> QED  BY <1>1, <1>2

\* The first step of process_bar.
Counted(b) == [b EXCEPT !.barCounter = @ + 1]

\* The bar counter is all that counting a bar changes.
LEMMA CountedKeepsBook ==
  ASSUME NEW b, NEW t \in Nat, IsBook(b), b.watermark < t
  PROVE  /\ IsBookAt(Counted(b), t) /\ Counted(b).watermark = b.watermark
         /\ Counted(b).port = b.port /\ Counted(b).pending = b.pending
<1>1. /\ Counted(b) = [f \in BookFields |-> Counted(b)[f]]
      /\ Counted(b).watermark = b.watermark
      /\ Counted(b).port = b.port /\ Counted(b).pending = b.pending
  BY BookFieldsAre DEF Counted, IsBook, IsBookAt
<1> QED  BY <1>1 DEF IsBook, IsBookAt, IsOrder, IsPosition

\* What one bar past the watermark leaves: its positions are those that were
\* open or filled and survived the exits, and a new order is queued only below
\* both position limits.
LEMMA ProcessBarKeepsBook ==
  ASSUME NEW b, NEW bar \in Bars, NEW t \in Nat, IsBook(b), b.watermark < t,
         NEW enabled, NEW quality, NEW warm
  PROVE  LET c == ProcessBar(b, bar, t, enabled, quality, warm)
             f == FillPendingOrders(Counted(b), bar, t)
         IN  /\ IsBook(c) /\ c.watermark = t
             /\ c.port.positions =
                  {TrackPosition(p, bar) : p \in {q \in f.port.positions : ~Exits(q, bar)}}
             /\ QueueWithinLimits(c) /\ QueuePermitted(c, enabled, quality)
<1> DEFINE filled == FillPendingOrders(Counted(b), bar, t)
           exited == ProcessExits(filled, bar, t)
           marked == MarkToMarket(exited, bar, t)
           decided == IF warm THEN DecideOnBar(marked, bar, t, enabled, quality) ELSE marked
           c == ProcessBar(b, bar, t, enabled, quality, warm)
<1>1. t \in Nat \ {0}
  BY DEF IsBook, IsBookAt
<1>2. IsBookAt(Counted(b), t) /\ Counted(b).watermark = b.watermark
  BY CountedKeepsBook
<1>3. IsBookAt(filled, t) /\ filled.watermark = b.watermark /\ filled.pending = {}
  BY <1>1, <1>2, FillKeepsBook
<1>4. /\ IsBookAt(exited, t) /\ exited.watermark = b.watermark /\ exited.pending = {}
      /\ exited.port.positions = {q \in filled.port.positions : ~Exits(q, bar)}
  <2> HIDE DEF filled
  <2> QED  BY <1>1, <1>3, ExitsKeepsBook
<1>5. /\ IsBookAt(marked, t) /\ marked.watermark = b.watermark /\ marked.pending = {}
      /\ marked.port.positions = {TrackPosition(p, bar) : p \in exited.port.positions}
  <2> HIDE DEF exited
  <2> QED  BY <1>1, <1>4, MarkKeepsBook
<1>7. c = [decided EXCEPT !.watermark = Max2(@, t), !.barsProcessed = @ + 1]
  BY DEF ProcessBar, Counted
<1> HIDE DEF marked, exited, filled
<1>6. /\ IsBookAt(decided, t) /\ decided.watermark = b.watermark
      /\ decided.port = marked.port
      /\ QueueWithinLimits(decided) /\ QueuePermitted(decided, enabled, quality)
  <2>1. CASE ~warm
    BY <1>5, <2>1 DEF QueueWithinLimits, QueuePermitted
  <2>2. CASE warm
    <3>1. decided = DecideOnBar(marked, bar, t, enabled, quality)
      BY <2>2
    <3> HIDE DEF decided
    <3> QED  BY <1>1, <1>5, <3>1, DecideKeepsBook
  <2> QED  BY <2>1, <2>2
<1> HIDE DEF decided, c
<1>8. Max2(decided.watermark, t) = t
  BY <1>6 DEF Max2, IsBook, IsBookAt
<1>9. /\ c = [f \in BookFields |-> c[f]] /\ c.watermark = t
      /\ c.port = decided.port /\ c.pending = decided.pending
  BY <1>6, <1>7, <1>8, BookFieldsAre DEF IsBookAt
<1>10. IsBook(c)
  BY <1>6, <1>9 DEF IsBook, IsBookAt
<1>11. QueueWithinLimits(c)
  BY <1>6, <1>9 DEF QueueWithinLimits
<1>12. QueuePermitted(c, enabled, quality)
  BY <1>6, <1>9 DEF QueuePermitted
<1> QED  BY <1>4, <1>5, <1>6, <1>9, <1>10, <1>11, <1>12 DEF c, filled

---------------------------------------------------------------------------
(* Stops *)

\* The position an order opens has not been through its stop: the fill that
\* lands beyond the stop is abandoned.
LEMMA FillHonoursStops ==
  ASSUME NEW b, NEW bar \in Bars, NEW t \in Nat \ {0}, IsBookAt(b, t),
         \A p \in b.port.positions : NotThroughStop(p)
  PROVE  \A p \in FillPendingOrders(b, bar, t).port.positions : NotThroughStop(p)
<1> DEFINE filled == {o \in b.pending : Fills(o, bar) /\ StopStillValid(o, bar)}
           order == CHOOSE o \in filled : TRUE
           p == PositionOf(order, bar, t, b.barCounter)
           c == FillPendingOrders(b, bar, t)
<1>1. filled # {} => NotThroughStop(p)
  <2>1. filled # {} => order \in filled
    OBVIOUS
  <2>2. filled # {} => StopStillValid(order, bar)
    BY <2>1
  <2>3. /\ p.dir = order.dir /\ p.stop = order.stop
        /\ p.low = EntryPrice(order.dir, bar) /\ p.high = EntryPrice(order.dir, bar)
    BY DEF PositionOf
  <2> HIDE DEF p, order, filled
  <2> QED  BY <2>2, <2>3 DEF StopStillValid, NotThroughStop
<1>2. IsPortfolio(b.port)
  BY DEF IsBookAt, IsPortfolio
<1>3. OpenPosition(b.port, p).positions = b.port.positions \cup {p}
  BY <1>2, OpenPositionKeepsPortfolio
<1>4. c.port = IF filled = {} THEN b.port ELSE OpenPosition(b.port, p)
  BY BookFieldsAre DEF FillPendingOrders, IsBookAt
<1> HIDE DEF p, filled, c
<1>5. \A q \in c.port.positions : NotThroughStop(q)
  BY <1>1, <1>3, <1>4
<1> QED  BY <1>5 DEF c

\* A position that survives the bar's exits and is then tracked through the bar
\* has not been through its stop.
LEMMA SurvivorHonoursStop ==
  ASSUME NEW p, NEW bar \in Bars, NEW t, IsPosition(p, t),
         NotThroughStop(p), ~Exits(p, bar)
  PROVE  NotThroughStop(TrackPosition(p, bar))
<1>1. ~Worse(p.dir, Adverse(p.dir, bar), p.stop)
  BY DEF Exits, StopHit
<1>2. /\ TrackPosition(p, bar).low = Min2(p.low, bar.low)
      /\ TrackPosition(p, bar).high = Max2(p.high, bar.high)
      /\ TrackPosition(p, bar).dir = p.dir /\ TrackPosition(p, bar).stop = p.stop
  BY TrackedPosition
<1> QED  BY <1>1, <1>2 DEF NotThroughStop, Worse, Adverse, Min2, Max2

\* process_bar leaves no position that has been through its stop.
LEMMA ProcessBarHonoursStops ==
  ASSUME NEW b, NEW bar \in Bars, NEW t \in Nat, IsBook(b), b.watermark < t,
         NEW enabled, NEW quality, NEW warm,
         \A p \in b.port.positions : NotThroughStop(p)
  PROVE  \A p \in ProcessBar(b, bar, t, enabled, quality, warm).port.positions :
           NotThroughStop(p)
<1> DEFINE f == FillPendingOrders(Counted(b), bar, t)
           c == ProcessBar(b, bar, t, enabled, quality, warm)
<1>1. t \in Nat \ {0}
  BY DEF IsBook, IsBookAt
<1>2. IsBookAt(Counted(b), t) /\ \A p \in Counted(b).port.positions : NotThroughStop(p)
  BY CountedKeepsBook
<1>3. IsBookAt(f, t) /\ \A p \in f.port.positions : NotThroughStop(p)
  BY <1>1, <1>2, FillKeepsBook, FillHonoursStops
<1> HIDE DEF f
<1>4. c.port.positions =
        {TrackPosition(p, bar) : p \in {q \in f.port.positions : ~Exits(q, bar)}}
  BY ProcessBarKeepsBook DEF f
<1> HIDE DEF c
<1>5. \A p \in f.port.positions : IsPosition(p, t)
  BY <1>3 DEF IsBookAt
<1>6. \A p \in c.port.positions : NotThroughStop(p)
  BY <1>3, <1>4, <1>5, SurvivorHonoursStop
<1> QED  BY <1>6 DEF c

---------------------------------------------------------------------------
(* Position limits *)

\* The positions and the queue are finite, and together within the limits.
WithinLimits(b) ==
  IsFiniteSet(b.port.positions) /\ IsFiniteSet(b.pending) /\ Exposures(b) <= PositionCap

\* At least one position may be open.
LEMMA PositionCapIsNat == PositionCap \in Nat \ {0}
  BY RiskAssumption DEF PositionCap, RiskConfig, Min2

\* A blank book holds nothing.
LEMMA BlankBookWithinLimits == WithinLimits(BlankBook)
  BY FS_EmptySet, PositionCapIsNat
     DEF WithinLimits, BlankBook, EmptyPortfolio, Exposures

\* A queued order opens one position at most, and leaves the queue.
LEMMA FillCountsOnce ==
  ASSUME NEW b, NEW bar \in Bars, NEW t \in Nat \ {0}, IsBookAt(b, t), WithinLimits(b)
  PROVE  LET ps == FillPendingOrders(b, bar, t).port.positions
         IN  IsFiniteSet(ps) /\ Cardinality(ps) <= PositionCap
<1> DEFINE filled == {o \in b.pending : Fills(o, bar) /\ StopStillValid(o, bar)}
           p == PositionOf(CHOOSE o \in filled : TRUE, bar, t, b.barCounter)
           c == FillPendingOrders(b, bar, t)
<1>1. IsPortfolio(b.port)
  BY DEF IsBookAt, IsPortfolio
<1>2. OpenPosition(b.port, p).positions = b.port.positions \cup {p}
  BY <1>1, OpenPositionKeepsPortfolio
<1>3. c.port = IF filled = {} THEN b.port ELSE OpenPosition(b.port, p)
  BY BookFieldsAre DEF FillPendingOrders, IsBookAt
<1>4. filled # {} => b.pending # {}
  OBVIOUS
<1> HIDE DEF p, filled, c
<1>5. /\ IsFiniteSet(b.port.positions \cup {p})
      /\ Cardinality(b.port.positions \cup {p}) <= Cardinality(b.port.positions) + 1
      /\ Cardinality(b.port.positions) \in Nat
  <2>1. IsFiniteSet(b.port.positions) /\ Cardinality(b.port.positions) \in Nat
    BY FS_CardinalityType DEF WithinLimits
  <2> DEFINE ps == b.port.positions
  <2> HIDE DEF ps
  <2>2. /\ IsFiniteSet(ps \cup {p})
        /\ Cardinality(ps \cup {p}) = IF p \in ps THEN Cardinality(ps)
                                       ELSE Cardinality(ps) + 1
    BY <2>1, FS_AddElement DEF ps
  <2>3. Cardinality(ps) <= Cardinality(ps) + 1
    BY <2>1 DEF ps
  <2> QED  BY <2>1, <2>2, <2>3 DEF ps
<1>6. /\ Cardinality(b.pending) \in Nat
      /\ b.pending # {} => Cardinality(b.pending) >= 1
  BY FS_CardinalityType, FS_EmptySet DEF WithinLimits
<1>7. Cardinality(b.port.positions) + Cardinality(b.pending) <= PositionCap
  BY DEF WithinLimits, Exposures
<1>8. IsFiniteSet(c.port.positions) /\ Cardinality(c.port.positions) <= PositionCap
  <2>1. CASE filled = {}
    BY <1>3, <1>5, <1>6, <1>7, <2>1, PositionCapIsNat DEF WithinLimits
  <2>2. CASE filled # {}
    <3>1. Cardinality(b.port.positions \cup {p}) \in Nat
      BY <1>5, FS_CardinalityType
    <3>2. c.port.positions = b.port.positions \cup {p}
      BY <1>2, <1>3, <2>2
    <3>3. Cardinality(b.port.positions) + 1 <= PositionCap
      BY <1>4, <1>5, <1>6, <1>7, <2>2, PositionCapIsNat
    <3>4. Cardinality(b.port.positions \cup {p}) <= PositionCap
      BY <1>5, <3>1, <3>3, PositionCapIsNat
    <3> QED  BY <1>5, <3>2, <3>4
  <2> QED  BY <2>1, <2>2
<1> QED  BY <1>8 DEF c

\* The image of a finite set is no larger; stated for the two tracked sets.
LEMMA TrackedSetNoLarger ==
  ASSUME NEW ps, IsFiniteSet(ps), NEW bar
  PROVE  LET tracked == {TrackPosition(p, bar) : p \in ps}
         IN  IsFiniteSet(tracked) /\ Cardinality(tracked) <= Cardinality(ps)
<1> DEFINE tracked == {TrackPosition(p, bar) : p \in ps}
           g == [p \in ps |-> TrackPosition(p, bar)]
<1>1. g \in Surjection(ps, tracked)
  BY DEF Surjection
<1> QED  BY <1>1, FS_Surjection

\* process_bar keeps positions and queue together within the limits.
LEMMA ProcessBarWithinLimits ==
  ASSUME NEW b, NEW bar \in Bars, NEW t \in Nat, IsBook(b), b.watermark < t,
         NEW enabled, NEW quality, NEW warm, WithinLimits(b)
  PROVE  WithinLimits(ProcessBar(b, bar, t, enabled, quality, warm))
<1> DEFINE f == FillPendingOrders(Counted(b), bar, t)
           c == ProcessBar(b, bar, t, enabled, quality, warm)
           kept == {q \in f.port.positions : ~Exits(q, bar)}
<1>1. t \in Nat \ {0}
  BY DEF IsBook, IsBookAt
<1>2. IsBookAt(Counted(b), t) /\ WithinLimits(Counted(b))
  BY CountedKeepsBook DEF WithinLimits, Exposures
<1>3. IsFiniteSet(f.port.positions) /\ Cardinality(f.port.positions) <= PositionCap
  BY <1>1, <1>2, FillCountsOnce
<1>4. /\ IsBook(c) /\ QueueWithinLimits(c)
      /\ c.port.positions = {TrackPosition(p, bar) : p \in kept}
  BY ProcessBarKeepsBook
<1> HIDE DEF f, c
<1>5. IsFiniteSet(kept) /\ Cardinality(kept) <= Cardinality(f.port.positions)
  BY <1>3, FS_Subset
<1> HIDE DEF kept
<1>6. IsFiniteSet(c.port.positions) /\ Cardinality(c.port.positions) <= Cardinality(kept)
  BY <1>4, <1>5, TrackedSetNoLarger
<1>7. Cardinality(c.port.positions) <= PositionCap
  BY <1>3, <1>5, <1>6, FS_CardinalityType, PositionCapIsNat
<1>8. PositionsIn(c.port, Symbol) = c.port.positions
  BY <1>4 DEF IsBook, IsBookAt, IsPosition, PositionsIn
<1> SUFFICES WithinLimits(c)
  BY DEF c
<1>9. CASE c.pending = {}
  BY <1>6, <1>7, <1>9, FS_EmptySet, FS_CardinalityType, PositionCapIsNat
     DEF WithinLimits, Exposures
<1>10. CASE c.pending # {}
  <2>1. PICK o : c.pending = {o}
    BY <1>4, <1>10 DEF QueueWithinLimits
  <2>2. IsFiniteSet(c.pending) /\ Cardinality(c.pending) = 1
    BY <2>1, FS_Singleton
  <2>3. /\ Cardinality(c.port.positions) < Risk.maxConcurrent
        /\ Cardinality(c.port.positions) < Risk.maxPerSymbol
    BY <1>4, <1>8, <1>10 DEF QueueWithinLimits
  <2>4. Cardinality(c.port.positions) + 1 <= PositionCap
    BY <1>6, <2>3, FS_CardinalityType, RiskAssumption DEF PositionCap, RiskConfig, Min2
  <2> QED  BY <1>6, <2>2, <2>4 DEF WithinLimits, Exposures
<1> QED  BY <1>9, <1>10

---------------------------------------------------------------------------
(* The state file *)

\* restore_excursions changes nothing: the bounds were saved in order.
LEMMA RestoredPosition ==
  ASSUME NEW p, NEW t, IsPosition(p, t)
  PROVE  RestorePosition(p) = p
<1>1. Min2(p.low, p.high) = p.low /\ Max2(p.low, p.high) = p.high
  BY DEF IsPosition, Min2, Max2
<1> QED  BY <1>1 DEF RestorePosition, IsPosition, PositionFields

\* What a write keeps: all but the histories, which are cut to their limits.
LEMMA SerialiseKeepsBook ==
  ASSUME NEW b, NEW q, IsBook(b)
  PROVE  LET c == Serialise(b, q).book
         IN  /\ IsBook(c) /\ c.watermark = b.watermark /\ c.pending = b.pending
             /\ c.port.positions = b.port.positions
<1> DEFINE c == Serialise(b, q).book
<1>1. /\ c = [f \in BookFields |-> c[f]]
      /\ c.port = [f \in PortfolioFields |-> c.port[f]]
      /\ c.watermark = b.watermark /\ c.pending = b.pending
      /\ c.port.positions = b.port.positions
  BY BookFieldsAre DEF Serialise, SavedPortfolio, IsBook, IsBookAt
<1> HIDE DEF c
<1>2. IsBook(c)
  BY <1>1 DEF IsBook, IsBookAt
<1> QED  BY <1>1, <1>2 DEF c

\* What a reload keeps: the watermark, the queue and the positions of the file.
LEMMA RestoreKeepsBook ==
  ASSUME NEW payload, IsBook(payload.book)
  PROVE  LET c == Restore(payload)
         IN  /\ IsBook(c) /\ c.watermark = payload.book.watermark
             /\ c.pending = payload.book.pending
             /\ c.port.positions = payload.book.port.positions
<1> DEFINE b == payload.book
           c == Restore(payload)
<1>1. {RestorePosition(p) : p \in b.port.positions} = b.port.positions
  BY RestoredPosition DEF IsBook, IsBookAt
<1>2. /\ c = [f \in BookFields |-> c[f]]
      /\ c.port = [f \in PortfolioFields |-> c.port[f]]
      /\ c.watermark = b.watermark /\ c.pending = b.pending
      /\ c.port.positions = {RestorePosition(p) : p \in b.port.positions}
  BY BookFieldsAre DEF Restore, RestorePortfolio, IsBook, IsBookAt
<1> HIDE DEF b, c
<1>3. IsBook(c)
  BY <1>1, <1>2 DEF IsBook, IsBookAt, b
<1> QED  BY <1>1, <1>2, <1>3 DEF b, c

\* A trip through the file leaves a recoverable book exactly as it was.
LEMMA RoundTrip ==
  ASSUME NEW b, NEW q, IsBook(b), Recoverable(b)
  PROVE  Serialise(b, q).book = b /\ Restore(Serialise(b, q)) = b
<1>1. LastN(b.port.trades, MaxClosedTrades) = b.port.trades
  BY DEF LastN, Recoverable
<1>2. LastN(b.port.curve, MaxEquityPoints) = b.port.curve
  BY DEF LastN, Recoverable
<1>3. SavedPortfolio(b.port) = b.port
  BY <1>1, <1>2, BookFieldsAre DEF SavedPortfolio, IsBook, IsBookAt
<1>4. {RestorePosition(p) : p \in b.port.positions} = b.port.positions
  BY RestoredPosition DEF IsBook, IsBookAt
<1>5. RestoreBaseline(b.port.peak) = b.port.peak
  BY DEF RestoreBaseline, Recoverable
<1>6. RestoreBaseline(b.port.dayStart) = b.port.dayStart
  BY DEF RestoreBaseline, Recoverable
<1>7. RestorePortfolio(b.port) = b.port
  BY <1>4, <1>5, <1>6, BookFieldsAre DEF RestorePortfolio, IsBook, IsBookAt
<1>8. [b EXCEPT !.port = b.port] = b
  BY BookFieldsAre DEF IsBook, IsBookAt
<1>9. Serialise(b, q).book = b
  BY <1>3, <1>8 DEF Serialise
<1>10. Restore(Serialise(b, q)) = b
  BY <1>7, <1>8, <1>9 DEF Restore
<1> QED  BY <1>9, <1>10

---------------------------------------------------------------------------
(* The account *)

\* The amounts of a queued order, and of the curve.
IsTicket(o) == o.qty \in Int /\ o.stop \in Int /\ o.target \in Int
IsCurve(curve) == IsSeq(curve) /\ \A i \in DOMAIN curve : curve[i].equity \in Int

\* Cash, realised P&L and costs agree with the trades, the open positions, and the
\* totals of trades no longer listed (past).
Accounted(b, past) ==
  /\ IsAccount(b.port) /\ Balanced(b.port, past) /\ IsCurve(b.port.curve)
  /\ \A o \in b.pending : IsTicket(o)

\* The curve ends with the equity at the last close.
Marked(b) ==
  b.port.curve # <<>> => Last(b.port.curve).equity = Equity(b.port, b.lastClose)

\* A fill costs an integer (spread, slippage and commission).
LEMMA FillCostIsInt ==
  ASSUME NEW qty \in Int, NEW reference \in Int, NEW price \in Int, NEW atr \in Int
  PROVE  FillCost(qty, reference, price, atr) \in Int
<1>1. /\ Exec.halfSpread \in Int /\ Exec.commissionPerUnit \in Int
      /\ Exec.commissionBps \in Int /\ Exec.minCommission \in Int
  BY ExecAssumption DEF ExecConfig
<1>2. qty * (Exec.halfSpread + Slippage(reference, atr)) \in Int
  <2>0. Slippage(reference, atr) \in Int
    BY SlippageIsInt
  <2>1. PICK s \in Int : s = Exec.halfSpread + Slippage(reference, atr)
    BY <1>1, <2>0
  <2> QED  BY <2>1
<1>3. Bps(qty * price, Exec.commissionBps) \in Int
  <2>1. PICK v \in Int : v = qty * price
    OBVIOUS
  <2>2. v * Exec.commissionBps \in Int
    BY <1>1
  <2> QED  BY <2>1, <2>2 DEF Bps
<1>4. Commission(qty, price) \in Int
  <2>1. qty * Exec.commissionPerUnit \in Int
    BY <1>1
  <2> QED  BY <1>1, <1>3, <2>1 DEF Commission, Max2
<1> QED  BY <1>2, <1>4 DEF FillCost

\* An order opens a position with integer amounts (open_position).
LEMMA LotOfOrder ==
  ASSUME NEW o, IsTicket(o), o.dir \in Directions, NEW bar \in Bars, NEW t, NEW index
  PROVE  LET p == PositionOf(o, bar, t, index)
         IN  IsLot(p) /\ p.entryBar = t /\ p.queuedOn = o.queuedOn
<1> DEFINE p == PositionOf(o, bar, t, index)
           entry == EntryPrice(o.dir, bar)
           cost == FillCost(o.qty, bar.open, entry, bar.atr)
           risk == Abs(entry - o.stop) * o.qty
<1>1. entry \in Int
  BY EntryPriceIsInt
<1>2. cost \in Int
  <2> HIDE DEF entry
  <2> QED  BY <1>1, BarIsRecord, FillCostIsInt DEF IsTicket
<1>3. risk \in Int
  <2> HIDE DEF entry
  <2>1. PICK a \in Int, q \in Int : a = Abs(entry - o.stop) /\ q = o.qty
    BY <1>1 DEF Abs, IsTicket
  <2> QED  BY <2>1
<1>4. /\ p = [f \in DOMAIN p |-> p[f]] /\ DOMAIN p = PositionFields
      /\ p.qty = o.qty /\ p.entry = entry /\ p.entryBar = t /\ p.entryCosts = cost
      /\ p.risk = risk /\ p.stop = o.stop /\ p.target = o.target /\ p.queuedOn = o.queuedOn
  BY DEF PositionOf, PositionFields
<1> HIDE DEF p, entry, cost, risk
<1>5. IsLot(p)
  BY <1>1, <1>2, <1>3, <1>4 DEF IsLot, IsTicket, PositionFields
<1> QED  BY <1>4, <1>5 DEF p

\* A position is closed at an integer price and cost (exit_fill).
LEMMA ExitAmounts ==
  ASSUME NEW p, IsLot(p), NEW bar \in Bars
  PROVE  ExitOnBar(p, bar).price \in Int /\ ExitOnBar(p, bar).cost \in Int
<1>1. PICK level \in Int : level = ExitLevel(p, bar)
  BY BarIsRecord DEF ExitLevel, IsLot
<1>2. PICK price \in Int :
         price = Max2(level - Sign(p.dir) * (Exec.halfSpread + Slippage(level, bar.atr)), 1)
  <2>a. bar.atr \in Int /\ Exec.halfSpread \in Int
    BY BarIsRecord, ExecAssumption DEF ExecConfig
  <2>0. Slippage(level, bar.atr) \in Int
    BY <2>a, SlippageIsInt
  <2>1. PICK s \in Int : s = Exec.halfSpread + Slippage(level, bar.atr)
    BY <2>a, <2>0
  <2>2. Sign(p.dir) * s \in Int
    BY DEF Sign
  <2> QED  BY <2>1, <2>2 DEF Max2
<1>3. ExitOnBar(p, bar).price = price
  BY <1>1, <1>2 DEF ExitOnBar, ExitFill
<1>4. ExitOnBar(p, bar).cost = FillCost(p.qty, level, price, bar.atr)
  BY <1>1, <1>2 DEF ExitOnBar, ExitFill
<1>5. FillCost(p.qty, level, price, bar.atr) \in Int
  BY BarIsRecord, FillCostIsInt DEF IsLot
<1> QED  BY <1>3, <1>4, <1>5

\* _fill_pending_orders keeps the account: the new position is the only one
\* entered on this bar.
LEMMA FillAccounted ==
  ASSUME NEW past \in Pasts, NEW b, NEW bar \in Bars, NEW t \in Nat \ {0}, IsBookAt(b, t), Accounted(b, past),
         \A p \in b.port.positions : p.entryBar # t
  PROVE  LET c == FillPendingOrders(b, bar, t)
         IN  /\ Accounted(c, past) /\ c.perf = b.perf
             /\ c.port.trades = b.port.trades /\ c.port.curve = b.port.curve
             /\ c.port.peak = b.port.peak /\ c.port.dayStart = b.port.dayStart
             /\ c.port.day = b.port.day
             /\ \A p \in c.port.positions :
                  p \in b.port.positions
                  \/ (p.entryBar = t /\ \E o \in b.pending : p.queuedOn = o.queuedOn)
<1> DEFINE filled == {o \in b.pending : Fills(o, bar) /\ StopStillValid(o, bar)}
           order == CHOOSE o \in filled : TRUE
           p == PositionOf(order, bar, t, b.barCounter)
           c == FillPendingOrders(b, bar, t)
           opened == OpenPosition(b.port, p)
<1>1. filled # {} => /\ order \in b.pending /\ IsTicket(order) /\ order.dir \in Directions
  BY DEF Accounted, IsBookAt, IsOrder
<1>2. filled # {} => IsLot(p) /\ p.entryBar = t /\ p.queuedOn = order.queuedOn
  <2> HIDE DEF order, filled
  <2> QED  BY <1>1, LotOfOrder
<1>3. c = [b EXCEPT !.pending = {}, !.port = IF filled = {} THEN b.port ELSE opened]
  BY DEF FillPendingOrders
<1> HIDE DEF p, filled, order, opened
<1>4. /\ c.port = IF filled = {} THEN b.port ELSE opened
      /\ c.pending = {} /\ c.perf = b.perf
  BY <1>3, BookFieldsAre DEF IsBookAt
<1> HIDE DEF c
<1>5. /\ opened.trades = b.port.trades /\ opened.curve = b.port.curve
      /\ opened.peak = b.port.peak /\ opened.dayStart = b.port.dayStart
      /\ opened.day = b.port.day /\ opened.positions = b.port.positions \cup {p}
  BY BookFieldsAre DEF opened, OpenPosition, IsBookAt
<1>6. filled # {} => IsAccount(opened) /\ Balanced(opened, past)
  BY <1>2, OpenBalanced DEF Accounted, opened
<1>7. Accounted(c, past)
  BY <1>4, <1>5, <1>6 DEF Accounted
<1>8. \A q \in c.port.positions :
         q \in b.port.positions
         \/ (q.entryBar = t /\ \E o \in b.pending : q.queuedOn = o.queuedOn)
  <2>1. ASSUME NEW q \in c.port.positions, q \notin b.port.positions
        PROVE  q.entryBar = t /\ \E o \in b.pending : q.queuedOn = o.queuedOn
    <3>1. filled # {} /\ q = p
      BY <1>4, <1>5, <2>1
    <3> QED  BY <1>1, <1>2, <3>1
  <2> QED  BY <2>1
<1>9. /\ c.port.trades = b.port.trades /\ c.port.curve = b.port.curve
      /\ c.port.peak = b.port.peak /\ c.port.dayStart = b.port.dayStart
      /\ c.port.day = b.port.day
  BY <1>4, <1>5
<1>10. c.perf = b.perf
  BY <1>4
<1> QED  BY ONLY <1>7, <1>8, <1>9, <1>10 DEF c

\* What _process_exits leaves.
AfterExits(b, c, past) ==
  LET closed == SubSeq(c.port.trades, Len(b.port.trades) + 1, Len(c.port.trades))
  IN  /\ Accounted(c, past)
      /\ c.port.trades = b.port.trades \o closed
      /\ c.perf = [r \in Regimes |-> b.perf[r] \o Samples(closed, r)]
      /\ c.port.curve = b.port.curve /\ c.port.peak = b.port.peak
      /\ c.port.dayStart = b.port.dayStart /\ c.port.day = b.port.day
      /\ \A i \in DOMAIN c.port.trades :
           \/ i \in DOMAIN b.port.trades /\ c.port.trades[i] = b.port.trades[i]
           \/ \E p \in b.port.positions : /\ c.port.trades[i].entryBar = p.entryBar
                                          /\ c.port.trades[i].queuedOn = p.queuedOn

\* _process_exits keeps the account; the trades it closes follow those there were,
\* and go to the performance table.
LEMMA ExitsAccounted ==
  ASSUME NEW past \in Pasts, NEW b, NEW bar \in Bars, NEW t \in Nat \ {0}, IsBookAt(b, t), Accounted(b, past)
  PROVE  AfterExits(b, ProcessExits(b, bar, t), past)
<1> DEFINE c == ProcessExits(b, bar, t)
           closing == {p \in b.port.positions : Exits(p, bar)}
           exits == [p \in closing |-> ExitOnBar(p, bar)]
           port == ClosePositions(b.port, exits, t, b.barCounter, b.lastRegime)
           closed == SubSeq(port.trades, Len(b.port.trades) + 1, Len(port.trades))
<1>1. DOMAIN exits \subseteq b.port.positions
  OBVIOUS
<1>2. \A p \in DOMAIN exits : exits[p].price \in Int /\ exits[p].cost \in Int
  BY ExitAmounts DEF Accounted, IsAccount
<1>3. /\ c.port = port /\ c.pending = b.pending
      /\ c.perf = [r \in Regimes |-> b.perf[r] \o Samples(closed, r)]
  BY BookFieldsAre DEF ProcessExits, IsBookAt
<1>4. /\ port.curve = b.port.curve /\ port.peak = b.port.peak
      /\ port.dayStart = b.port.dayStart /\ port.day = b.port.day
  BY BookFieldsAre DEF ClosePositions, IsBookAt
<1> HIDE DEF c, exits
<1>5. IsAccount(port) /\ Balanced(port, past)
  BY <1>1, <1>2, CloseBalanced DEF Accounted
<1>6. ClosedBehind(port.trades, b.port.trades, exits, t, b.barCounter, b.lastRegime,
                   Len(b.port.trades), Cardinality(DOMAIN exits))
  BY <1>1, ClosedTrades DEF Accounted
<1> HIDE DEF port
<1>7. Accounted(c, past)
  BY <1>3, <1>4, <1>5 DEF Accounted
<1>8. c.port.trades = b.port.trades \o closed
  BY <1>3, <1>6 DEF ClosedBehind
<1>9. ASSUME NEW i \in DOMAIN port.trades
      PROVE  \/ i \in DOMAIN b.port.trades /\ port.trades[i] = b.port.trades[i]
             \/ \E p \in b.port.positions : /\ port.trades[i].entryBar = p.entryBar
                                            /\ port.trades[i].queuedOn = p.queuedOn
  <2>1. PICK m \in Nat, n \in Nat :
           /\ DOMAIN port.trades = 1 .. m + n /\ DOMAIN b.port.trades = 1 .. m
           /\ \A k \in 1 .. m : port.trades[k] = b.port.trades[k]
           /\ \A k \in 1 .. n : \E p \in DOMAIN exits :
                port.trades[m + k] = TradeOf(p, exits[p], t, b.barCounter, b.lastRegime)
    BY <1>6 DEF ClosedBehind
  <2>2. CASE i \in 1 .. m
    BY <2>1, <2>2
  <2>3. CASE i \notin 1 .. m
    <3>1. i - m \in 1 .. n /\ m + (i - m) = i
      BY <2>1, <2>3
    <3>2. PICK p \in DOMAIN exits :
             port.trades[i] = TradeOf(p, exits[p], t, b.barCounter, b.lastRegime)
      BY <2>1, <3>1
    <3>3. port.trades[i].entryBar = p.entryBar /\ port.trades[i].queuedOn = p.queuedOn
      BY <3>2 DEF TradeOf
    <3> QED  BY <1>1, <3>3
  <2> QED  BY <2>2, <2>3
<1>10. closed = SubSeq(c.port.trades, Len(b.port.trades) + 1, Len(c.port.trades))
  BY <1>3
<1> HIDE DEF closed
<1>11. AfterExits(b, c, past)
  BY <1>3, <1>4, <1>7, <1>8, <1>9, <1>10 DEF AfterExits
<1> QED  BY <1>11 DEF c

\* The last n entries of a list: its end, and nothing that was not in it.
LEMMA LastNIsEnd ==
  ASSUME NEW s, IsSeq(s), NEW n \in Nat \ {0}
  PROVE  LET c == LastN(s, n)
         IN  /\ IsSeq(c) /\ (c = <<>> <=> s = <<>>)
             /\ \A i \in DOMAIN c : \E j \in DOMAIN s : c[i] = s[j]
             /\ s # <<>> => Last(c) = Last(s)
<1> DEFINE X == {s[i] : i \in DOMAIN s}
           c == LastN(s, n)
<1>1. s \in Seq(X) /\ Len(s) \in Nat /\ DOMAIN s = 1 .. Len(s)
  BY DEF IsSeq
<1> HIDE DEF X
<1>2. CASE Len(s) <= n
  BY <1>2, <1>1 DEF LastN
<1>3. CASE ~ (Len(s) <= n)
  <2> DEFINE k == Len(s) - n
  <2>1. k \in Nat /\ k + 1 \in 1 .. Len(s) /\ k + n = Len(s)
    BY <1>1, <1>3
  <2>2. c = SubSeq(s, k + 1, Len(s))
    BY <1>3 DEF LastN
  <2> HIDE DEF k, c
  <2>3. c \in Seq(X) /\ Len(c) = n
    <3>1. \A i \in k + 1 .. Len(s) : s[i] \in X
      BY <1>1, <2>1
    <3>2. k + 1 \in Int /\ Len(s) \in Int
      BY <1>1, <2>1
    <3>a. PICK u \in Int, v \in Int : u = k + 1 /\ v = Len(s)
      BY <3>2
    <3>b. /\ SubSeq(s, u, v) \in Seq(X)
          /\ Len(SubSeq(s, u, v)) = IF u <= v THEN v - u + 1 ELSE 0
      BY <3>1, <3>a, SubSeqProperties
    <3>4. u <= v /\ v - u + 1 = n
      BY ONLY <2>1, <3>a, n \in Nat
    <3> QED  BY ONLY <2>2, <3>a, <3>b, <3>4
  <2>4. \A i \in 1 .. n : c[i] = s[k + i] /\ k + i \in DOMAIN s
    <3>1. \A i \in k + 1 .. Len(s) : s[i] \in X
      BY <1>1, <2>1
    <3>2. \A i \in 1 .. n : k + i \in 1 .. Len(s) /\ (k + 1) + i - 1 = k + i
      BY ONLY <2>1, <1>1, n \in Nat \ {0}
    <3>3. \A i \in 1 .. (Len(s) - (k + 1)) + 1 :
            SubSeq(s, k + 1, Len(s))[i] = s[(k + 1) + i - 1]
      BY <3>1, <1>1, <2>1, SubSeqProperties
    <3>4. (Len(s) - (k + 1)) + 1 = n
      BY ONLY <2>1, <1>1, n \in Nat \ {0}
    <3> QED  BY ONLY <3>2, <3>3, <3>4, <1>1, <2>2
  <2>5. DOMAIN c = 1 .. n /\ c # <<>> /\ s # <<>>
    BY <1>1, <1>3, <2>3
  <2>6. Last(c) = Last(s)
    <3>1. n \in 1 .. n
      OBVIOUS
    <3>2. c[n] = s[k + n]
      BY <2>4, <3>1
    <3> QED  BY <2>1, <2>3, <3>2 DEF Last
  <2>7. IsSeq(c)
    BY <2>3 DEF IsSeq
  <2> QED  BY <2>4, <2>5, <2>6, <2>7 DEF c
<1> QED  BY <1>2, <1>3

\* The point record_snapshot adds to the curve, and where the day starts.
PointOf(port, t, close) ==
  [bar |-> t, equity |-> Equity(port, close), cash |-> port.cash,
   open |-> Cardinality(port.positions)]
DayStartOf(port, t) ==
  IF port.day = 0 \/ port.day = Day(t) THEN port.dayStart
  ELSE IF port.curve = <<>> THEN port.cash ELSE Last(port.curve).equity

\* A curve holds points of an earlier one, and of this bar.
AddsPointsOf(new, old, t) ==
  \A i \in DOMAIN new : new[i].bar = t \/ \E j \in DOMAIN old : new[i] = old[j]

\* What marking to market leaves.
AfterMark(b, c, bar, t, past) ==
  /\ Accounted(c, past) /\ Marked(c) /\ c.port.curve # <<>>
  /\ c.port.trades = b.port.trades /\ c.perf = b.perf
  /\ c.port.peak = Max2(b.port.peak, Equity(c.port, bar.close))
  /\ c.port.dayStart = DayStartOf(b.port, t) /\ c.port.day = Day(t)
  /\ Len(b.port.curve) <= MaxEquityPoints =>
       c.port.curve = Append(b.port.curve, PointOf(c.port, t, bar.close))
  /\ AddsPointsOf(c.port.curve, b.port.curve, t)
  /\ \A p \in c.port.positions : \E q \in b.port.positions :
       p.entryBar = q.entryBar /\ p.queuedOn = q.queuedOn

\* Marking to market keeps the account, and ends the curve with the equity at
\* the close.
LEMMA MarkAccounted ==
  ASSUME NEW past \in Pasts, NEW b, NEW bar \in Bars, NEW t \in Nat \ {0}, IsBookAt(b, t), Accounted(b, past)
  PROVE  AfterMark(b, MarkToMarket(b, bar, t), bar, t, past)
<1> DEFINE c == MarkToMarket(b, bar, t)
           tracked == TrackExcursions(b.port, bar)
           port == RecordSnapshot(tracked, t, bar.close)
           cut == IF Len(port.curve) > 2 * MaxEquityPoints
                  THEN [port EXCEPT !.curve = LastN(@, MaxEquityPoints)] ELSE port
           point == PointOf(tracked, t, bar.close)
<1>1. /\ IsAccount(tracked) /\ Balanced(tracked, past) /\ tracked.trades = b.port.trades
      /\ tracked.curve = b.port.curve
      /\ tracked.positions = {TrackPosition(p, bar) : p \in b.port.positions}
      /\ tracked.peak = b.port.peak /\ tracked.dayStart = b.port.dayStart
      /\ tracked.day = b.port.day
  BY TrackBalanced DEF Accounted
<1>2. tracked.cash = b.port.cash
  BY BookFieldsAre DEF TrackExcursions, IsBookAt
<1>3. bar.close \in Int
  BY BarIsRecord
<1> HIDE DEF tracked
<1>4. /\ IsAccount(port) /\ Balanced(port, past) /\ port.trades = tracked.trades
      /\ port.positions = tracked.positions /\ port.cash = tracked.cash
      /\ Equity(port, bar.close) = Equity(tracked, bar.close)
      /\ port.curve = Append(tracked.curve, point)
      /\ port.peak = Max2(tracked.peak, Equity(tracked, bar.close))
      /\ port.dayStart = RollDay(tracked, t).dayStart /\ port.day = Day(t)
  <2>1. PICK pf, close : pf = tracked /\ close = bar.close
    OBVIOUS
  <2>2. LET new == RecordSnapshot(pf, t, close)
        IN  /\ IsAccount(new) /\ Balanced(new, past)
            /\ new.trades = pf.trades /\ new.positions = pf.positions /\ new.cash = pf.cash
            /\ Equity(new, close) = Equity(pf, close)
            /\ new.curve = Append(pf.curve, [bar |-> t, equity |-> Equity(pf, close),
                                             cash |-> pf.cash,
                                             open |-> Cardinality(pf.positions)])
            /\ new.peak = Max2(pf.peak, Equity(pf, close))
            /\ new.dayStart = RollDay(pf, t).dayStart /\ new.day = Day(t)
    BY <1>1, <2>1, SnapshotBalanced
  <2> QED  BY <2>1, <2>2 DEF PointOf
<1>5. port.dayStart = DayStartOf(b.port, t)
  <2>1. DOMAIN tracked = DOMAIN EmptyPortfolio
    BY <1>1 DEF IsAccount
  <2>2. RollDay(tracked, t).dayStart = DayStartOf(tracked, t)
    BY <2>1 DEF RollDay, DayStartOf, EmptyPortfolio
  <2> QED  BY <1>1, <1>2, <1>4, <2>2 DEF DayStartOf
<1> HIDE DEF port
<1>6. IsSeq(port.curve) /\ IsCurve(port.curve) /\ port.curve # <<>>
      /\ Last(port.curve) = point /\ Len(port.curve) = Len(b.port.curve) + 1
      /\ Len(b.port.curve) \in Nat /\ AddsPointsOf(port.curve, b.port.curve, t)
  <2> DEFINE X == {b.port.curve[i] : i \in DOMAIN b.port.curve}
  <2>1. /\ b.port.curve \in Seq(X) /\ Len(b.port.curve) \in Nat
        /\ DOMAIN b.port.curve = 1 .. Len(b.port.curve)
        /\ \A i \in DOMAIN b.port.curve : b.port.curve[i].equity \in Int
    BY DEF Accounted, IsCurve, IsSeq
  <2> HIDE DEF X
  <2>2. point.equity \in Int
    BY <1>1, <1>3, EquityIsInt DEF PointOf
  <2> HIDE DEF point
  <2>3. port.curve = Append(b.port.curve, point)
    BY <1>1, <1>4
  <2>4. /\ port.curve \in Seq(X \cup {point}) /\ Len(port.curve) = Len(b.port.curve) + 1
        /\ port.curve[Len(b.port.curve) + 1] = point
        /\ \A i \in 1 .. Len(b.port.curve) : port.curve[i] = b.port.curve[i]
    BY <2>1, <2>3
  <2>5. DOMAIN port.curve = 1 .. Len(b.port.curve) + 1
    BY <2>1, <2>4
  <2>6. IsSeq(port.curve)
    BY <2>4 DEF IsSeq
  <2>7. \A i \in DOMAIN port.curve : port.curve[i].equity \in Int
    <3>1. \A i \in 1 .. Len(b.port.curve) + 1 :
             i \in 1 .. Len(b.port.curve) \/ i = Len(b.port.curve) + 1
      BY <2>1
    <3> QED  BY <2>1, <2>2, <2>4, <2>5, <3>1
  <2>8. port.curve # <<>> /\ Last(port.curve) = point
    BY <2>1, <2>4, <2>5 DEF Last
  <2>9. AddsPointsOf(port.curve, b.port.curve, t)
    <3>1. \A i \in 1 .. Len(b.port.curve) + 1 :
             i \in 1 .. Len(b.port.curve) \/ i = Len(b.port.curve) + 1
      BY <2>1
    <3>2. point.bar = t
      BY DEF point, PointOf
    <3> QED  BY <2>1, <2>4, <2>5, <3>1, <3>2 DEF AddsPointsOf
  <2> QED  BY <2>1, <2>4, <2>6, <2>7, <2>8, <2>9 DEF IsCurve
<1>7. /\ cut.trades = port.trades /\ cut.positions = port.positions /\ cut.cash = port.cash
      /\ cut.realised = port.realised /\ cut.costs = port.costs /\ cut.peak = port.peak
      /\ cut.dayStart = port.dayStart /\ cut.day = port.day
      /\ DOMAIN cut = DOMAIN EmptyPortfolio
      /\ cut.curve = IF Len(port.curve) > 2 * MaxEquityPoints
                     THEN LastN(port.curve, MaxEquityPoints) ELSE port.curve
  BY <1>4 DEF IsAccount, EmptyPortfolio
<1>8. c = [b EXCEPT !.port = cut, !.lastClose = bar.close]
  BY DEF MarkToMarket, port, tracked
<1> HIDE DEF cut, c
<1>9. /\ c.port = cut /\ c.lastClose = bar.close /\ c.pending = b.pending
      /\ c.perf = b.perf
  BY <1>8, BookFieldsAre DEF IsBookAt
<1>10. IsAccount(cut) /\ Balanced(cut, past) /\ Equity(cut, bar.close) = Equity(port, bar.close)
  <2>1. IsAccount(cut)
    BY <1>4, <1>7 DEF IsAccount
  <2>2. Nets(cut) = Nets(port) /\ Grosses(cut) = Grosses(port)
        /\ TradeCosts(cut) = TradeCosts(port)
    BY <1>7 DEF Nets, Grosses, TradeCosts
  <2>3. Balanced(cut, past)
    BY <1>4, <1>7, <2>2 DEF Balanced
  <2>4. Equity(cut, bar.close) = Equity(port, bar.close)
    BY <1>7 DEF Equity, Unrealised
  <2> QED  BY <2>1, <2>3, <2>4
<1>11. IsCurve(cut.curve) /\ cut.curve # <<>> /\ Last(cut.curve) = point
  <2>1. CASE cut.curve = port.curve
    BY <1>6, <2>1
  <2>2. CASE cut.curve = LastN(port.curve, MaxEquityPoints)
    BY <1>6, <2>2, LastNIsEnd, HistoryAssumption DEF IsCurve
  <2> QED  BY <1>7, <2>1, <2>2
<1>12. Accounted(c, past) /\ Marked(c)
  <2>1. Accounted(c, past)
    BY <1>9, <1>10, <1>11 DEF Accounted
  <2>2. point.equity = Equity(cut, bar.close)
    BY <1>4, <1>10 DEF PointOf
  <2> QED  BY <1>9, <1>11, <2>1, <2>2 DEF Marked
<1>13. Len(b.port.curve) <= MaxEquityPoints =>
         cut.curve = Append(b.port.curve, PointOf(cut, t, bar.close))
  <2>1. point = PointOf(cut, t, bar.close)
    BY <1>4, <1>7, <1>10 DEF PointOf
  <2>2. Len(b.port.curve) <= MaxEquityPoints => ~ (Len(port.curve) > 2 * MaxEquityPoints)
    BY <1>6, HistoryAssumption
  <2> QED  BY <1>1, <1>4, <1>7, <2>1, <2>2
<1>14. \A p \in cut.positions : \E q \in b.port.positions :
          p.entryBar = q.entryBar /\ p.queuedOn = q.queuedOn
  BY <1>1, <1>4, <1>7, TrackedLot DEF Accounted, IsAccount
<1>15. cut.peak = Max2(b.port.peak, Equity(cut, bar.close))
  BY <1>1, <1>4, <1>7, <1>10
<1>16. AddsPointsOf(cut.curve, b.port.curve, t)
  <2>1. \A i \in DOMAIN cut.curve : \E j \in DOMAIN port.curve : cut.curve[i] = port.curve[j]
    BY <1>6, <1>7, LastNIsEnd, HistoryAssumption
  <2> QED  BY <1>6, <2>1 DEF AddsPointsOf
<1>17. AfterMark(b, c, bar, t, past)
  BY <1>1, <1>4, <1>5, <1>7, <1>9, <1>11, <1>12, <1>13, <1>14, <1>15, <1>16 DEF AfterMark
<1> QED  BY <1>17 DEF c

\* A queued order was sized on this bar within the portfolio risk budget, and not
\* in a drawdown beyond the limit.
JustifiedQueue(b, t) ==
  \A o \in b.pending :
    LET equity == Last(b.port.curve).equity
    IN  /\ o.queuedOn = t
        /\ OpenRisk(b.port.positions) + o.qty * Abs(o.reference - o.stop)
             <= Percent(equity, Risk.maxPortfolioRisk)
        /\ ~DrawdownReaches(b.port, equity, Risk.maxDrawdown)

\* _decide_on_bar queues nothing but justified orders, and leaves the account alone.
LEMMA DecideAccounted ==
  ASSUME NEW past \in Pasts, NEW b, NEW bar \in Bars, NEW t \in Nat \ {0}, NEW enabled, NEW quality,
         IsBookAt(b, t), b.pending = {}, Accounted(b, past), b.port.curve # <<>>
  PROVE  LET c == DecideOnBar(b, bar, t, enabled, quality)
         IN  /\ Accounted(c, past) /\ JustifiedQueue(c, t)
             /\ c.port = b.port /\ c.perf = b.perf /\ c.lastClose = b.lastClose
<1> DEFINE c == DecideOnBar(b, bar, t, enabled, quality)
           seen == [b EXCEPT !.lastRegime = bar.regime, !.barsDecided = @ + 1]
           equity == Last(b.port.curve).equity
           approved == {s \in {FinalSignal(x) : x \in bar.signal} :
                          Approves(s, b.port, equity, quality, enabled, <<>>)}
           orders == {OrderOf(s, seen, equity, t) : s \in approved}
<1>1. CASE bar.fails
  BY <1>1 DEF DecideOnBar, JustifiedQueue
<1>2. CASE ~bar.fails
  <2>1. /\ seen.port = b.port /\ seen.pending = {} /\ seen.perf = b.perf
        /\ seen.lastClose = b.lastClose /\ DOMAIN seen = BookFields
    BY BookFieldsAre DEF IsBookAt
  <2>2. c = IF approved = {} THEN seen ELSE [seen EXCEPT !.pending = orders]
    BY <1>2 DEF DecideOnBar
  <2>3. equity \in Int
    BY DEF Accounted, IsCurve, IsSeq, Last
  <2>4. ASSUME NEW s \in approved
        PROVE  LET o == OrderOf(s, seen, equity, t)
               IN  /\ IsTicket(o) /\ o.queuedOn = t
                   /\ OpenRisk(b.port.positions) + o.qty * Abs(o.reference - o.stop)
                        <= Percent(equity, Risk.maxPortfolioRisk)
                   /\ ~DrawdownReaches(b.port, equity, Risk.maxDrawdown)
    <3> DEFINE o == OrderOf(s, seen, equity, t)
               size == Size(s, b.port, equity, <<>>)
    <3>1. PICK x \in bar.signal : s = FinalSignal(x)
      OBVIOUS
    <3>2. x \in Signals
      BY BarIsRecord
    <3>3. /\ s.entry \in Nat \ {0} /\ s.stop \in Int /\ s.target \in Int
      BY <3>1, <3>2 DEF FinalSignal, Signals
    <3>4. GatesPass(s, b.port, equity, quality, enabled)
      BY DEF Approves
    <3>5. /\ o.qty = size /\ o.stop = s.stop /\ o.target = s.target
          /\ o.reference = s.entry /\ o.queuedOn = t
      <4> HIDE DEF seen, equity
      <4> QED  BY <2>1 DEF OrderOf
    <3> HIDE DEF o, seen, equity
    <3>6. RiskPerUnit(s) \in Nat \ {0} /\ RiskPerUnit(s) = Abs(s.entry - s.stop)
      BY <3>3, <3>4 DEF GatesPass, RiskPerUnit, Abs
    <3>7. IsPriced(s)
      BY <3>3, <3>6 DEF IsPriced
    <3>8. /\ size \in Int
          /\ \A left \in BudgetsLeft(s, b.port, equity, <<>>) :
               left \in Int /\ size * RiskPerUnit(s) <= left
      <4>1. IsHolding(b.port)
        BY <2>3, AccountIsHolding DEF Accounted
      <4> QED  BY <2>3, <3>7, <4>1, SizeWithinBudgets DEF Accounted
    <3> HIDE DEF size
    <3>9. /\ OpenRisk(b.port.positions) \in Int
          /\ Percent(equity, Risk.maxPortfolioRisk) \in Int
      <4>1. Risk.maxPortfolioRisk \in Int
        BY RiskAssumption DEF RiskConfig
      <4>2. IsHolding(b.port)
        BY <2>3, AccountIsHolding DEF Accounted
      <4> QED  BY <2>3, <4>1, <4>2, OpenRiskIsInt, PercentIsInt DEF Accounted
    <3>10. Percent(equity, Risk.maxPortfolioRisk) - OpenRisk(b.port.positions)
             \in BudgetsLeft(s, b.port, equity, <<>>)
      BY DEF BudgetsLeft
    <3>11. OpenRisk(b.port.positions) + size * RiskPerUnit(s)
             <= Percent(equity, Risk.maxPortfolioRisk)
      <4>1. PICK r \in Int, p \in Int, q \in Int :
               r = OpenRisk(b.port.positions) /\ p = Percent(equity, Risk.maxPortfolioRisk)
               /\ q = size * RiskPerUnit(s)
        BY <3>6, <3>8, <3>9
      <4>2. q <= p - r
        BY <3>8, <3>10, <4>1
      <4> QED  BY <4>1, <4>2
    <3>12. ~DrawdownReaches(b.port, equity, Risk.maxDrawdown)
      BY <3>4 DEF GatesPass
    <3>13. IsTicket(o)
      BY <3>3, <3>5, <3>8 DEF IsTicket
    <3> QED  BY <3>5, <3>6, <3>11, <3>12, <3>13 DEF o
  <2>5. CASE approved = {}
    BY <2>1, <2>2, <2>5 DEF Accounted, JustifiedQueue
  <2>6. CASE approved # {}
    <3>1. c = [seen EXCEPT !.pending = orders]
      BY <2>2, <2>6
    <3>2. \A o \in orders : \E s \in approved : o = OrderOf(s, seen, equity, t)
      OBVIOUS
    <3> HIDE DEF seen, orders, c
    <3>3. /\ c.port = b.port /\ c.pending = orders /\ c.perf = b.perf
          /\ c.lastClose = b.lastClose
      BY <2>1, <3>1, BookFieldsAre
    <3>4. JustifiedQueue(c, t)
      BY <2>4, <3>2, <3>3 DEF JustifiedQueue
    <3>5. Accounted(c, past)
      BY <2>4, <3>2, <3>3 DEF Accounted
    <3> QED  BY <3>3, <3>4, <3>5 DEF c
  <2> QED  BY <2>5, <2>6
<1> QED  BY <1>1, <1>2

\* What one bar past the watermark does to the account of a book.
AfterBar(b, c, bar, t, past) ==
  LET closed == SubSeq(c.port.trades, Len(b.port.trades) + 1, Len(c.port.trades))
  IN  /\ Accounted(c, past) /\ Marked(c) /\ JustifiedQueue(c, t)
      /\ c.port.trades = b.port.trades \o closed
      /\ c.perf = [r \in Regimes |-> b.perf[r] \o Samples(closed, r)]
      /\ c.port.peak = Max2(b.port.peak, Equity(c.port, bar.close))
      /\ c.port.dayStart = IF b.port.day = 0 \/ b.port.day = Day(t) THEN b.port.dayStart
                           ELSE IF b.port.curve = <<>> THEN c.port.dayStart
                                ELSE Last(b.port.curve).equity
      /\ c.port.day = Day(t)
      /\ Len(b.port.curve) <= MaxEquityPoints =>
           c.port.curve = Append(b.port.curve, PointOf(c.port, t, bar.close))
      /\ AddsPointsOf(c.port.curve, b.port.curve, t)

\* Where its positions and trades come from: the book before, or the order filled.
EnteredAs(x, p) == x.entryBar = p.entryBar /\ x.queuedOn = p.queuedOn
EnteredNow(x, b, t) == x.entryBar = t /\ \E o \in b.pending : x.queuedOn = o.queuedOn
Descends(b, c, t) ==
  /\ \A p \in c.port.positions :
       (\E q \in b.port.positions : EnteredAs(p, q)) \/ EnteredNow(p, b, t)
  /\ \A i \in DOMAIN c.port.trades :
       LET x == c.port.trades[i]
       IN  \/ i \in DOMAIN b.port.trades /\ x = b.port.trades[i]
           \/ \E q \in b.port.positions : EnteredAs(x, q)
           \/ EnteredNow(x, b, t)

LEMMA ProcessBarAccounted ==
  ASSUME NEW past \in Pasts, NEW b, NEW bar \in Bars, NEW t \in Nat, IsBook(b), b.watermark < t,
         NEW enabled, NEW quality, NEW warm, Accounted(b, past)
  PROVE  /\ AfterBar(b, ProcessBar(b, bar, t, enabled, quality, warm), bar, t, past)
         /\ Descends(b, ProcessBar(b, bar, t, enabled, quality, warm), t)
<1> DEFINE counted == Counted(b)
           filled == FillPendingOrders(counted, bar, t)
           exited == ProcessExits(filled, bar, t)
           marked == MarkToMarket(exited, bar, t)
           decided == IF warm THEN DecideOnBar(marked, bar, t, enabled, quality) ELSE marked
           c == ProcessBar(b, bar, t, enabled, quality, warm)
<1>1. t \in Nat \ {0}
  BY DEF IsBook, IsBookAt
<1>2. /\ IsBookAt(counted, t) /\ counted.port = b.port /\ counted.pending = b.pending
      /\ counted.watermark = b.watermark
  BY CountedKeepsBook
<1>3. counted.perf = b.perf
  BY BookFieldsAre DEF Counted, IsBook, IsBookAt
<1>c. c = [decided EXCEPT !.watermark = Max2(@, t), !.barsProcessed = @ + 1]
  BY DEF ProcessBar, Counted
<1> HIDE DEF counted
<1>4. /\ Accounted(counted, past) /\ \A p \in counted.port.positions : p.entryBar # t
  BY <1>2 DEF Accounted, IsBook, IsBookAt, IsPosition
<1>5. /\ IsBookAt(filled, t) /\ filled.pending = {}
      /\ Accounted(filled, past) /\ filled.perf = b.perf
      /\ filled.port.trades = b.port.trades /\ filled.port.curve = b.port.curve
      /\ filled.port.peak = b.port.peak /\ filled.port.dayStart = b.port.dayStart
      /\ filled.port.day = b.port.day
  BY <1>1, <1>2, <1>3, <1>4, FillKeepsBook, FillAccounted
<1>6. \A p \in filled.port.positions :
        \/ p \in b.port.positions
        \/ p.entryBar = t /\ \E o \in b.pending : p.queuedOn = o.queuedOn
  BY <1>1, <1>2, <1>4, FillAccounted
<1> HIDE DEF filled
<1> DEFINE closed == SubSeq(exited.port.trades, Len(filled.port.trades) + 1,
                            Len(exited.port.trades))
<1>7. /\ IsBookAt(exited, t) /\ exited.pending = {}
      /\ exited.port.positions \subseteq filled.port.positions
  BY <1>1, <1>5, ExitsKeepsBook
<1>8. AfterExits(filled, exited, past)
  BY <1>1, <1>5, ExitsAccounted
<1> HIDE DEF exited
<1>10. IsBookAt(marked, t) /\ marked.pending = {}
  BY <1>1, <1>7, MarkKeepsBook
<1>9. Accounted(exited, past)
  BY <1>8 DEF AfterExits
<1>11. AfterMark(exited, marked, bar, t, past)
  BY <1>1, <1>7, <1>9, MarkAccounted
<1>12. Accounted(marked, past) /\ marked.port.curve # <<>>
  BY <1>11 DEF AfterMark
<1> HIDE DEF marked
<1>13. /\ Accounted(decided, past) /\ JustifiedQueue(decided, t)
       /\ decided.port = marked.port /\ decided.perf = marked.perf
       /\ decided.lastClose = marked.lastClose /\ IsBookAt(decided, t)
  <2>1. CASE ~warm
    BY <1>10, <1>12, <2>1 DEF JustifiedQueue
  <2>2. CASE warm
    <3>1. decided = DecideOnBar(marked, bar, t, enabled, quality)
      BY <2>2
    <3> HIDE DEF decided
    <3> QED  BY <1>1, <1>10, <1>12, <3>1, DecideKeepsBook, DecideAccounted
  <2> QED  BY <2>1, <2>2
<1> HIDE DEF decided, c
<1>14. /\ c.port = marked.port /\ c.perf = marked.perf /\ c.lastClose = marked.lastClose
       /\ c.pending = decided.pending
  BY <1>c, <1>13, BookFieldsAre DEF IsBookAt
<1>15. Accounted(c, past) /\ Marked(c) /\ JustifiedQueue(c, t)
  BY <1>11, <1>13, <1>14 DEF Accounted, Marked, JustifiedQueue, AfterMark
<1>16. /\ closed = SubSeq(c.port.trades, Len(b.port.trades) + 1, Len(c.port.trades))
       /\ c.port.trades = b.port.trades \o closed
       /\ c.perf = [r \in Regimes |-> b.perf[r] \o Samples(closed, r)]
  BY <1>5, <1>8, <1>11, <1>14 DEF AfterExits, AfterMark
<1>17. /\ c.port.peak = Max2(b.port.peak, Equity(c.port, bar.close)) /\ c.port.day = Day(t)
       /\ Len(b.port.curve) <= MaxEquityPoints =>
            c.port.curve = Append(b.port.curve, PointOf(c.port, t, bar.close))
       /\ AddsPointsOf(c.port.curve, b.port.curve, t)
  BY <1>5, <1>8, <1>11, <1>14 DEF AfterExits, AfterMark
<1>18. c.port.dayStart = IF b.port.day = 0 \/ b.port.day = Day(t) THEN b.port.dayStart
                         ELSE IF b.port.curve = <<>> THEN c.port.dayStart
                              ELSE Last(b.port.curve).equity
  BY <1>5, <1>8, <1>11, <1>14 DEF DayStartOf, AfterExits, AfterMark
<1>19. \A p \in exited.port.positions :
         (\E q \in b.port.positions : EnteredAs(p, q)) \/ EnteredNow(p, b, t)
  BY <1>6, <1>7 DEF EnteredAs, EnteredNow
<1>20. \A p \in c.port.positions :
         (\E q \in b.port.positions : EnteredAs(p, q)) \/ EnteredNow(p, b, t)
  <2>1. \A p \in c.port.positions : \E q \in exited.port.positions : EnteredAs(p, q)
    BY <1>11, <1>14 DEF AfterMark, EnteredAs
  <2> QED  BY <1>19, <2>1 DEF EnteredAs, EnteredNow
<1>21. ASSUME NEW i \in DOMAIN c.port.trades
       PROVE  LET x == c.port.trades[i]
              IN  \/ i \in DOMAIN b.port.trades /\ x = b.port.trades[i]
                  \/ \E q \in b.port.positions : EnteredAs(x, q)
                  \/ EnteredNow(x, b, t)
  <2> DEFINE x == c.port.trades[i]
  <2>1. i \in DOMAIN exited.port.trades /\ x = exited.port.trades[i]
    BY <1>11, <1>14 DEF AfterMark
  <2>2. \/ i \in DOMAIN b.port.trades /\ x = b.port.trades[i]
        \/ \E p \in filled.port.positions : EnteredAs(x, p)
    BY <1>5, <1>8, <2>1 DEF AfterExits, EnteredAs
  <2>3. \A p \in filled.port.positions :
          (\E q \in b.port.positions : EnteredAs(p, q)) \/ EnteredNow(p, b, t)
    BY <1>6 DEF EnteredAs, EnteredNow
  <2> HIDE DEF x
  <2>4. \/ i \in DOMAIN b.port.trades /\ x = b.port.trades[i]
        \/ \E q \in b.port.positions : EnteredAs(x, q)
        \/ EnteredNow(x, b, t)
    BY <2>2, <2>3 DEF EnteredAs, EnteredNow
  <2> QED  BY <2>4 DEF x
<1> HIDE DEF closed
<1>22. AfterBar(b, c, bar, t, past)
  BY <1>15, <1>16, <1>17, <1>18 DEF AfterBar
<1>23. Descends(b, c, t)
  BY <1>20, <1>21 DEF Descends
<1> QED  BY <1>22, <1>23 DEF c

---------------------------------------------------------------------------
(* The performance samples *)

SampleOf(x) == [net |-> x.net, risk |-> x.risk]
Taking(trades, r, g, n) ==
  IF n = 0 THEN <<>>
  ELSE IF trades[n].regime = r /\ trades[n].risk > 0
       THEN Append(g[n - 1], SampleOf(trades[n])) ELSE g[n - 1]

\* g[n] holds the samples of the first n trades, for each n up to m.
Taken(trades, r, m, g) == g = [n \in 0 .. m |-> Taking(trades, r, g, n)]

\* There are such lists: the smallest number of trades without them would be one
\* more than a number of trades with them.
LEMMA TakenExists ==
  ASSUME NEW trades, NEW r, NEW m \in Nat
  PROVE  \E g : Taken(trades, r, m, g)
<1> DEFINE T == {n \in Nat : ~ \E g : Taken(trades, r, n, g)}
<1>1. SUFFICES ASSUME T # {} PROVE FALSE
  OBVIOUS
<1>2. PICK n \in T : \A k \in T : n <= k
  <2> HIDE DEF T
  <2>1. T \in SUBSET Nat
    BY DEF T
  <2> QED  BY <1>1, <2>1, LeastNumber
<1>3. CASE n = 0
  <2> DEFINE g == [k \in 0 .. 0 |-> <<>>]
  <2>1. Taken(trades, r, 0, g)
    BY DEF Taken, Taking
  <2> QED  BY <1>2, <1>3, <2>1
<1>4. CASE n # 0
  <2>1. n \in Nat /\ n - 1 \in Nat /\ ~ (n <= n - 1)
    BY <1>4
  <2>2. n - 1 \notin T
    BY <1>2, <2>1
  <2>3. PICK h : Taken(trades, r, n - 1, h)
    BY <2>1, <2>2
  <2> DEFINE g == [k \in 0 .. n |-> IF k = n THEN Taking(trades, r, h, n) ELSE h[k]]
  <2>4. ASSUME NEW k \in 0 .. n PROVE g[k] = Taking(trades, r, g, k)
    <3>1. k # 0 => g[k - 1] = h[k - 1]
      BY <2>1
    <3>2. Taking(trades, r, g, k) = Taking(trades, r, h, k)
      BY <3>1 DEF Taking
    <3>3. k # n => k \in 0 .. n - 1
      BY <2>1
    <3>4. k # n => h[k] = Taking(trades, r, h, k)
      BY <2>3, <3>3 DEF Taken
    <3> QED  BY <3>2, <3>4
  <2>5. Taken(trades, r, n, g)
    BY <2>4 DEF Taken
  <2> QED  BY <1>2, <2>5
<1> QED  BY <1>3, <1>4

\* Samples is the last of these lists.
LEMMA SamplesAreTaken ==
  ASSUME NEW trades, NEW r, Len(trades) \in Nat
  PROVE  \E g : Taken(trades, r, Len(trades), g) /\ Samples(trades, r) = g[Len(trades)]
<1> DEFINE body(g) == [n \in 0 .. Len(trades) |->
                         IF n = 0 THEN <<>>
                         ELSE LET x == trades[n]
                              IN  IF x.regime = r /\ x.risk > 0
                                  THEN Append(g[n - 1], [net |-> x.net, risk |-> x.risk])
                                  ELSE g[n - 1]]
           taken == CHOOSE g : g = body(g)
<1>1. \E g : g = body(g)
  <2>1. PICK g : Taken(trades, r, Len(trades), g)
    BY TakenExists
  <2>2. g = body(g)
    BY <2>1 DEF Taken, Taking, SampleOf
  <2> QED  BY <2>2
<1>2. taken = body(taken)
  <2> HIDE DEF body
  <2> QED  BY <1>1
<1>3. Samples(trades, r) = taken[Len(trades)]
  BY DEF Samples
<1>4. Taken(trades, r, Len(trades), taken)
  <2> HIDE DEF taken
  <2> QED  BY <1>2 DEF Taken, Taking, SampleOf
<1> HIDE DEF taken
<1> QED  BY <1>3, <1>4

\* The first of these lists is empty, and each further trade adds its sample, if
\* it has one.
LEMMA TakenStep ==
  ASSUME NEW trades, NEW r, NEW m \in Nat, NEW g, Taken(trades, r, m, g)
  PROVE  /\ g[0] = <<>>
         /\ \A n \in 1 .. m :
              g[n] = IF trades[n].regime = r /\ trades[n].risk > 0
                     THEN Append(g[n - 1], SampleOf(trades[n])) ELSE g[n - 1]
<1> DEFINE body == [n \in 0 .. m |-> Taking(trades, r, g, n)]
<1>1. g = body /\ \A n \in 0 .. m : body[n] = Taking(trades, r, g, n)
  BY DEF Taken
<1> HIDE DEF body
<1>2. g[0] = Taking(trades, r, g, 0)
  BY <1>1
<1>3. ASSUME NEW n \in 1 .. m
      PROVE  n \in 0 .. m /\ n # 0 /\ g[n] = Taking(trades, r, g, n)
  BY <1>1
<1> QED  BY <1>2, <1>3 DEF Taking

\* A property of the first sample list that each one hands to the next holds of
\* all of them: P is the set of the places where it holds.
LEMMA UpTo ==
  ASSUME NEW m \in Nat, NEW P, 0 \in P, \A n \in 1 .. m : n - 1 \in P => n \in P
  PROVE  \A n \in 0 .. m : n \in P
<1> DEFINE T == {n \in 0 .. m : n \notin P}
<1>1. SUFFICES ASSUME T # {} PROVE FALSE
  OBVIOUS
<1>2. PICK n \in T : \A k \in T : n <= k
  <2>1. T \in SUBSET Nat
    OBVIOUS
  <2> HIDE DEF T
  <2> QED  BY <1>1, <2>1, LeastNumber
<1>3. n \in 1 .. m /\ n - 1 \in 0 .. m /\ ~ (n <= n - 1)
  OBVIOUS
<1>4. n - 1 \in P
  BY <1>2, <1>3
<1> QED  BY <1>3, <1>4

\* Each of the lists is a sequence of samples of trades it is taken from.
LEMMA TakenIsSeq ==
  ASSUME NEW trades, NEW r, NEW m \in Nat, NEW g, Taken(trades, r, m, g),
         NEW X, \A i \in 1 .. m : SampleOf(trades[i]) \in X
  PROVE  \A n \in 0 .. m : g[n] \in Seq(X)
<1> DEFINE P == {n \in 0 .. m : g[n] \in Seq(X)}
<1>1. 0 \in P
  <2>1. g[0] = <<>>
    BY TakenStep
  <2>2. <<>> \in Seq(X)
    OBVIOUS
  <2>3. 0 \in 0 .. m
    OBVIOUS
  <2> QED  BY <2>1, <2>2, <2>3
<1>2. ASSUME NEW n \in 1 .. m, n - 1 \in P PROVE n \in P
  <2>1. g[n] = g[n - 1] \/ g[n] = Append(g[n - 1], SampleOf(trades[n]))
    BY TakenStep
  <2>2. g[n - 1] \in Seq(X) /\ SampleOf(trades[n]) \in X
    BY <1>2
  <2>3. PICK u \in Seq(X), x \in X : u = g[n - 1] /\ x = SampleOf(trades[n])
    BY <2>2
  <2>4. Append(u, x) \in Seq(X)
    OBVIOUS
  <2>5. n \in 0 .. m
    OBVIOUS
  <2> QED  BY <2>1, <2>3, <2>4, <2>5
<1> HIDE DEF P
<1>3. \A n \in 0 .. m : n \in P
  BY <1>1, <1>2, UpTo
<1> QED  BY <1>3 DEF P

\* Two trade lists that begin alike have the same samples of that beginning.
LEMMA TakenAgree ==
  ASSUME NEW a, NEW b, NEW r, NEW m \in Nat, NEW k \in Nat, m <= k, NEW g, NEW e,
         Taken(a, r, m, g), Taken(b, r, k, e), \A i \in 1 .. m : a[i] = b[i]
  PROVE  \A n \in 0 .. m : g[n] = e[n]
<1> DEFINE P == {n \in 0 .. m : g[n] = e[n]}
<1>1. 0 \in P
  <2>1. g[0] = <<>> /\ e[0] = <<>>
    BY TakenStep
  <2> QED  BY <2>1
<1>a. \A n \in 1 .. m : g[n] = IF a[n].regime = r /\ a[n].risk > 0
                              THEN Append(g[n - 1], SampleOf(a[n])) ELSE g[n - 1]
  BY TakenStep
<1>b. \A n \in 1 .. k : e[n] = IF b[n].regime = r /\ b[n].risk > 0
                              THEN Append(e[n - 1], SampleOf(b[n])) ELSE e[n - 1]
  BY TakenStep
<1>2. ASSUME NEW n \in 1 .. m, n - 1 \in P PROVE n \in P
  <2>1. n \in 1 .. k /\ n \in 0 .. m
    OBVIOUS
  <2>4. a[n] = b[n] /\ g[n - 1] = e[n - 1]
    BY <1>2
  <2>5. g[n] = e[n]
    BY <1>a, <1>b, <2>1, <2>4
  <2> QED  BY <2>1, <2>5
<1> HIDE DEF P
<1>3. \A n \in 0 .. m : n \in P
  BY <1>1, <1>2, UpTo
<1> QED  BY <1>3 DEF P

\* The samples of a list continued by another are those of the one, then those of
\* the other.
LEMMA SamplesJoin ==
  ASSUME NEW a, IsSeq(a), NEW n, NEW b, IsList(b, n), NEW r
  PROVE  Samples(a \o b, r) = Samples(a, r) \o Samples(b, r)
<1> DEFINE c == a \o b
           m == Len(a)
<1>0. n \in Nat /\ Len(b) = n
  BY DEF IsList
<1>a. Joined(a, b, n, c)
  BY Appended
<1> HIDE DEF c
<1>1. /\ IsSeq(c) /\ m \in Nat /\ DOMAIN c = 1 .. m + n
      /\ \A i \in 1 .. m : c[i] = a[i]
      /\ \A i \in 1 .. n : c[m + i] = b[i]
  BY <1>a DEF Joined
<1> HIDE DEF m
<1>2. Len(c) = m + n
  <2>1. Len(c) \in Nat /\ DOMAIN c = 1 .. Len(c)
    BY <1>1 DEF IsSeq
  <2>a. m + n \in Nat
    BY <1>0, <1>1
  <2>2. PICK k \in Nat, l \in Nat : k = Len(c) /\ l = m + n
    BY <2>1, <2>a
  <2>3. 1 .. k = 1 .. l
    BY <1>1, <2>1, <2>2
  <2>4. k = l
    BY <2>3
  <2> QED  BY <2>2, <2>4
<1>3. PICK g : Taken(a, r, m, g) /\ Samples(a, r) = g[m]
  BY <1>1, SamplesAreTaken DEF m
<1>4. PICK h : Taken(b, r, n, h) /\ Samples(b, r) = h[n]
  BY <1>0, SamplesAreTaken
<1>5. PICK e : Taken(c, r, m + n, e) /\ Samples(c, r) = e[m + n]
  <2>1. Len(c) \in Nat
    BY <1>0, <1>1, <1>2
  <2> QED  BY <1>2, <2>1, SamplesAreTaken
<1>6. m + n \in Nat /\ m <= m + n
  BY <1>0, <1>1
<1>7. e[m] = g[m]
  <2>0. \A i \in 1 .. m : a[i] = c[i]
    BY <1>1
  <2>a. PICK k : k = m + n
    OBVIOUS
  <2>b. Taken(c, r, k, e) /\ k \in Nat /\ m <= k
    BY <1>5, <1>6, <2>a
  <2>1. \A i \in 0 .. m : g[i] = e[i]
    <3>1. Taken(a, r, m, g) /\ m \in Nat
      BY <1>1, <1>3
    <3> QED  BY <2>0, <2>b, <3>1, TakenAgree
  <2> QED  BY <1>1, <2>1
<1> DEFINE X == {SampleOf(c[i]) : i \in 1 .. m + n}
<1>8. /\ \A i \in 1 .. m + n : SampleOf(c[i]) \in X
      /\ \A i \in 1 .. n : m + i \in 1 .. m + n
      /\ m \in 0 .. m + n /\ m \in 0 .. m
  BY <1>0, <1>1
<1>9. \A i \in 1 .. n : SampleOf(b[i]) \in X
  <2>1. ASSUME NEW i \in 1 .. n PROVE SampleOf(b[i]) \in X
    <3>1. b[i] = c[m + i] /\ m + i \in 1 .. m + n
      BY <1>1, <1>8
    <3> QED  BY <3>1
  <2> QED  BY <2>1
<1> HIDE DEF X
<1>10. g[m] \in Seq(X)
  <2>1. \A i \in 0 .. m + n : e[i] \in Seq(X)
    BY <1>5, <1>6, <1>8, TakenIsSeq
  <2> QED  BY <1>7, <1>8, <2>1
<1>11. \A i \in 0 .. n : h[i] \in Seq(X)
  BY <1>0, <1>4, <1>9, TakenIsSeq
<1> DEFINE P == {i \in 0 .. n : e[m + i] = g[m] \o h[i]}
<1>12. 0 \in P
  <2>1. h[0] = <<>>
    BY <1>0, <1>4, TakenStep
  <2>2. g[m] \o <<>> = g[m]
    BY <1>10
  <2>3. m + 0 = m /\ 0 \in 0 .. n
    BY <1>0, <1>1
  <2> QED  BY <1>7, <2>1, <2>2, <2>3
<1>13. ASSUME NEW i \in 1 .. n, i - 1 \in P PROVE i \in P
  <2>0. i \in Nat /\ i - 1 \in 0 .. n /\ i \in 0 .. n
    BY <1>0
  <2>1. e[m + (i - 1)] = g[m] \o h[i - 1]
    BY <1>13
  <2>2. m + i \in 1 .. m + n /\ (m + i) - 1 = m + (i - 1)
    BY <1>0, <1>1
  <2>3. e[m + i] = IF c[m + i].regime = r /\ c[m + i].risk > 0
                   THEN Append(e[(m + i) - 1], SampleOf(c[m + i])) ELSE e[(m + i) - 1]
    <3>1. PICK k \in Nat : k = m + n
      BY <1>6
    <3>2. Taken(c, r, k, e)
      BY <1>5, <3>1
    <3>3. PICK j \in 1 .. k : j = m + i
      BY <2>2, <3>1
    <3>4. \A x \in 1 .. k : e[x] = IF c[x].regime = r /\ c[x].risk > 0
                                  THEN Append(e[x - 1], SampleOf(c[x])) ELSE e[x - 1]
      BY <3>2, TakenStep
    <3> QED  BY <3>3, <3>4
  <2>5. c[m + i] = b[i] /\ SampleOf(b[i]) \in X /\ h[i - 1] \in Seq(X)
    BY <1>1, <1>9, <1>11, <2>0
  <2>6. e[m + i] = IF b[i].regime = r /\ b[i].risk > 0
                   THEN Append(g[m] \o h[i - 1], SampleOf(b[i])) ELSE g[m] \o h[i - 1]
    BY <2>1, <2>2, <2>3, <2>5
  <2>7. Append(g[m] \o h[i - 1], SampleOf(b[i])) = g[m] \o Append(h[i - 1], SampleOf(b[i]))
    <3>1. PICK u \in Seq(X), v \in Seq(X), x \in X :
             u = g[m] /\ v = h[i - 1] /\ x = SampleOf(b[i])
      BY <1>10, <2>5
    <3>2. Append(u \o v, x) = u \o Append(v, x)
      OBVIOUS
    <3> QED  BY <3>1, <3>2
  <2>8. h[i] = IF b[i].regime = r /\ b[i].risk > 0
               THEN Append(h[i - 1], SampleOf(b[i])) ELSE h[i - 1]
    BY <1>0, <1>4, TakenStep
  <2>9. e[m + i] = g[m] \o h[i]
    BY <2>6, <2>7, <2>8
  <2> QED  BY <2>0, <2>9
<1> HIDE DEF P
<1>14. \A i \in 0 .. n : i \in P
  BY <1>0, <1>12, <1>13, UpTo
<1>15. n \in P
  BY <1>0, <1>14
<1>16. e[m + n] = g[m] \o h[n]
  BY <1>15 DEF P
<1> QED  BY <1>3, <1>4, <1>5, <1>16 DEF c

---------------------------------------------------------------------------
(* Books that agree with their history *)

\* The account and the performance table are those of the trades and of the
\* positions still open.
Reconciled(b) ==
  /\ Accounted(b, NoPast) /\ Marked(b)
  /\ b.perf = [r \in Regimes |-> Samples(b.port.trades, r)]

\* The trades are as many as the file keeps at most.
TradesFit(b) == Len(b.port.trades) <= MaxClosedTrades

\* No trades, no samples.
LEMMA NoSamples == \A r : Samples(<<>>, r) = <<>>
<1>1. ASSUME NEW r PROVE Samples(<<>>, r) = <<>>
  <2>1. Len(<<>>) = 0
    OBVIOUS
  <2>2. PICK g : Taken(<<>>, r, 0, g) /\ Samples(<<>>, r) = g[0]
    BY <2>1, SamplesAreTaken
  <2>3. g[0] = <<>>
    BY <2>2, TakenStep
  <2> QED  BY <2>2, <2>3
<1> QED  BY <1>1

LEMMA BlankBookReconciled == Reconciled(BlankBook)
<1>1. /\ BlankBook.port = EmptyPortfolio /\ BlankBook.pending = {}
      /\ BlankBook.perf = [r \in Regimes |-> <<>>]
  BY DEF BlankBook
<1>2. EmptyPortfolio.curve = <<>> /\ EmptyPortfolio.trades = <<>>
  BY DEF EmptyPortfolio
<1>3. IsCurve(EmptyPortfolio.curve)
  BY <1>2 DEF IsCurve, IsSeq
<1>4. Accounted(BlankBook, NoPast)
  BY <1>1, <1>3, EmptyBalanced DEF Accounted
<1> QED  BY <1>1, <1>2, <1>4, NoSamples DEF Reconciled, Marked

\* A part of a list is a list.
LEMMA PartIsList ==
  ASSUME NEW s, IsSeq(s), NEW u \in Nat
  PROVE  \E n : IsList(SubSeq(s, u + 1, Len(s)), n)
<1> DEFINE X == {s[i] : i \in DOMAIN s}
<1>1. s \in Seq(X) /\ Len(s) \in Nat /\ DOMAIN s = 1 .. Len(s)
  BY DEF IsSeq
<1> HIDE DEF X
<1>a. Len(s) \in Int /\ u + 1 \in Int
  BY <1>1
<1>2. PICK v \in Int, w \in Int : v = u + 1 /\ w = Len(s)
  BY <1>a
<1>3. \A i \in v .. w : s[i] \in X
  BY <1>1, <1>2
<1>4. SubSeq(s, v, w) \in Seq(X)
  BY <1>3, SubSeqProperties
<1>5. PICK c \in Seq(X) : c = SubSeq(s, u + 1, Len(s))
  BY <1>2, <1>4
<1>6. IsList(c, Len(c))
  BY DEF IsList
<1> QED  BY <1>5, <1>6

\* One bar keeps a book reconciled: what it closes goes to both sides.
LEMMA ProcessBarReconciled ==
  ASSUME NEW b, NEW bar \in Bars, NEW t \in Nat, IsBook(b), b.watermark < t,
         NEW enabled, NEW quality, NEW warm, Reconciled(b)
  PROVE  Reconciled(ProcessBar(b, bar, t, enabled, quality, warm))
<1> DEFINE c == ProcessBar(b, bar, t, enabled, quality, warm)
<1>1. AfterBar(b, c, bar, t, NoPast)
  BY ProcessBarAccounted, NoPastIsPast DEF Reconciled
<1> HIDE DEF c
<1> DEFINE closed == SubSeq(c.port.trades, Len(b.port.trades) + 1, Len(c.port.trades))
<1>2. /\ Accounted(c, NoPast) /\ Marked(c)
      /\ c.port.trades = b.port.trades \o closed
      /\ c.perf = [r \in Regimes |-> b.perf[r] \o Samples(closed, r)]
  BY <1>1 DEF AfterBar
<1>3. IsSeq(b.port.trades) /\ IsSeq(c.port.trades)
  BY <1>2 DEF Reconciled, Accounted, IsAccount
<1>4. Len(b.port.trades) \in Nat
  BY <1>3 DEF IsSeq
<1>5. PICK n : IsList(closed, n)
  BY <1>3, <1>4, PartIsList
<1> HIDE DEF closed
<1>6. \A r : Samples(b.port.trades \o closed, r) = Samples(b.port.trades, r) \o Samples(closed, r)
  BY <1>3, <1>5, SamplesJoin
<1>7. c.perf = [r \in Regimes |-> Samples(c.port.trades, r)]
  BY <1>2, <1>6 DEF Reconciled
<1>8. Reconciled(c)
  BY <1>2, <1>7 DEF Reconciled
<1> QED  BY <1>8 DEF c

\* Two accounts alike in their amounts, positions and trades.
SameAmounts(b, c) ==
  /\ DOMAIN c = DOMAIN b /\ c.positions = b.positions /\ c.trades = b.trades
  /\ c.cash = b.cash /\ c.realised = b.realised /\ c.costs = b.costs

LEMMA SameAmountsBalanced ==
  ASSUME NEW past \in Pasts, NEW b, NEW c, SameAmounts(b, c), IsAccount(b), Balanced(b, past)
  PROVE  IsAccount(c) /\ Balanced(c, past) /\ \A price : Equity(c, price) = Equity(b, price)
<1>1. IsAccount(c)
  BY DEF SameAmounts, IsAccount
<1>2. Nets(c) = Nets(b) /\ Grosses(c) = Grosses(b) /\ TradeCosts(c) = TradeCosts(b)
  BY DEF SameAmounts, Nets, Grosses, TradeCosts
<1>3. Balanced(c, past)
  BY <1>2 DEF SameAmounts, Balanced
<1>4. \A price : Equity(c, price) = Equity(b, price)
  BY DEF SameAmounts, Equity, Unrealised
<1> QED  BY <1>1, <1>3, <1>4

\* A book stays reconciled when its curve is cut or its baselines are restored.
LEMMA SameAmountsReconciled ==
  ASSUME NEW b, NEW c, Reconciled(b), SameAmounts(b.port, c.port),
         c.pending = b.pending, c.perf = b.perf, c.lastClose = b.lastClose,
         IsCurve(c.port.curve), c.port.curve = <<>> <=> b.port.curve = <<>>,
         c.port.curve # <<>> => Last(c.port.curve) = Last(b.port.curve)
  PROVE  Reconciled(c)
<1>1. IsAccount(c.port) /\ Balanced(c.port, NoPast) /\ \A p : Equity(c.port, p) = Equity(b.port, p)
  BY SameAmountsBalanced, NoPastIsPast DEF Reconciled, Accounted
<1>2. Accounted(c, NoPast)
  BY <1>1 DEF Reconciled, Accounted
<1>3. Marked(c)
  BY <1>1 DEF Reconciled, Marked
<1> QED  BY <1>2, <1>3 DEF Reconciled, SameAmounts

\* The file keeps the numbers of a book whose trades fit into it.
LEMMA SerialiseReconciled ==
  ASSUME NEW b, NEW q, IsBook(b), Reconciled(b), TradesFit(b)
  PROVE  Reconciled(Serialise(b, q).book)
<1> DEFINE c == Serialise(b, q).book
<1>1. /\ c.port = SavedPortfolio(b.port)
      /\ c.pending = b.pending /\ c.perf = b.perf /\ c.lastClose = b.lastClose
  BY BookFieldsAre DEF Serialise, IsBook, IsBookAt
<1>2. LastN(b.port.trades, MaxClosedTrades) = b.port.trades
  BY DEF LastN, TradesFit
<1>3. /\ SameAmounts(b.port, SavedPortfolio(b.port))
      /\ SavedPortfolio(b.port).curve = LastN(b.port.curve, MaxEquityPoints)
  BY <1>2, BookFieldsAre DEF SavedPortfolio, SameAmounts, IsBook, IsBookAt
<1> HIDE DEF c
<1> DEFINE curve == LastN(b.port.curve, MaxEquityPoints)
<1>4. IsCurve(b.port.curve)
  BY DEF Reconciled, Accounted
<1>5. /\ IsSeq(curve) /\ (curve = <<>> <=> b.port.curve = <<>>)
      /\ \A i \in DOMAIN curve : \E j \in DOMAIN b.port.curve : curve[i] = b.port.curve[j]
      /\ b.port.curve # <<>> => Last(curve) = Last(b.port.curve)
  BY <1>4, LastNIsEnd, HistoryAssumption DEF IsCurve
<1> HIDE DEF curve
<1>6. IsCurve(curve)
  BY <1>4, <1>5 DEF IsCurve
<1>7. c.port.curve = curve /\ SameAmounts(b.port, c.port)
  BY <1>1, <1>3 DEF curve
<1>8. Reconciled(c)
  BY <1>1, <1>5, <1>6, <1>7, SameAmountsReconciled
<1> QED  BY <1>8 DEF c

\* A reload takes them back as they are.
LEMMA RestoreReconciled ==
  ASSUME NEW payload, IsBook(payload.book), Reconciled(payload.book)
  PROVE  Reconciled(Restore(payload))
<1> DEFINE b == payload.book
           c == Restore(payload)
<1>1. /\ c.port = RestorePortfolio(b.port)
      /\ c.pending = b.pending /\ c.perf = b.perf /\ c.lastClose = b.lastClose
  BY BookFieldsAre DEF Restore, IsBook, IsBookAt
<1>2. {RestorePosition(p) : p \in b.port.positions} = b.port.positions
  BY RestoredPosition DEF IsBook, IsBookAt
<1>3. /\ SameAmounts(b.port, RestorePortfolio(b.port))
      /\ RestorePortfolio(b.port).curve = b.port.curve
  BY <1>2, BookFieldsAre DEF RestorePortfolio, SameAmounts, IsBook, IsBookAt
<1> HIDE DEF c, b
<1>4. Reconciled(b)
  BY DEF b
<1>5. SameAmounts(b.port, c.port) /\ c.port.curve = b.port.curve
  BY <1>1, <1>3
<1>6. IsCurve(b.port.curve)
  BY <1>4 DEF Reconciled, Accounted
<1>7. Reconciled(c)
  BY <1>1, <1>4, <1>5, <1>6, SameAmountsReconciled
<1> QED  BY <1>7 DEF c
=============================================================================
