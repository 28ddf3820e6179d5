--------------------------- MODULE BacktestProofs ---------------------------
(* What holds of every backtest, and of a backtest beside the paper engine.  *)
(* The backtester is a loop of its own over the same portfolio.  The proofs  *)
(* see its variables as a book, so that the lemmas about process_bar apply.  *)
EXTENDS BacktestParity, BarLoopProofs

---------------------------------------------------------------------------
(* A run as a book *)

\* The book of a run that has handled h bars, while it handles the next: the label is
\* the one that bar has at the time.
RunBook(h, label, queue, account, table) ==
  [BlankBook EXCEPT !.watermark = h, !.barCounter = h, !.lastRegime = label,
                    !.pending = queue, !.port = account, !.perf = table]

\* The mark of the backtester, which never cuts its curve.
MarkWhole(b, bar, t) ==
  [b EXCEPT !.port = RecordSnapshot(TrackExcursions(b.port, bar), t, bar.close),
            !.lastClose = bar.close]

\* One bar up to the mark.
Traded(b, bar, t) == ProcessExits(FillPendingOrders(b, bar, t), bar, t)

LEMMA RunBookFields ==
  ASSUME NEW h, NEW label, NEW queue, NEW account, NEW table
  PROVE  LET b == RunBook(h, label, queue, account, table)
         IN  /\ b = [f \in BookFields |-> b[f]]
             /\ b.watermark = h /\ b.barCounter = h /\ b.lastRegime = label
             /\ b.pending = queue /\ b.port = account /\ b.perf = table
  BY BookFieldsAre DEF RunBook, BlankBook

\* A curve with one more point.
LEMMA CurveGrows ==
  ASSUME NEW curve, IsCurve(curve), NEW point, point.equity \in Int
  PROVE  LET c == Append(curve, point)
         IN  /\ IsCurve(c) /\ c # <<>> /\ Last(c) = point
             /\ Len(c) = Len(curve) + 1 /\ Len(curve) \in Nat
<1> DEFINE X == {curve[i] : i \in DOMAIN curve}
           c == Append(curve, point)
<1>1. /\ curve \in Seq(X) /\ Len(curve) \in Nat /\ DOMAIN curve = 1 .. Len(curve)
      /\ \A i \in DOMAIN curve : curve[i].equity \in Int
  BY DEF IsCurve, IsSeq
<1> HIDE DEF X
<1>2. /\ c \in Seq(X \cup {point}) /\ Len(c) = Len(curve) + 1 /\ c[Len(curve) + 1] = point
      /\ \A i \in 1 .. Len(curve) : c[i] = curve[i]
  BY <1>1
<1>3. DOMAIN c = 1 .. Len(curve) + 1
  BY <1>1, <1>2
<1> HIDE DEF c
<1>4. IsSeq(c)
  BY <1>2 DEF IsSeq
<1>5. \A i \in DOMAIN c : c[i].equity \in Int
  <2>1. \A i \in 1 .. Len(curve) + 1 : i \in 1 .. Len(curve) \/ i = Len(curve) + 1
    BY <1>1
  <2> QED  BY <1>1, <1>2, <1>3, <2>1
<1>6. c # <<>> /\ Last(c) = point
  BY <1>1, <1>2, <1>3 DEF Last
<1> QED  BY <1>1, <1>2, <1>4, <1>5, <1>6 DEF IsCurve, c

\* The whole mark keeps the account and the shape of the book, and ends the curve
\* with the equity at the close.
LEMMA MarkWholeAccounted ==
  ASSUME NEW b, NEW bar \in Bars, NEW t \in Nat \ {0}, IsBookAt(b, t), Accounted(b, NoPast)
  PROVE  LET c == MarkWhole(b, bar, t)
         IN  /\ IsBookAt(c, t) /\ Accounted(c, NoPast) /\ Marked(c)
             /\ c.port.curve # <<>> /\ Len(c.port.curve) = Len(b.port.curve) + 1
             /\ c.port.trades = b.port.trades /\ c.perf = b.perf /\ c.pending = b.pending
<1> DEFINE c == MarkWhole(b, bar, t)
           m == MarkToMarket(b, bar, t)
           tracked == TrackExcursions(b.port, bar)
           held == RecordSnapshot(tracked, t, bar.close)
           cut == IF Len(held.curve) > 2 * MaxEquityPoints
                  THEN [held EXCEPT !.curve = LastN(@, MaxEquityPoints)] ELSE held
<1>1. /\ IsBookAt(m, t) /\ m.pending = b.pending
  BY MarkKeepsBook
<1>2. AfterMark(b, m, bar, t, NoPast)
  BY MarkAccounted, NoPastIsPast
<1>3. /\ Accounted(m, NoPast) /\ m.port.trades = b.port.trades /\ m.perf = b.perf
  BY <1>2 DEF AfterMark
<1>4. /\ IsAccount(tracked) /\ Balanced(tracked, NoPast) /\ tracked.curve = b.port.curve
  BY TrackBalanced, NoPastIsPast DEF Accounted
<1>5. bar.close \in Int
  BY BarIsRecord
<1> HIDE DEF tracked
<1>6. /\ DOMAIN held = DOMAIN EmptyPortfolio /\ held = [f \in PortfolioFields |-> held[f]]
      /\ IsAccount(held) /\ Balanced(held, NoPast)
      /\ Equity(held, bar.close) = Equity(tracked, bar.close)
      /\ \E point : held.curve = Append(tracked.curve, point) /\ point.equity = Equity(tracked, bar.close)
  <2>1. PICK pf, close : pf = tracked /\ close = bar.close
    OBVIOUS
  <2>2. LET new == RecordSnapshot(pf, t, close)
        IN  /\ IsAccount(new) /\ Balanced(new, NoPast)
            /\ Equity(new, close) = Equity(pf, close)
            /\ new.curve = Append(pf.curve, [bar |-> t, equity |-> Equity(pf, close),
                                             cash |-> pf.cash,
                                             open |-> Cardinality(pf.positions)])
    BY <1>4, <2>1, SnapshotBalanced, NoPastIsPast
  <2>3. IsAccount(held) /\ DOMAIN held = DOMAIN EmptyPortfolio
    BY <2>1, <2>2 DEF IsAccount
  <2>4. held = [f \in PortfolioFields |-> held[f]]
    <3>1. IsPortfolio(tracked)
      BY BookFieldsAre DEF tracked, TrackExcursions, IsPortfolio, IsBookAt
    <3>2. IsPortfolio(RollDay(tracked, t))
      BY <3>1, BookFieldsAre DEF RollDay, IsPortfolio
    <3>3. IsPortfolio(held)
      BY <3>2, BookFieldsAre DEF RecordSnapshot, IsPortfolio
    <3> QED  BY <3>3 DEF IsPortfolio
  <2> QED  BY <2>1, <2>2, <2>3, <2>4
<1>7. PICK point : held.curve = Append(b.port.curve, point) /\ point.equity = Equity(held, bar.close)
  BY <1>4, <1>6
<1>8. point.equity \in Int
  BY <1>5, <1>6, <1>7, EquityIsInt
<1>9. /\ IsCurve(held.curve) /\ held.curve # <<>> /\ Last(held.curve) = point
      /\ Len(held.curve) = Len(b.port.curve) + 1
  BY <1>7, <1>8, CurveGrows DEF Accounted
<1> HIDE DEF held
<1>10. /\ cut.trades = held.trades /\ cut.positions = held.positions
  BY <1>6, BookFieldsAre
<1>11. m = [b EXCEPT !.port = cut, !.lastClose = bar.close]
  BY DEF MarkToMarket, held, tracked
<1>12. m.port = cut
  BY <1>11, BookFieldsAre DEF IsBookAt
<1> HIDE DEF cut, m
<1>13. c = [b EXCEPT !.port = held, !.lastClose = bar.close]
  BY DEF MarkWhole, held, tracked
<1> HIDE DEF c
<1>14. /\ c = [f \in BookFields |-> c[f]] /\ c.port = held /\ c.lastClose = bar.close
       /\ c.watermark = b.watermark /\ c.pending = b.pending /\ c.perf = b.perf
  BY <1>13, BookFieldsAre DEF IsBookAt
<1>15. held.trades = b.port.trades /\ held.positions = m.port.positions
  BY <1>3, <1>10, <1>12
<1>16. IsBookAt(c, t)
  BY <1>1, <1>6, <1>14, <1>15 DEF IsBookAt
<1>17. Accounted(c, NoPast) /\ Marked(c)
  BY <1>3, <1>6, <1>7, <1>9, <1>14 DEF Accounted, Marked
<1> QED  BY <1>9, <1>14, <1>15, <1>16, <1>17 DEF c

---------------------------------------------------------------------------
(* The loop on one bar as steps of a book *)

\* The frame and the arguments do not change; bars are handled up to the last one.
Framed ==
  /\ Len(frame) \in Nat /\ Len(frame) <= MaxBars /\ DOMAIN frame = 1 .. Len(frame)
  /\ \A t \in 1 .. Len(frame) : frame[t] \in Bars
  /\ setup \in Setups
  /\ handled \in Nat /\ LastBar \in Nat /\ handled <= LastBar /\ LastBar <= Len(frame)

Now == RunBook(handled, regimes[handled + 1], pending, port, perf)

\* What HandleBar leaves is what a book gets from fill, exits, the whole mark and the
\* decision, except that the last bar queues nothing.
StepOf(b, bar, t) ==
  LET m == MarkWhole(Traded(b, bar, t), bar, t)
      d == DecideOnBar(m, bar, t, setup.enabled, setup.quality)
  IN  /\ port' = m.port /\ perf' = m.perf /\ handled' = t /\ frame' = frame /\ setup' = setup
      /\ outcome' \in {"running", "raised"}
      /\ pending' = IF handled >= Warmup /\ ~bar.fails /\ t < LastBar THEN d.pending ELSE {}
      /\ outcome' = "running" => (handled >= Warmup => ~bar.fails)

LEMMA BarIsStep ==
  ASSUME Framed, HandleBar, IsBookAt(Now, handled + 1)
  PROVE  /\ outcome = "running" /\ handled < LastBar
         /\ frame[handled + 1] \in Bars /\ StepOf(Now, frame[handled + 1], handled + 1)
<1> DEFINE t == handled + 1
           bar == frame[t]
           filled == FillPendingOrders(Now, bar, t)
           exited == ProcessExits(filled, bar, t)
           m == MarkWhole(exited, bar, t)
           d == DecideOnBar(m, bar, t, setup.enabled, setup.quality)
           opened == Opened(bar, t)
           closed == Closed(opened, ExitsOn(opened, bar), t)
           marked == RecordSnapshot(TrackExcursions(closed, bar), t, bar.close)
           warm == handled >= Warmup
<1>1. /\ outcome = "running" /\ handled < LastBar /\ handled' = t
      /\ frame' = frame /\ setup' = setup
      /\ port' = marked /\ perf' = Learnt(opened, closed)
      /\ pending' = IF warm /\ ~bar.fails THEN Queued(marked, bar, t) ELSE {}
      /\ outcome' = IF warm /\ bar.fails THEN "raised" ELSE "running"
  BY DEF HandleBar
<1>2. t \in 1 .. Len(frame) /\ t - 1 = handled /\ bar \in Bars /\ t \in Nat \ {0}
  BY <1>1 DEF Framed
<1>3. /\ Now.barCounter = handled /\ Now.lastRegime = regimes[t] /\ Now.pending = pending
      /\ Now.port = port /\ Now.perf = perf
  BY RunBookFields DEF Now
<1> HIDE DEF t, bar
<1>4. /\ filled.port = opened /\ filled.pending = {} /\ filled.perf = perf
      /\ filled.barCounter = handled /\ filled.lastRegime = regimes[t]
      /\ IsBookAt(filled, t)
  <2>1. IsBookAt(filled, t)
    BY <1>2, FillKeepsBook DEF t
  <2>2. DOMAIN Now = BookFields
    BY DEF IsBookAt
  <2>3. PICK queue : queue = {o \in pending : Fills(o, bar) /\ StopStillValid(o, bar)}
    OBVIOUS
  <2>4. PICK p : p = PositionOf(CHOOSE o \in queue : TRUE, bar, t, handled)
    OBVIOUS
  <2>5. opened = IF queue = {} THEN port ELSE OpenPosition(port, p)
    BY <1>2, <2>3, <2>4 DEF Opened
  <2>6. filled = [Now EXCEPT !.pending = {}, !.port = IF queue = {} THEN port ELSE OpenPosition(port, p)]
    BY <1>3, <2>3, <2>4 DEF FillPendingOrders
  <2> HIDE DEF opened
  <2> QED  BY <1>3, <2>1, <2>2, <2>5, <2>6, BookFieldsAre
<1> HIDE DEF filled, opened
<1>5. /\ exited.port = closed /\ exited.perf = Learnt(opened, closed) /\ exited.pending = {}
      /\ IsBookAt(exited, t)
  <2>1. IsBookAt(exited, t) /\ exited.pending = {}
    BY <1>2, <1>4, ExitsKeepsBook
  <2>2. DOMAIN filled = BookFields
    BY <1>4 DEF IsBookAt
  <2>3. PICK exits : exits = ExitsOn(opened, bar)
    OBVIOUS
  <2>4. exits = [p \in {q \in opened.positions : Exits(q, bar)} |-> ExitOnBar(p, bar)]
    BY <2>3 DEF ExitsOn
  <2>5. PICK pf : pf = ClosePositions(opened, exits, t, handled, regimes[t])
    OBVIOUS
  <2>6. closed = pf
    BY <1>2, <2>3, <2>5 DEF Closed
  <2>7. \E n : exited = [filled EXCEPT !.port = pf,
                   !.perf = [r \in Regimes |-> filled.perf[r] \o
                      Samples(SubSeq(pf.trades, Len(opened.trades) + 1, Len(pf.trades)), r)],
                   !.ambiguous = n]
    BY <1>4, <2>4, <2>5 DEF ProcessExits
  <2>8. Learnt(opened, pf) = [r \in Regimes |-> perf[r] \o
                      Samples(SubSeq(pf.trades, Len(opened.trades) + 1, Len(pf.trades)), r)]
    BY DEF Learnt
  <2> HIDE DEF closed, exited
  <2>9. PICK table : table = [r \in Regimes |-> filled.perf[r] \o
                      Samples(SubSeq(pf.trades, Len(opened.trades) + 1, Len(pf.trades)), r)]
    OBVIOUS
  <2>10. exited.port = pf /\ exited.perf = table
    BY <2>2, <2>7, <2>9, BookFieldsAre
  <2>11. table = Learnt(opened, pf)
    BY <1>4, <2>8, <2>9
  <2> QED  BY <2>1, <2>6, <2>10, <2>11
<1> HIDE DEF exited, closed
<1>6. m.port = marked /\ m.perf = exited.perf /\ m.pending = {} /\ DOMAIN m = BookFields
  BY <1>5, BookFieldsAre DEF MarkWhole, IsBookAt
<1> HIDE DEF m, marked
<1>7. ~bar.fails => d.pending = {PendingOrder(s, marked, bar, t) : s \in Ordered(marked, bar)}
  <2> SUFFICES ASSUME ~bar.fails
               PROVE  d.pending = {PendingOrder(s, marked, bar, t) : s \in Ordered(marked, bar)}
    OBVIOUS
  <2> DEFINE seen == [m EXCEPT !.lastRegime = bar.regime, !.barsDecided = @ + 1]
             equity == Last(marked.curve).equity
  <2>1. seen.port = marked /\ seen.lastRegime = bar.regime /\ seen.pending = {} /\ DOMAIN seen = BookFields
    BY <1>6, BookFieldsAre
  <2>2. PICK approved : approved = Ordered(marked, bar)
    OBVIOUS
  <2>3. approved = {s \in {FinalSignal(x) : x \in bar.signal} :
                      Approves(s, m.port, equity, setup.quality, setup.enabled, <<>>)}
    BY <1>6, <2>2 DEF Ordered
  <2>4. d = IF approved = {} THEN seen
            ELSE [seen EXCEPT !.pending = {OrderOf(s, seen, equity, t) : s \in approved}]
    BY <1>6, <2>3 DEF DecideOnBar
  <2> HIDE DEF seen, d
  <2>5. \A s : OrderOf(s, seen, equity, t) = PendingOrder(s, marked, bar, t)
    BY <2>1 DEF OrderOf, PendingOrder
  <2>6. d.pending = {OrderOf(s, seen, equity, t) : s \in approved}
    BY <2>1, <2>4, BookFieldsAre
  <2> QED  BY <2>2, <2>5, <2>6
<1>8. pending' = IF warm /\ ~bar.fails /\ t < LastBar THEN d.pending ELSE {}
  BY <1>1, <1>7 DEF Queued
<1>9. port' = m.port /\ perf' = m.perf
  BY <1>1, <1>5, <1>6
<1>10. StepOf(Now, bar, t)
  <2> HIDE DEF d
  <2>1. m = MarkWhole(Traded(Now, bar, t), bar, t)
    BY DEF m, exited, filled, Traded
  <2> QED  BY <1>1, <1>8, <1>9, <2>1 DEF StepOf, d
<1> QED  BY <1>1, <1>2, <1>10 DEF bar, t

---------------------------------------------------------------------------
(* Everything is realised *)

Run == RunBook(handled, "UNKNOWN", pending, port, perf)

\* Of a run that goes on: the account and the table are those of the trades, the curve
\* has a point for each bar, and without a position it ends with the cash.
Running ==
  /\ IsBookAt(Run, handled) /\ Accounted(Run, NoPast)
  /\ perf = [r \in Regimes |-> Samples(port.trades, r)]
  /\ Len(port.curve) = handled
  /\ port.positions = {} /\ port.curve # <<>> => Last(port.curve).equity = port.cash

Sound == Framed /\ (outcome = "running" => Running) /\ EverythingRealised

\* The differences of gross and costs.
Profits(pf) == [i \in DOMAIN pf.trades |-> pf.trades[i].gross - pf.trades[i].costs]

LEMMA NothingOpen ==
  ASSUME NEW pf, IsAccount(pf), pf.positions = {}
  PROVE  \A price : Equity(pf, price) = pf.cash
<1> SUFFICES ASSUME NEW price PROVE Equity(pf, price) = pf.cash
  OBVIOUS
<1>1. Unrealised(pf, price) = 0
  <2> DEFINE f == [p \in pf.positions |-> (price - p.entry) * p.qty * Sign(p.dir)]
  <2>1. DOMAIN f = {}
    OBVIOUS
  <2> HIDE DEF f
  <2>2. SumFunction(f) = 0
    BY <2>1, SumNone
  <2> QED  BY <2>2 DEF Unrealised, f
<1>2. pf.cash \in Int
  BY DEF IsAccount
<1> QED  BY <1>1, <1>2 DEF Equity

LEMMA CashRealised ==
  ASSUME NEW pf, IsAccount(pf), Balanced(pf, NoPast), pf.positions = {}
  PROVE  pf.cash = InitialBalance + SumFunction(Profits(pf))
<1>1. SumFunction(EntryCosts(pf.positions)) = 0
  <2>1. DOMAIN EntryCosts(pf.positions) = {}
    BY DEF EntryCosts
  <2> QED  BY <2>1, SumNone
<1>2. /\ SumFunction(Grosses(pf)) \in Int /\ SumFunction(TradeCosts(pf)) \in Int
      /\ IsFiniteSet(DOMAIN pf.trades)
  BY AccountSums
<1>3. /\ DOMAIN Profits(pf) = DOMAIN pf.trades /\ DOMAIN TradeCosts(pf) = DOMAIN pf.trades
      /\ DOMAIN Grosses(pf) = DOMAIN pf.trades
      /\ \A i \in DOMAIN pf.trades :
           /\ Profits(pf)[i] \in Int /\ TradeCosts(pf)[i] \in Int
           /\ Grosses(pf)[i] = Profits(pf)[i] + TradeCosts(pf)[i]
  BY DEF Profits, TradeCosts, Grosses, IsAccount, IsResult
<1>4. SumFunction(Grosses(pf)) = SumFunction(Profits(pf)) + SumFunction(TradeCosts(pf))
  <2>1. PICK f, g, h : f = Profits(pf) /\ g = TradeCosts(pf) /\ h = Grosses(pf)
    OBVIOUS
  <2> QED  BY ONLY <1>2, <1>3, <2>1, SumOfSums
<1>5. SumFunction(Profits(pf)) \in Int
  BY <1>2, <1>3, SumTyped
<1>6. InitialBalance \in Int /\ NoPast.cash = 0 /\ NoPast.costs = 0
  BY BalanceAssumption DEF NoPast
<1> QED  BY <1>1, <1>2, <1>4, <1>5, <1>6 DEF Balanced

\* Any exit of a position is at an integer price and cost.
LEMMA ExitFillAmounts ==
  ASSUME NEW p, IsLot(p), NEW reason, NEW level \in Int, NEW atr \in Int
  PROVE  ExitFill(p, reason, level, atr).price \in Int /\ ExitFill(p, reason, level, atr).cost \in Int
<1>1. PICK price \in Int :
         price = Max2(level - Sign(p.dir) * (Exec.halfSpread + Slippage(level, atr)), 1)
  <2>1. Exec.halfSpread \in Int /\ Slippage(level, atr) \in Int
    BY ExecAssumption, SlippageIsInt DEF ExecConfig
  <2>2. PICK s \in Int : s = Exec.halfSpread + Slippage(level, atr)
    BY <2>1
  <2>3. Sign(p.dir) * s \in Int
    BY DEF Sign
  <2> QED  BY <2>2, <2>3 DEF Max2
<1>2. FillCost(p.qty, level, price, atr) \in Int
  BY FillCostIsInt DEF IsLot
<1> QED  BY <1>1, <1>2 DEF ExitFill

\* _close_all at the end: the account stays balanced, nothing is left open, and the new
\* trades are learnt from.
LEMMA LiquidatedBalanced ==
  ASSUME Framed, Running, 0 < LastBar
  PROVE  /\ IsAccount(Liquidated) /\ Balanced(Liquidated, NoPast)
         /\ Liquidated.positions = {} /\ Liquidated.curve = port.curve
         /\ Learnt(port, Liquidated) = [r \in Regimes |-> Samples(Liquidated.trades, r)]
<1> DEFINE close == frame[LastBar].close
           exits == [p \in port.positions |-> ExitFill(p, "END_OF_BACKTEST", close, 0)]
           c == ClosePositions(port, exits, LastBar, LastBar - 1, regimes[LastBar])
<1>1. close \in Int
  BY BarIsRecord DEF Framed
<1>2. /\ IsAccount(port) /\ Balanced(port, NoPast) /\ IsPortfolio(port) /\ IsSeq(port.trades)
  BY RunBookFields DEF Running, Run, Accounted, IsBookAt, IsPortfolio, IsAccount
<1> HIDE DEF close
<1>3. \A p \in DOMAIN exits : exits[p].price \in Int /\ exits[p].cost \in Int
  BY <1>1, <1>2, ExitFillAmounts DEF IsAccount
<1>4. DOMAIN exits = port.positions
  OBVIOUS
<1> HIDE DEF exits
<1>5. c.positions = {}
  BY <1>2, <1>4, ClosePositionsKeepsPortfolio
<1>6. c.curve = port.curve
  BY <1>2, BookFieldsAre DEF ClosePositions, IsPortfolio
<1>7. IsAccount(c) /\ Balanced(c, NoPast)
  BY <1>2, <1>3, <1>4, CloseBalanced, NoPastIsPast
<1>8. ClosedBehind(c.trades, port.trades, exits, LastBar, LastBar - 1, regimes[LastBar],
                   Len(port.trades), Cardinality(DOMAIN exits))
  BY <1>2, <1>4, ClosedTrades
<1> HIDE DEF c
<1> DEFINE new == SubSeq(c.trades, Len(port.trades) + 1, Len(c.trades))
<1>9. IsSeq(c.trades) /\ c.trades = port.trades \o new /\ Len(port.trades) \in Nat
  BY <1>8 DEF ClosedBehind
<1>10. PICK n : IsList(new, n)
  BY <1>9, PartIsList
<1>11. Learnt(port, c) = [r \in Regimes |-> perf[r] \o Samples(new, r)]
  BY DEF Learnt
<1> HIDE DEF new
<1>12. \A r : Samples(port.trades \o new, r) = Samples(port.trades, r) \o Samples(new, r)
  BY <1>2, <1>10, SamplesJoin
<1>13. Learnt(port, c) = [r \in Regimes |-> Samples(c.trades, r)]
  BY <1>9, <1>11, <1>12 DEF Running
<1>14. c = Liquidated
  BY DEF c, exits, close, Liquidated, Closed
<1> QED  BY <1>5, <1>6, <1>7, <1>13, <1>14

\* The last snapshot, taken again without a position, shows the cash.
LEMMA RestatedShowsCash ==
  ASSUME NEW pf, IsAccount(pf), Balanced(pf, NoPast), pf.positions = {}, IsCurve(pf.curve),
         pf.curve # <<>>
  PROVE  LET c == Restated(pf)
         IN  /\ IsAccount(c) /\ Balanced(c, NoPast) /\ c.positions = {}
             /\ c.trades = pf.trades /\ Last(c.curve).equity = c.cash
<1> DEFINE cut == [pf EXCEPT !.curve = Front(@)]
           X == {pf.curve[i] : i \in DOMAIN pf.curve}
<1>1. SameAmounts(pf, cut) /\ cut.curve = Front(pf.curve)
  BY DEF SameAmounts, IsAccount, EmptyPortfolio
<1> HIDE DEF cut
<1>2. /\ IsAccount(cut) /\ Balanced(cut, NoPast) /\ cut.positions = {} /\ cut.trades = pf.trades
  BY <1>1, SameAmountsBalanced, NoPastIsPast DEF SameAmounts
<1>3. PICK t, close, before : t = LastBar /\ close = frame[LastBar].close /\ before = cut
  OBVIOUS
<1>a. /\ IsAccount(before) /\ Balanced(before, NoPast) /\ NoPast \in Pasts
  BY <1>2, <1>3, NoPastIsPast
<1>b. LET new == RecordSnapshot(before, t, close)
      IN  /\ IsAccount(new) /\ Balanced(new, NoPast)
          /\ new.trades = before.trades /\ new.positions = before.positions /\ new.cash = before.cash
          /\ new.curve = Append(before.curve, [bar |-> t, equity |-> Equity(before, close),
                                               cash |-> before.cash,
                                               open |-> Cardinality(before.positions)])
  BY <1>a, SnapshotBalanced
<1>4. LET new == RecordSnapshot(cut, t, close)
      IN  /\ IsAccount(new) /\ Balanced(new, NoPast)
          /\ new.trades = cut.trades /\ new.positions = cut.positions /\ new.cash = cut.cash
          /\ \E point : new.curve = Append(cut.curve, point) /\ point.equity = Equity(cut, close)
  BY <1>3, <1>b
<1>5. PICK point : /\ RecordSnapshot(cut, t, close).curve = Append(cut.curve, point)
                   /\ point.equity = cut.cash
  BY <1>2, <1>4, NothingOpen
<1>6. \E Y : Front(pf.curve) \in Seq(Y)
  <2>1. pf.curve \in Seq(X)
    BY DEF IsCurve, IsSeq
  <2> HIDE DEF X
  <2>2. Len(pf.curve) \in Nat /\ Len(pf.curve) # 0
    BY <2>1
  <2>3. Front(pf.curve) = SubSeq(pf.curve, 1, Len(pf.curve) - 1)
    BY DEF Front
  <2>4. \A i \in 1 .. Len(pf.curve) - 1 : pf.curve[i] \in X
    BY <2>1, <2>2
  <2>5. 1 \in Int /\ Len(pf.curve) - 1 \in Int
    BY <2>2
  <2>6. SubSeq(pf.curve, 1, Len(pf.curve) - 1) \in Seq(X)
    BY <2>4, <2>5, SubSeqProperties
  <2> QED  BY <2>3, <2>6
<1>7. \A Y, s, e : s \in Seq(Y) => Last(Append(s, e)) = e
  <2> SUFFICES ASSUME NEW Y, NEW s, s \in Seq(Y), NEW e PROVE Last(Append(s, e)) = e
    OBVIOUS
  <2>1. s \in Seq(Y \cup {e}) /\ Len(s) \in Nat
    OBVIOUS
  <2>2. Len(Append(s, e)) = Len(s) + 1 /\ Append(s, e)[Len(s) + 1] = e
    BY <2>1
  <2> QED  BY <2>2 DEF Last
<1>8. Last(RecordSnapshot(cut, t, close).curve) = point
  BY <1>1, <1>5, <1>6, <1>7
<1>9. Restated(pf) = RecordSnapshot(cut, t, close)
  BY <1>3 DEF Restated, cut
<1> QED  BY <1>2, <1>4, <1>5, <1>8, <1>9

\* The book of a run, seen from the next bar: nothing it holds was entered on that bar.
LEMMA NowIsBook ==
  ASSUME Framed, Running
  PROVE  /\ IsBookAt(Now, handled + 1) /\ Accounted(Now, NoPast)
         /\ \A p \in port.positions : p.entryBar # handled + 1
<1>1. /\ Now = [f \in BookFields |-> Now[f]] /\ Now.pending = pending
      /\ Now.port = port /\ Now.perf = perf /\ Now.watermark = handled
      /\ Run.pending = pending /\ Run.port = port /\ Run.perf = perf /\ Run.watermark = handled
  BY RunBookFields DEF Now, Run
<1>2. /\ port = [f \in PortfolioFields |-> port[f]] /\ handled \in Nat
      /\ \A o \in pending : IsOrder(o, handled)
      /\ \A p \in port.positions : IsPosition(p, handled)
  BY <1>1 DEF Running, IsBookAt, Framed
<1>3. \A o \in pending : IsOrder(o, handled + 1)
  BY <1>2 DEF IsOrder
<1>4. \A p \in port.positions : IsPosition(p, handled + 1) /\ p.entryBar # handled + 1
  BY <1>2 DEF IsPosition
<1> QED  BY <1>1, <1>2, <1>3, <1>4 DEF IsBookAt, Running, Accounted

\* A bar keeps a run sound.
LEMMA HandlingIsSound ==
  ASSUME Framed, outcome = "running", Running, HandleBar
  PROVE  Framed' /\ Running'
<1> DEFINE t == handled + 1
           bar == frame[t]
           filled == FillPendingOrders(Now, bar, t)
           exited == ProcessExits(filled, bar, t)
           m == MarkWhole(exited, bar, t)
           d == DecideOnBar(m, bar, t, setup.enabled, setup.quality)
<1>1. /\ Now = [f \in BookFields |-> Now[f]] /\ Now.pending = pending
      /\ Now.port = port /\ Now.perf = perf /\ Now.watermark = handled
      /\ Run.pending = pending /\ Run.port = port /\ Run.perf = perf /\ Run.watermark = handled
  BY RunBookFields DEF Now, Run
<1>2. handled \in Nat
  BY DEF Framed
<1>4. \A p \in port.positions : p.entryBar # t
  BY NowIsBook
<1>5. IsBookAt(Now, t) /\ Accounted(Now, NoPast)
  BY NowIsBook
<1>6. /\ handled < LastBar /\ bar \in Bars /\ StepOf(Now, bar, t)
  BY <1>5, BarIsStep
<1>7. t \in Nat \ {0} /\ t \in Int
  BY <1>2
<1> HIDE DEF bar
<1>8. /\ IsBookAt(filled, t) /\ filled.pending = {} /\ Accounted(filled, NoPast)
      /\ filled.perf = perf /\ filled.port.trades = port.trades /\ filled.port.curve = port.curve
  <2>1. \A p \in Now.port.positions : p.entryBar # t
    BY <1>1, <1>4
  <2> HIDE DEF t
  <2> QED  BY <1>1, <1>5, <1>6, <1>7, <2>1, FillKeepsBook, FillAccounted, NoPastIsPast
<1> HIDE DEF filled, t
<1>9. IsBookAt(exited, t) /\ exited.pending = {} /\ AfterExits(filled, exited, NoPast)
  BY <1>6, <1>7, <1>8, ExitsKeepsBook, ExitsAccounted, NoPastIsPast
<1> HIDE DEF exited
<1> DEFINE closed == SubSeq(exited.port.trades, Len(port.trades) + 1, Len(exited.port.trades))
<1>10. /\ Accounted(exited, NoPast) /\ exited.port.trades = port.trades \o closed
       /\ exited.perf = [r \in Regimes |-> perf[r] \o Samples(closed, r)]
       /\ exited.port.curve = port.curve
  BY <1>8, <1>9 DEF AfterExits
<1>11. /\ IsSeq(port.trades) /\ IsSeq(exited.port.trades) /\ Len(port.trades) \in Nat
  BY <1>1, <1>10 DEF Running, Accounted, IsAccount, IsSeq
<1>12. PICK n : IsList(closed, n)
  BY <1>11, PartIsList
<1> HIDE DEF closed
<1>13. \A r : Samples(port.trades \o closed, r) = Samples(port.trades, r) \o Samples(closed, r)
  BY <1>11, <1>12, SamplesJoin
<1>14. exited.perf = [r \in Regimes |-> Samples(exited.port.trades, r)]
  BY <1>10, <1>13 DEF Running
<1>15. /\ IsBookAt(m, t) /\ Accounted(m, NoPast) /\ Marked(m) /\ m.port.curve # <<>>
       /\ Len(m.port.curve) = Len(exited.port.curve) + 1
       /\ m.port.trades = exited.port.trades /\ m.perf = exited.perf /\ m.pending = exited.pending
  BY <1>6, <1>7, <1>9, <1>10, MarkWholeAccounted
<1>16. m = MarkWhole(Traded(Now, bar, t), bar, t)
  BY DEF m, exited, filled, Traded
<1> HIDE DEF m
<1>17. /\ IsBookAt(d, t) /\ Accounted(d, NoPast)
  BY <1>6, <1>7, <1>9, <1>15, DecideKeepsBook, DecideAccounted, NoPastIsPast
<1>18. /\ port' = m.port /\ perf' = m.perf /\ handled' = t /\ frame' = frame /\ setup' = setup
       /\ pending' \subseteq d.pending
  <2>1. d = DecideOnBar(m, bar, t, setup.enabled, setup.quality)
    OBVIOUS
  <2> HIDE DEF d
  <2> QED  BY <1>6, <1>16, <2>1 DEF StepOf
<1> HIDE DEF d
<1>19. /\ Run' = [f \in BookFields |-> Run'[f]] /\ Run'.pending = pending'
       /\ Run'.port = port' /\ Run'.perf = perf' /\ Run'.watermark = t
  <2>1. PICK h, queue, account, table :
           h = handled' /\ queue = pending' /\ account = port' /\ table = perf'
    OBVIOUS
  <2>2. Run' = RunBook(h, "UNKNOWN", queue, account, table)
    BY <2>1 DEF Run
  <2> QED  BY <1>18, <2>1, <2>2, RunBookFields
<1>20. IsBookAt(Run', t) /\ Accounted(Run', NoPast)
  BY <1>7, <1>15, <1>17, <1>18, <1>19 DEF IsBookAt, Accounted
<1>21. perf' = [r \in Regimes |-> Samples(port'.trades, r)]
  BY <1>14, <1>15, <1>18
<1>22. Len(port'.curve) = handled'
  BY <1>10, <1>15, <1>18 DEF Running, t
<1>23. port'.positions = {} => Last(port'.curve).equity = port'.cash
  <2>1. IsAccount(m.port)
    BY <1>15 DEF Accounted
  <2> QED  BY <1>15, <1>18, <2>1, NothingOpen DEF Marked
<1>24. Running'
  BY <1>18, <1>20, <1>21, <1>22, <1>23 DEF Running
<1>25. Framed'
  <2>1. LastBar' = LastBar
    BY <1>18 DEF LastBar
  <2> QED  BY <1>2, <1>6, <1>18, <2>1 DEF Framed, t
<1> QED  BY <1>24, <1>25

\* The end keeps what EverythingRealised says.
LEMMA FinishRealises ==
  ASSUME Framed, Running, Finish
  PROVE  Framed' /\ outcome' = "result" /\ EverythingRealised'
<1>1. /\ frame' = frame /\ setup' = setup /\ handled' = handled /\ outcome' = "result"
      /\ handled = LastBar
      /\ IF setup.closeAtEnd /\ port.positions # {}
         THEN port' = Restated(Liquidated) /\ perf' = Learnt(port, Liquidated)
         ELSE port' = port /\ perf' = perf
  BY DEF Finish
<1>2. Framed'
  <2>1. LastBar' = LastBar
    BY <1>1 DEF LastBar
  <2> QED  BY <1>1, <2>1 DEF Framed
<1>3. IsAccount(port) /\ Balanced(port, NoPast) /\ IsCurve(port.curve)
  BY RunBookFields DEF Running, Run, Accounted
<1>4. SUFFICES ASSUME setup.closeAtEnd PROVE EverythingRealised'
  BY <1>1, <1>2 DEF EverythingRealised
<1>5. /\ IsAccount(port') /\ Balanced(port', NoPast) /\ port'.positions = {}
      /\ port'.curve # <<>> => Last(port'.curve).equity = port'.cash
      /\ \A r \in Regimes : perf'[r] = Samples(port'.trades, r)
  <2>1. CASE port.positions = {}
    BY <1>1, <1>3, <2>1 DEF Running
  <2>2. CASE port.positions # {}
    <3>1. 0 < LastBar
      <4>1. PICK p : p \in port.positions
        BY <2>2
      <4>2. p.entryBar \in 1 .. handled
        BY <4>1, RunBookFields DEF Running, Run, IsBookAt, IsPosition
      <4> QED  BY <1>1, <4>2 DEF Framed
    <3>2. /\ IsAccount(Liquidated) /\ Balanced(Liquidated, NoPast)
          /\ Liquidated.positions = {} /\ Liquidated.curve = port.curve
          /\ Learnt(port, Liquidated) = [r \in Regimes |-> Samples(Liquidated.trades, r)]
      BY <3>1, LiquidatedBalanced
    <3>3. port.curve # <<>>
      BY <1>1, <3>1 DEF Running
    <3>4. PICK pf : pf = Liquidated
      OBVIOUS
    <3>5. LET c == Restated(pf)
          IN  /\ IsAccount(c) /\ Balanced(c, NoPast) /\ c.positions = {}
              /\ c.trades = pf.trades /\ Last(c.curve).equity = c.cash
      BY <1>3, <3>2, <3>3, <3>4, RestatedShowsCash
    <3>6. port' = Restated(pf) /\ perf' = [r \in Regimes |-> Samples(pf.trades, r)]
      BY <1>1, <1>4, <2>2, <3>2, <3>4
    <3> QED  BY <3>5, <3>6
  <2> QED  BY <2>1, <2>2
<1>6. port'.cash = InitialBalance + SumFunction(Profits(port'))
  <2>1. PICK pf : pf = port'
    OBVIOUS
  <2> QED  BY <1>5, <2>1, CashRealised
<1>7. SumFunction(Profits(port'))
        = SumFunction([i \in DOMAIN port'.trades |-> port'.trades[i].gross - port'.trades[i].costs])
  BY DEF Profits
<1> QED  BY <1>5, <1>6, <1>7 DEF EverythingRealised, SumOver

LEMMA BlankRun ==
  ASSUME Init
  PROVE  Framed /\ Running /\ outcome = "running"
<1>1. /\ handled = 0 /\ port = EmptyPortfolio /\ perf = [r \in Regimes |-> <<>>]
      /\ pending = {} /\ outcome = "running" /\ setup \in Setups
  BY DEF Init
<1>2. PICK n \in 0 .. MaxBars : frame \in [1 .. n -> Bars]
  BY DEF Init
<1>3. n \in Nat
  BY <1>2, BacktestAssumption
<1>4. frame \in Seq(Bars) /\ Len(frame) = n /\ n <= MaxBars
  BY <1>2, <1>3
<1>5. Framed
  <2>1. setup.maxBars \in Nat
    BY <1>1, BacktestAssumption DEF Setups
  <2>2. LastBar \in Nat /\ LastBar <= Len(frame)
    BY <1>3, <1>4, <2>1 DEF LastBar, Min2
  <2>3. DOMAIN frame = 1 .. Len(frame) /\ \A t \in 1 .. Len(frame) : frame[t] \in Bars
    BY <1>2, <1>3, <1>4
  <2> QED  BY <1>1, <1>3, <1>4, <2>2, <2>3 DEF Framed
<1>6. Reconciled(BlankBook) /\ IsBook(BlankBook)
  BY BlankBookReconciled, BlankBookIsBook
<1>7. /\ Run.port = EmptyPortfolio /\ Run.pending = {} /\ Run = [f \in BookFields |-> Run[f]]
      /\ Run.watermark = 0 /\ Run.perf = [r \in Regimes |-> <<>>]
  BY <1>1, RunBookFields DEF Run
<1>8. /\ BlankBook.port = EmptyPortfolio /\ BlankBook.pending = {} /\ BlankBook.watermark = 0
      /\ BlankBook.perf = [r \in Regimes |-> <<>>]
      /\ EmptyPortfolio.curve = <<>> /\ EmptyPortfolio.trades = <<>>
  BY DEF BlankBook, EmptyPortfolio
<1>9. IsBookAt(Run, 0) /\ Accounted(Run, NoPast)
  BY <1>6, <1>7, <1>8 DEF Reconciled, Accounted, IsBook, IsBookAt
<1>10. Running
  BY <1>1, <1>8, <1>9, NoSamples DEF Running
<1> QED  BY <1>1, <1>5, <1>10

\* However a backtest goes, with close_positions_at_end its result holds no position, its
\* last equity is its cash, that cash is the starting balance with the gross and the
\* costs of the trades, and the selector has learnt from each of these (_close_all).
THEOREM EverythingIsRealised == Spec => []EverythingRealised
<1>1. Init => Sound
  BY BlankRun DEF Sound, EverythingRealised
<1>2. Sound /\ [Next]_bvars => Sound'
  <2> SUFFICES ASSUME Sound, [Next]_bvars PROVE Sound'
    OBVIOUS
  <2>1. CASE HandleBar
    <3>1. outcome = "running" /\ outcome' # "result"
      BY <2>1 DEF HandleBar
    <3> QED  BY <2>1, <3>1, HandlingIsSound DEF Sound, EverythingRealised
  <2>2. CASE Finish
    <3>1. outcome = "running"
      BY <2>2 DEF Finish
    <3> QED  BY <2>2, <3>1, FinishRealises DEF Sound
  <2>3. CASE UNCHANGED bvars
    <3>1. /\ frame' = frame /\ setup' = setup /\ handled' = handled /\ port' = port
          /\ perf' = perf /\ pending' = pending /\ outcome' = outcome
      BY <2>3 DEF bvars
    <3>2. LastBar' = LastBar
      BY <3>1 DEF LastBar
    <3>3. Framed' = Framed
      BY <3>1, <3>2 DEF Framed
    <3>4. Run' = Run
      BY <3>1 DEF Run
    <3>5. Running' = Running
      BY <3>1, <3>4 DEF Running
    <3>6. EverythingRealised' = EverythingRealised
      BY <3>1 DEF EverythingRealised, SumOver
    <3> QED  BY <3>1, <3>3, <3>5, <3>6 DEF Sound
  <2> QED  BY <2>1, <2>2, <2>3 DEF Next
<1>3. Sound => EverythingRealised
  BY DEF Sound
<1> QED  BY <1>1, <1>2, <1>3, PTL DEF Spec

---------------------------------------------------------------------------
(* Two numberings of the bars.  The paper engine counts a bar before it fills orders, *)
(* the backtester after it: every entry of the one is one more than the other's.      *)

Renumbered(p) == [p EXCEPT !.entryIndex = @ + 1]
RenumberedAll(ps) == {Renumbered(p) : p \in ps}

\* A position with a number.
IsNumbered(p) == p = [f \in PositionFields |-> p[f]] /\ p.entryIndex \in Int

LEMMA RenumberedFields ==
  ASSUME NEW p, IsNumbered(p)
  PROVE  LET q == Renumbered(p)
         IN  /\ \A f \in PositionFields : f # "entryIndex" => q[f] = p[f]
             /\ q.entryIndex = p.entryIndex + 1 /\ IsNumbered(q)
             /\ [q EXCEPT !.entryIndex = 0] = [p EXCEPT !.entryIndex = 0]
<1> DEFINE q == Renumbered(p)
<1>1. /\ DOMAIN p = PositionFields /\ p.entryIndex \in Int
  BY DEF IsNumbered
<1>2. /\ "entryIndex" \in PositionFields
  BY DEF PositionFields
<1>3. q = [f \in PositionFields |-> IF f = "entryIndex" THEN p.entryIndex + 1 ELSE p[f]]
  BY <1>1, <1>2 DEF Renumbered, IsNumbered
<1> HIDE DEF q
<1>4. /\ \A f \in PositionFields : f # "entryIndex" => q[f] = p[f]
      /\ q.entryIndex = p.entryIndex + 1 /\ q = [f \in PositionFields |-> q[f]]
  BY <1>2, <1>3
<1>5. IsNumbered(q)
  BY <1>1, <1>4 DEF IsNumbered
<1>6. [q EXCEPT !.entryIndex = 0] = [p EXCEPT !.entryIndex = 0]
  BY <1>1, <1>3, <1>4
<1> QED  BY <1>4, <1>5, <1>6 DEF q

\* All but the number of the entry, by name.
LEMMA RenumberedRest ==
  ASSUME NEW p, IsNumbered(p)
  PROVE  LET q == Renumbered(p)
         IN  /\ q.symbol = p.symbol /\ q.strategy = p.strategy /\ q.dir = p.dir /\ q.qty = p.qty
             /\ q.entry = p.entry /\ q.entryBar = p.entryBar /\ q.stop = p.stop
             /\ q.target = p.target /\ q.regime = p.regime /\ q.entryCosts = p.entryCosts
             /\ q.risk = p.risk /\ q.low = p.low /\ q.high = p.high /\ q.queuedOn = p.queuedOn
  BY RenumberedFields DEF PositionFields

\* Renumbering a set of positions renames its members.
LEMMA RenumberedNames ==
  ASSUME NEW ps, OnePerBar(ps), \A p \in ps : IsNumbered(p)
  PROVE  /\ OnePerBar(RenumberedAll(ps))
         /\ Cardinality(RenumberedAll(ps)) = Cardinality(ps)
         /\ \A p, q \in ps : Renumbered(p) = Renumbered(q) => p = q
<1> DEFINE m == [p \in ps |-> Renumbered(p)]
           qs == RenumberedAll(ps)
<1>1. \A p, q \in ps : Renumbered(p) = Renumbered(q) => p = q
  BY RenumberedRest DEF OnePerBar
<1>2. m \in Bijection(ps, qs)
  <2>1. m \in [ps -> qs] /\ \A q \in qs : \E p \in ps : m[p] = q
    BY DEF RenumberedAll
  <2>2. \A p, q \in ps : m[p] = m[q] => p = q
    BY <1>1
  <2> HIDE DEF m, qs
  <2> QED  BY <2>1, <2>2 DEF Bijection, Injection, Surjection, IsInjective
<1> HIDE DEF m
<1>3. IsFiniteSet(qs) /\ Cardinality(qs) = Cardinality(ps)
  <2>1. IsFiniteSet(ps) /\ ExistsBijection(ps, qs)
    BY <1>2 DEF OnePerBar, ExistsBijection
  <2> HIDE DEF qs
  <2> QED  BY <2>1, FS_Bijection
<1>4. OnePerBar(qs)
  BY <1>3, RenumberedRest DEF OnePerBar, RenumberedAll
<1> QED  BY <1>1, <1>3, <1>4

\* A sum over the positions does not depend on the numbering.
LEMMA RenumberedSum ==
  ASSUME NEW ps, OnePerBar(ps), \A p \in ps : IsNumbered(p),
         NEW f, DOMAIN f = ps, NEW g, DOMAIN g = RenumberedAll(ps),
         \A p \in ps : f[p] \in Int /\ g[Renumbered(p)] = f[p]
  PROVE  SumFunction(f) = SumFunction(g)
<1> DEFINE m == [p \in ps |-> Renumbered(p)]
<1>1. /\ \A x \in DOMAIN f : m[x] \in DOMAIN g /\ f[x] = g[m[x]]
      /\ \A y \in DOMAIN g : \E x \in DOMAIN f : m[x] = y
      /\ \A y \in DOMAIN g : g[y] \in Int
  BY DEF RenumberedAll
<1>2. \A x, y \in DOMAIN f : m[x] = m[y] => x = y
  BY RenumberedNames
<1>3. IsFiniteSet(DOMAIN f)
  BY DEF OnePerBar
<1>4. PICK n : n = m
  OBVIOUS
<1> HIDE DEF m
<1> QED  BY ONLY <1>1, <1>2, <1>3, <1>4, SumRenamed

\* Nor does their order: two lists of one set, both oldest first, are one list.
LEMMA RenumberedOrder ==
  ASSUME NEW ps, OnePerBar(ps), \A p \in ps : IsNumbered(p),
         NEW i \in 1 .. Cardinality(ps)
  PROVE  OldestFirst(RenumberedAll(ps))[i] = Renumbered(OldestFirst(ps)[i])
<1> DEFINE qs == RenumberedAll(ps)
           n == Cardinality(ps)
           q == OldestFirst(qs)
           o == OldestFirst(ps)
           bad == {k \in 1 .. n : q[k] # Renumbered(o[k])}
<1>1. OnePerBar(qs) /\ Cardinality(qs) = n /\ \A x, y \in ps : Renumbered(x) = Renumbered(y) => x = y
  BY RenumberedNames
<1>2. /\ DOMAIN o = 1 .. n /\ n \in Nat
      /\ \A k \in 1 .. n : o[k] \in ps
      /\ \A j, k \in 1 .. n : o[j] = o[k] => j = k
      /\ \A p \in ps : \E k \in 1 .. n : o[k] = p
      /\ \A j, k \in 1 .. n : j < k => o[j].entryBar < o[k].entryBar
  BY OldestFirstLists
<1>3. /\ \A k \in 1 .. n : q[k] \in qs
      /\ \A j, k \in 1 .. n : q[j] = q[k] => j = k
      /\ \A p \in qs : \E k \in 1 .. n : q[k] = p
      /\ \A j, k \in 1 .. n : j < k => q[j].entryBar < q[k].entryBar
  <2>1. PICK s : s = qs
    OBVIOUS
  <2> HIDE DEF qs, n
  <2> QED  BY <1>1, <2>1, OldestFirstLists
<1> DEFINE r == [k \in 1 .. n |-> Renumbered(o[k])]
<1>4. /\ \A k \in 1 .. n : r[k] \in qs /\ r[k].entryBar = o[k].entryBar
      /\ \A p \in qs : \E k \in 1 .. n : r[k] = p
      /\ \A j, k \in 1 .. n : r[j] = r[k] => j = k
  BY <1>1, <1>2, RenumberedRest DEF RenumberedAll
<1>5. /\ \A j, k \in 1 .. n : j < k => r[j].entryBar < r[k].entryBar
      /\ \A k \in 1 .. n : r[k].entryBar \in Nat /\ q[k].entryBar \in Nat
  BY <1>1, <1>2, <1>3, <1>4 DEF OnePerBar
<1>6. \A k \in 1 .. n : r[k] = Renumbered(o[k])
  OBVIOUS
<1> HIDE DEF r, q, o, qs, n
<1>7. bad = {}
  <2> SUFFICES ASSUME bad # {} PROVE FALSE
    OBVIOUS
  <2>1. bad \in SUBSET Nat
    OBVIOUS
  <2>2. PICK k \in bad : \A j \in bad : k <= j
    <3> HIDE DEF bad
    <3> QED  BY <2>1, LeastNumber
  <2>3. k \in 1 .. n /\ q[k] # r[k] /\ \A j \in 1 .. n : j < k => q[j] = r[j]
    BY <1>6, <2>2
  <2>4. PICK j \in 1 .. n : q[j] = r[k]
    BY <1>3, <1>4, <2>3
  <2>5. PICK l \in 1 .. n : r[l] = q[k]
    BY <1>3, <1>4, <2>3
  <2>6. k < j
    <3>1. j # k
      BY <2>3, <2>4
    <3>2. ~ (j < k)
      BY <1>4, <2>3, <2>4
    <3> QED  BY <2>3, <3>1, <3>2
  <2>7. k < l
    <3>1. l # k
      BY <2>3, <2>5
    <3>2. ~ (l < k)
      BY <1>3, <2>3, <2>5
    <3> QED  BY <2>3, <3>1, <3>2
  <2>8. q[k].entryBar < r[k].entryBar
    BY <1>3, <2>3, <2>4, <2>6
  <2>9. r[k].entryBar < q[k].entryBar
    BY <1>5, <2>3, <2>5, <2>7
  <2>10. q[k].entryBar \in Nat /\ r[k].entryBar \in Nat
    BY <1>5, <2>3
  <2> QED  BY <2>8, <2>9, <2>10
<1> QED  BY <1>7 DEF q, o, qs, n

---------------------------------------------------------------------------
(* Two accounts alike but for the numbering and the exit regimes *)

WithoutRegime(x) == [x EXCEPT !.exitRegime = "UNKNOWN"]

AlikeTrades(x, y) ==
  /\ DOMAIN x = DOMAIN y
  /\ \A i \in DOMAIN x : WithoutRegime(x[i]) = WithoutRegime(y[i])

Alike(a, b) ==
  /\ IsPortfolio(a) /\ IsPortfolio(b)
  /\ OnePerBar(a.positions) /\ \A p \in a.positions : IsNumbered(p)
  /\ b.positions = RenumberedAll(a.positions)
  /\ b.cash = a.cash /\ b.realised = a.realised /\ b.costs = a.costs /\ b.curve = a.curve
  /\ b.peak = a.peak /\ b.dayStart = a.dayStart /\ b.day = a.day
  /\ AlikeTrades(a.trades, b.trades)

\* open_position with the same position under the two numbers.
LEMMA OpenAlike ==
  ASSUME NEW a, NEW b, Alike(a, b), NEW p, IsNumbered(p), p.entryBar \in Nat,
         \A q \in a.positions : q.entryBar # p.entryBar
  PROVE  Alike(OpenPosition(a, p), OpenPosition(b, Renumbered(p)))
<1> DEFINE c == OpenPosition(a, p)
           d == OpenPosition(b, Renumbered(p))
<1>1. /\ IsPortfolio(c) /\ IsPortfolio(d) /\ c.positions = a.positions \cup {p}
      /\ d.positions = b.positions \cup {Renumbered(p)}
  BY OpenPositionKeepsPortfolio DEF Alike
<1>2. /\ c.cash = a.cash - p.entryCosts /\ c.costs = a.costs + p.entryCosts
      /\ c.realised = a.realised /\ c.trades = a.trades /\ c.curve = a.curve
      /\ c.peak = a.peak /\ c.dayStart = a.dayStart /\ c.day = a.day
  BY BookFieldsAre DEF OpenPosition, Alike, IsPortfolio
<1>3. /\ d.cash = b.cash - p.entryCosts /\ d.costs = b.costs + p.entryCosts
      /\ d.realised = b.realised /\ d.trades = b.trades /\ d.curve = b.curve
      /\ d.peak = b.peak /\ d.dayStart = b.dayStart /\ d.day = b.day
  BY BookFieldsAre, RenumberedRest DEF OpenPosition, Alike, IsPortfolio
<1> HIDE DEF c, d
<1>4. OnePerBar(c.positions)
  BY <1>1, FS_AddElement DEF OnePerBar, Alike
<1>5. d.positions = RenumberedAll(c.positions)
  BY <1>1 DEF RenumberedAll, Alike
<1>6. Alike(c, d)
  BY <1>1, <1>2, <1>3, <1>4, <1>5 DEF Alike
<1> QED  BY <1>6 DEF c, d

\* The trade a position leaves differs in the exit regime alone.
LEMMA TradeOfAlike ==
  ASSUME NEW p, IsNumbered(p), NEW exit, NEW t, NEW index \in Int, NEW r1, NEW r2
  PROVE  LET x == TradeOf(p, exit, t, index, r1)
             y == TradeOf(Renumbered(p), exit, t, index + 1, r2)
         IN  /\ WithoutRegime(x) = WithoutRegime(y)
             /\ x.regime = y.regime /\ x.risk = y.risk /\ x.net = y.net
<1> DEFINE q == Renumbered(p)
           x == TradeOf(p, exit, t, index, r1)
           y == TradeOf(q, exit, t, index + 1, r2)
<1>1. /\ q.symbol = p.symbol /\ q.strategy = p.strategy /\ q.dir = p.dir /\ q.qty = p.qty
      /\ q.entry = p.entry /\ q.entryBar = p.entryBar /\ q.stop = p.stop
      /\ q.target = p.target /\ q.regime = p.regime /\ q.entryCosts = p.entryCosts
      /\ q.risk = p.risk /\ q.low = p.low /\ q.high = p.high /\ q.queuedOn = p.queuedOn
  BY RenumberedRest
<1>2. q.entryIndex = p.entryIndex + 1 /\ p.entryIndex \in Int
  BY RenumberedFields DEF IsNumbered
<1> HIDE DEF q
<1>3. (index + 1) - q.entryIndex = index - p.entryIndex
  BY <1>2
<1>4. GrossPnl(q, exit) = GrossPnl(p, exit) /\ NetPnl(q, exit) = NetPnl(p, exit)
  BY <1>1 DEF GrossPnl, NetPnl
<1>5. y = TradeOf(p, exit, t, index, r2)
  BY <1>1, <1>3, <1>4 DEF TradeOf
<1>6. /\ WithoutRegime(x) = TradeOf(p, exit, t, index, "UNKNOWN")
      /\ WithoutRegime(y) = TradeOf(p, exit, t, index, "UNKNOWN")
  BY <1>5 DEF TradeOf, WithoutRegime
<1>7. x.regime = y.regime /\ x.risk = y.risk /\ x.net = y.net
  BY <1>5 DEF TradeOf
<1> QED  BY <1>6, <1>7 DEF q

\* Lists of trades with the same entry regimes, risks and results have the same samples.
LEMMA SamplesAlike ==
  ASSUME NEW n \in Nat, NEW x, IsList(x, n), NEW y, IsList(y, n), NEW r,
         \A i \in 1 .. n : x[i].regime = y[i].regime /\ x[i].risk = y[i].risk /\ x[i].net = y[i].net
  PROVE  Samples(x, r) = Samples(y, r)
<1>1. Len(x) = n /\ Len(y) = n
  <2>1. ASSUME NEW z, IsList(z, n) PROVE Len(z) = n
    <3>1. PICK X : X = {z[i] : i \in 1 .. n}
      OBVIOUS
    <3>2. z = [i \in 1 .. n |-> z[i]] /\ \A i \in 1 .. n : z[i] \in X
      BY <2>1, <3>1 DEF IsList
    <3>3. z \in [1 .. n -> X]
      BY ONLY <3>2
    <3> QED  BY <3>3
  <2> QED  BY <2>1
<1>2. PICK g : Taken(x, r, n, g) /\ Samples(x, r) = g[n]
  BY <1>1, SamplesAreTaken
<1>3. PICK h : Taken(y, r, n, h) /\ Samples(y, r) = h[n]
  BY <1>1, SamplesAreTaken
<1> DEFINE P == {k \in 0 .. n : g[k] = h[k]}
<1>4. 0 \in P
  BY <1>2, <1>3, TakenStep
<1>5. ASSUME NEW k \in 1 .. n, k - 1 \in P
      PROVE  k \in P
  <2>1. /\ g[k] = IF x[k].regime = r /\ x[k].risk > 0 THEN Append(g[k - 1], SampleOf(x[k])) ELSE g[k - 1]
        /\ h[k] = IF y[k].regime = r /\ y[k].risk > 0 THEN Append(h[k - 1], SampleOf(y[k])) ELSE h[k - 1]
    BY <1>2, <1>3, TakenStep
  <2>2. SampleOf(x[k]) = SampleOf(y[k])
    BY DEF SampleOf
  <2> QED  BY <1>5, <2>1, <2>2
<1> HIDE DEF P
<1>6. \A k \in 0 .. n : k \in P
  BY <1>4, <1>5, UpTo
<1>7. n \in P
  BY <1>6
<1> QED  BY <1>2, <1>3, <1>7 DEF P

\* The trades closed since the list was old.
Since(new, old) == SubSeq(new, Len(old) + 1, Len(new))

LEMMA ClosedList ==
  ASSUME NEW pf, IsAccount(pf), NEW exits, DOMAIN exits \subseteq pf.positions,
         NEW t, NEW index, NEW regime
  PROVE  LET c == ClosePositions(pf, exits, t, index, regime)
             n == Cardinality(DOMAIN exits)
             m == Len(pf.trades)
         IN  /\ m \in Nat /\ n \in Nat /\ DOMAIN pf.trades = 1 .. m /\ DOMAIN c.trades = 1 .. m + n
             /\ IsList(Since(c.trades, pf.trades), n)
             /\ \A i \in 1 .. m : c.trades[i] = pf.trades[i]
             /\ \A i \in 1 .. n : LET p == OldestFirst(DOMAIN exits)[i]
                                  IN  /\ p \in DOMAIN exits
                                      /\ c.trades[m + i] = TradeOf(p, exits[p], t, index, regime)
                                      /\ Since(c.trades, pf.trades)[i] = c.trades[m + i]
<1> DEFINE c == ClosePositions(pf, exits, t, index, regime)
           n == Cardinality(DOMAIN exits)
           m == Len(pf.trades)
           new == Since(c.trades, pf.trades)
<1>1. ClosedBehind(c.trades, pf.trades, exits, t, index, regime, m, n)
  BY ClosedTrades
<1> HIDE DEF c
<1>2. /\ m \in Nat /\ n \in Nat /\ IsSeq(c.trades)
      /\ DOMAIN c.trades = 1 .. m + n /\ DOMAIN pf.trades = 1 .. m
      /\ \A i \in 1 .. m : c.trades[i] = pf.trades[i]
      /\ \A i \in 1 .. n : LET p == OldestFirst(DOMAIN exits)[i]
                           IN  p \in DOMAIN exits /\ c.trades[m + i] = TradeOf(p, exits[p], t, index, regime)
      /\ c.trades = pf.trades \o new
  BY <1>1 DEF ClosedBehind, Since
<1>a. m \in Nat /\ n \in Nat
  BY <1>2
<1>3. PICK k : IsList(new, k)
  BY <1>2, PartIsList DEF Since
<1>b. k \in Nat
  BY <1>3 DEF IsList
<1>4. IsSeq(pf.trades)
  BY DEF IsAccount
<1> HIDE DEF new, n
<1>5. Joined(pf.trades, new, k, pf.trades \o new)
  BY <1>3, <1>4, Appended
<1>6. /\ DOMAIN c.trades = 1 .. m + k /\ \A i \in 1 .. k : c.trades[m + i] = new[i] /\ k \in Nat
  BY <1>2, <1>3, <1>5 DEF Joined, IsList
<1> HIDE DEF m
<1>7. k = n
  <2>1. 1 .. m + k = 1 .. m + n
    BY <1>2, <1>6
  <2>2. m \in Nat /\ k \in Nat /\ n \in Nat
    BY <1>a, <1>b
  <2>3. k > 0 => m + k \in 1 .. m + k
    BY <2>2
  <2>4. n > 0 => m + n \in 1 .. m + n
    BY <2>2
  <2>5. (k > 0 => k <= n) /\ (n > 0 => n <= k)
    BY <2>1, <2>2, <2>3, <2>4
  <2> QED  BY ONLY <2>2, <2>5
<1> QED  BY <1>2, <1>3, <1>6, <1>7 DEF c, new, n, m

\* What close_position leaves of two accounts: they are alike, and the selector learns
\* the same from either.
ClosedAlike(a, b, exits, others, t, index, r1, r2) ==
  LET c == ClosePositions(a, exits, t, index, r1)
      d == ClosePositions(b, others, t, index + 1, r2)
  IN  /\ Alike(c, d)
      /\ \A r : Samples(Since(c.trades, a.trades), r) = Samples(Since(d.trades, b.trades), r)

\* close_position of the same positions with the same fills, oldest first.
LEMMA CloseAlike ==
  ASSUME NEW a, NEW b, Alike(a, b), IsAccount(a), IsAccount(b),
         NEW exits, DOMAIN exits \subseteq a.positions,
         NEW others, DOMAIN others = RenumberedAll(DOMAIN exits),
         \A p \in DOMAIN exits : others[Renumbered(p)] = exits[p]
                                 /\ exits[p].price \in Int /\ exits[p].cost \in Int,
         NEW t, NEW index \in Int, NEW r1, NEW r2
  PROVE  ClosedAlike(a, b, exits, others, t, index, r1, r2)
<1> DEFINE ps == DOMAIN exits
           qs == DOMAIN others
           c == ClosePositions(a, exits, t, index, r1)
           d == ClosePositions(b, others, t, index + 1, r2)
           n == Cardinality(ps)
           m == Len(a.trades)
<1>1. OnePerBar(ps) /\ \A p \in ps : IsNumbered(p) /\ IsLot(p)
  BY FS_Subset DEF OnePerBar, Alike, IsAccount
<1>2. /\ \A p, q \in a.positions : Renumbered(p) = Renumbered(q) => p = q
      /\ Cardinality(qs) = n
  BY <1>1, RenumberedNames DEF Alike
<1>3. qs \subseteq b.positions
  BY DEF Alike, RenumberedAll
<1>4. IsPortfolio(c) /\ IsPortfolio(d) /\ c.positions = a.positions \ ps /\ d.positions = b.positions \ qs
  BY ClosePositionsKeepsPortfolio DEF Alike
<1>5. d.positions = RenumberedAll(c.positions)
  <2>1. b.positions = RenumberedAll(a.positions) /\ qs = RenumberedAll(ps) /\ ps \subseteq a.positions
    BY DEF Alike
  <2> HIDE DEF c, d, ps, qs
  <2> QED  BY <1>2, <1>4, <2>1 DEF RenumberedAll
<1>6. OnePerBar(c.positions) /\ \A p \in c.positions : IsNumbered(p)
  BY <1>4, FS_Subset DEF OnePerBar, Alike
<1> DEFINE nets == [p \in ps |-> NetPnl(p, exits[p])]
           nets2 == [p \in qs |-> NetPnl(p, others[p])]
           costs == [p \in ps |-> exits[p].cost]
           costs2 == [p \in qs |-> others[p].cost]
<1>7. \A p \in ps : NetPnl(Renumbered(p), exits[p]) = NetPnl(p, exits[p]) /\ NetPnl(p, exits[p]) \in Int
  <2> SUFFICES ASSUME NEW p \in ps
               PROVE  NetPnl(Renumbered(p), exits[p]) = NetPnl(p, exits[p]) /\ NetPnl(p, exits[p]) \in Int
    OBVIOUS
  <2>1. NetPnl(p, exits[p]) \in Int
    BY <1>1, ClosingAmounts
  <2>2. NetPnl(Renumbered(p), exits[p]) = NetPnl(p, exits[p])
    BY <1>1, RenumberedRest DEF NetPnl, GrossPnl
  <2> QED  BY <2>1, <2>2
<1>8. /\ DOMAIN nets = ps /\ DOMAIN nets2 = RenumberedAll(ps)
      /\ \A p \in ps : nets[p] \in Int /\ nets2[Renumbered(p)] = nets[p]
      /\ DOMAIN costs = ps /\ DOMAIN costs2 = RenumberedAll(ps)
      /\ \A p \in ps : costs[p] \in Int /\ costs2[Renumbered(p)] = costs[p]
  BY <1>7 DEF RenumberedAll
<1>9. SumFunction(nets) = SumFunction(nets2) /\ SumFunction(costs) = SumFunction(costs2)
  <2> HIDE DEF nets, nets2, costs, costs2, ps
  <2> QED  BY <1>1, <1>8, RenumberedSum
<1>10. /\ c.cash = a.cash + SumFunction(nets) /\ c.realised = a.realised + SumFunction(nets)
       /\ c.costs = a.costs + SumFunction(costs) /\ c.curve = a.curve
       /\ c.peak = a.peak /\ c.dayStart = a.dayStart /\ c.day = a.day
  BY BookFieldsAre DEF ClosePositions, Alike, IsPortfolio
<1>11. /\ d.cash = b.cash + SumFunction(nets2) /\ d.realised = b.realised + SumFunction(nets2)
       /\ d.costs = b.costs + SumFunction(costs2) /\ d.curve = b.curve
       /\ d.peak = b.peak /\ d.dayStart = b.dayStart /\ d.day = b.day
  BY BookFieldsAre DEF ClosePositions, Alike, IsPortfolio
<1> HIDE DEF nets, nets2, costs, costs2
<1>12. /\ m \in Nat /\ n \in Nat /\ DOMAIN a.trades = 1 .. m /\ DOMAIN c.trades = 1 .. m + n
       /\ IsList(Since(c.trades, a.trades), n)
       /\ \A i \in 1 .. m : c.trades[i] = a.trades[i]
       /\ \A i \in 1 .. n : LET p == OldestFirst(ps)[i]
                            IN  /\ p \in ps
                                /\ c.trades[m + i] = TradeOf(p, exits[p], t, index, r1)
                                /\ Since(c.trades, a.trades)[i] = c.trades[m + i]
  BY ClosedList
<1>13. Len(b.trades) = m
  <2>1. DOMAIN b.trades = 1 .. Len(b.trades) /\ Len(b.trades) \in Nat
    BY DEF IsAccount, IsSeq
  <2>2. DOMAIN b.trades = 1 .. m
    BY <1>12 DEF Alike, AlikeTrades
  <2> HIDE DEF m
  <2> QED  BY <1>12, <2>1, <2>2
<1>14. /\ DOMAIN b.trades = 1 .. m /\ DOMAIN d.trades = 1 .. m + n
       /\ IsList(Since(d.trades, b.trades), n)
       /\ \A i \in 1 .. m : d.trades[i] = b.trades[i]
       /\ \A i \in 1 .. n : LET p == OldestFirst(qs)[i]
                            IN  /\ p \in qs
                                /\ d.trades[m + i] = TradeOf(p, others[p], t, index + 1, r2)
                                /\ Since(d.trades, b.trades)[i] = d.trades[m + i]
  <2>1. PICK k : k = index + 1
    OBVIOUS
  <2>2. d = ClosePositions(b, others, t, k, r2)
    BY <2>1
  <2>3. PICK e, l : e = d /\ l = Len(b.trades)
    OBVIOUS
  <2> HIDE DEF d
  <2>4. k \in Int /\ e = ClosePositions(b, others, t, k, r2)
    BY <2>1, <2>2, <2>3
  <2>5. LET j == Cardinality(DOMAIN others)
        IN  /\ DOMAIN b.trades = 1 .. l /\ DOMAIN e.trades = 1 .. l + j
            /\ IsList(Since(e.trades, b.trades), j)
            /\ \A i \in 1 .. l : e.trades[i] = b.trades[i]
            /\ \A i \in 1 .. j : LET p == OldestFirst(DOMAIN others)[i]
                                 IN  /\ p \in DOMAIN others
                                     /\ e.trades[l + i] = TradeOf(p, others[p], t, k, r2)
                                     /\ Since(e.trades, b.trades)[i] = e.trades[l + i]
    BY <1>3, <2>3, <2>4, ClosedList
  <2> HIDE DEF qs
  <2>6. l = m /\ Cardinality(DOMAIN others) = n /\ qs = DOMAIN others
    BY <1>2, <1>13, <2>3 DEF qs
  <2> QED  BY <2>1, <2>3, <2>5, <2>6
<1> HIDE DEF c, d
<1>15. \A i \in 1 .. n : /\ WithoutRegime(c.trades[m + i]) = WithoutRegime(d.trades[m + i])
                         /\ c.trades[m + i].regime = d.trades[m + i].regime
                         /\ c.trades[m + i].risk = d.trades[m + i].risk
                         /\ c.trades[m + i].net = d.trades[m + i].net
  <2> SUFFICES ASSUME NEW i \in 1 .. n
               PROVE  /\ WithoutRegime(c.trades[m + i]) = WithoutRegime(d.trades[m + i])
                      /\ c.trades[m + i].regime = d.trades[m + i].regime
                      /\ c.trades[m + i].risk = d.trades[m + i].risk
                      /\ c.trades[m + i].net = d.trades[m + i].net
    OBVIOUS
  <2>1. PICK p : p = OldestFirst(ps)[i]
    OBVIOUS
  <2>2. p \in ps /\ c.trades[m + i] = TradeOf(p, exits[p], t, index, r1)
    BY <1>12, <2>1
  <2>3. OldestFirst(qs)[i] = Renumbered(p)
    BY <1>1, <2>1, RenumberedOrder
  <2>4. d.trades[m + i] = TradeOf(Renumbered(p), exits[p], t, index + 1, r2)
    BY <1>14, <2>2, <2>3
  <2> HIDE DEF n, m, ps
  <2> QED  BY <1>1, <2>2, <2>4, TradeOfAlike
<1>16. AlikeTrades(c.trades, d.trades)
  <2>1. \A i \in 1 .. m : WithoutRegime(c.trades[i]) = WithoutRegime(d.trades[i])
    BY <1>12, <1>14 DEF Alike, AlikeTrades
  <2>2. \A i \in 1 .. m + n : i \in 1 .. m \/ \E k \in 1 .. n : i = m + k
    <3> SUFFICES ASSUME NEW i \in 1 .. m + n, i \notin 1 .. m PROVE \E k \in 1 .. n : i = m + k
      OBVIOUS
    <3> HIDE DEF m, n
    <3>1. i - m \in 1 .. n /\ i = m + (i - m)
      BY <1>12
    <3> QED  BY <3>1
  <2>3. DOMAIN c.trades = 1 .. m + n /\ DOMAIN d.trades = 1 .. m + n
    BY <1>12, <1>14
  <2> HIDE DEF m, n
  <2>4. ASSUME NEW i \in 1 .. m + n PROVE WithoutRegime(c.trades[i]) = WithoutRegime(d.trades[i])
    <3>1. CASE i \in 1 .. m
      BY <2>1, <3>1
    <3>2. CASE i \notin 1 .. m
      <4>1. PICK k \in 1 .. n : i = m + k
        BY <2>2, <3>2
      <4> QED  BY <1>15, <4>1
    <3> QED  BY <3>1, <3>2
  <2> QED  BY <2>3, <2>4 DEF AlikeTrades
<1>17. \A r : Samples(Since(c.trades, a.trades), r) = Samples(Since(d.trades, b.trades), r)
  <2>1. PICK x, y : x = Since(c.trades, a.trades) /\ y = Since(d.trades, b.trades)
    OBVIOUS
  <2>2. \A i \in 1 .. n : x[i].regime = y[i].regime /\ x[i].risk = y[i].risk /\ x[i].net = y[i].net
    BY <1>12, <1>14, <1>15, <2>1
  <2>3. n \in Nat /\ IsList(x, n) /\ IsList(y, n)
    BY <1>12, <1>14, <2>1
  <2> HIDE DEF n
  <2> QED  BY <2>1, <2>2, <2>3, SamplesAlike
<1>18. Alike(c, d)
  BY <1>4, <1>5, <1>6, <1>9, <1>10, <1>11, <1>16 DEF Alike
<1> QED  BY <1>17, <1>18 DEF c, d, ClosedAlike

\* track_excursions on both.
LEMMA TrackAlike ==
  ASSUME NEW a, NEW b, Alike(a, b), IsAccount(a), NEW bar \in Bars
  PROVE  Alike(TrackExcursions(a, bar), TrackExcursions(b, bar))
<1> DEFINE c == TrackExcursions(a, bar)
           d == TrackExcursions(b, bar)
<1>1. /\ IsPortfolio(c) /\ c.positions = {TrackPosition(p, bar) : p \in a.positions}
      /\ c.cash = a.cash /\ c.realised = a.realised /\ c.costs = a.costs /\ c.curve = a.curve
      /\ c.peak = a.peak /\ c.dayStart = a.dayStart /\ c.day = a.day /\ c.trades = a.trades
  BY BookFieldsAre DEF TrackExcursions, Alike, IsPortfolio
<1>2. /\ IsPortfolio(d) /\ d.positions = {TrackPosition(p, bar) : p \in b.positions}
      /\ d.cash = b.cash /\ d.realised = b.realised /\ d.costs = b.costs /\ d.curve = b.curve
      /\ d.peak = b.peak /\ d.dayStart = b.dayStart /\ d.day = b.day /\ d.trades = b.trades
  BY BookFieldsAre DEF TrackExcursions, Alike, IsPortfolio
<1> HIDE DEF c, d
<1>3. ASSUME NEW p, IsNumbered(p)
      PROVE  /\ IsNumbered(TrackPosition(p, bar)) /\ TrackPosition(p, bar).entryBar = p.entryBar
             /\ TrackPosition(Renumbered(p), bar) = Renumbered(TrackPosition(p, bar))
  <2> DEFINE low == Min2(p.low, bar.low)
             high == Max2(p.high, bar.high)
             q == TrackPosition(p, bar)
             r == Renumbered(p)
  <2>1. q = [f \in PositionFields |-> IF f = "low" THEN low ELSE IF f = "high" THEN high ELSE p[f]]
    BY <1>3 DEF TrackPosition, IsNumbered, PositionFields
  <2>2. IsNumbered(q) /\ q.entryBar = p.entryBar /\ q.entryIndex = p.entryIndex
    <3> HIDE DEF q
    <3> QED  BY <1>3, <2>1 DEF IsNumbered, PositionFields
  <2>3. /\ IsNumbered(r) /\ r.low = p.low /\ r.high = p.high
        /\ \A f \in PositionFields : r[f] = IF f = "entryIndex" THEN p.entryIndex + 1 ELSE p[f]
    BY <1>3, RenumberedFields, RenumberedRest
  <2> HIDE DEF r
  <2>4. TrackPosition(r, bar) = [f \in PositionFields |->
            IF f = "low" THEN low ELSE IF f = "high" THEN high ELSE r[f]]
    BY <2>3 DEF TrackPosition, IsNumbered, PositionFields
  <2> HIDE DEF q, low, high
  <2>5. Renumbered(q) = [f \in PositionFields |-> IF f = "entryIndex" THEN q.entryIndex + 1 ELSE q[f]]
    BY <2>2 DEF Renumbered, IsNumbered, PositionFields
  <2>6. \A f \in PositionFields : TrackPosition(r, bar)[f] = Renumbered(q)[f]
    BY <2>1, <2>2, <2>3, <2>4, <2>5
  <2>7. TrackPosition(r, bar) = Renumbered(q)
    BY <2>4, <2>5, <2>6
  <2> QED  BY <2>2, <2>7 DEF q, r
<1>4. \A p \in c.positions : IsNumbered(p)
  BY <1>1, <1>3 DEF Alike
<1>5. d.positions = RenumberedAll(c.positions)
  <2>1. b.positions = RenumberedAll(a.positions)
    BY DEF Alike
  <2>2. \A p \in a.positions : TrackPosition(Renumbered(p), bar) = Renumbered(TrackPosition(p, bar))
    BY <1>3 DEF Alike
  <2> QED  BY <1>1, <1>2, <2>1, <2>2 DEF RenumberedAll
<1>6. OnePerBar(c.positions)
  <2>1. IsFiniteSet(c.positions)
    BY <1>1, TrackedSetNoLarger DEF Alike, OnePerBar
  <2>2. \A p \in a.positions : TrackPosition(p, bar).entryBar = p.entryBar
    BY <1>3 DEF Alike
  <2> QED  BY <1>1, <2>1, <2>2 DEF Alike, OnePerBar
<1>7. Alike(c, d)
  BY <1>1, <1>2, <1>4, <1>5, <1>6 DEF Alike
<1> QED  BY <1>7 DEF c, d

\* Both are worth the same.
LEMMA EquityAlike ==
  ASSUME NEW a, NEW b, Alike(a, b), IsAccount(a), NEW price \in Int
  PROVE  Equity(a, price) = Equity(b, price)
<1> DEFINE f == [p \in a.positions |-> (price - p.entry) * p.qty * Sign(p.dir)]
           g == [p \in b.positions |-> (price - p.entry) * p.qty * Sign(p.dir)]
<1>1. ASSUME NEW p \in a.positions PROVE f[p] \in Int /\ g[Renumbered(p)] = f[p]
  <2>1. PICK e \in Int, q \in Int, s \in Int : e = p.entry /\ q = p.qty /\ s = Sign(p.dir)
    BY DEF IsAccount, IsLot, Sign
  <2>2. (price - e) * q * s \in Int
    OBVIOUS
  <2>3. /\ Renumbered(p).entry = p.entry /\ Renumbered(p).qty = p.qty /\ Renumbered(p).dir = p.dir
    BY RenumberedRest DEF Alike
  <2>4. Renumbered(p) \in b.positions
    BY DEF Alike, RenumberedAll
  <2>5. g[Renumbered(p)] = (price - e) * q * s
    BY <2>1, <2>3, <2>4
  <2> QED  BY <2>1, <2>2, <2>5
<1>2. DOMAIN f = a.positions /\ DOMAIN g = RenumberedAll(a.positions)
  BY DEF Alike
<1> HIDE DEF f, g
<1>3. SumFunction(f) = SumFunction(g)
  BY <1>1, <1>2, RenumberedSum DEF Alike
<1>4. Unrealised(a, price) = SumFunction(f) /\ Unrealised(b, price) = SumFunction(g)
  BY DEF Unrealised, f, g
<1> QED  BY <1>3, <1>4 DEF Equity, Alike

\* record_snapshot on both.
LEMMA SnapshotAlike ==
  ASSUME NEW a, NEW b, Alike(a, b), IsAccount(a), NEW t, NEW price \in Int
  PROVE  Alike(RecordSnapshot(a, t, price), RecordSnapshot(b, t, price))
<1> DEFINE c == RecordSnapshot(a, t, price)
           d == RecordSnapshot(b, t, price)
           e == RollDay(a, t)
           f == RollDay(b, t)
<1>1. Equity(a, price) = Equity(b, price) /\ Cardinality(a.positions) = Cardinality(b.positions)
  BY EquityAlike, RenumberedNames DEF Alike
<1>2. /\ IsPortfolio(e) /\ e.positions = a.positions /\ e.trades = a.trades /\ e.cash = a.cash
      /\ e.realised = a.realised /\ e.costs = a.costs /\ e.curve = a.curve /\ e.peak = a.peak
      /\ e.day = Day(t) /\ e.dayStart = DayStartOf(a, t)
  BY BookFieldsAre DEF RollDay, Alike, IsPortfolio, DayStartOf
<1>3. /\ IsPortfolio(f) /\ f.positions = b.positions /\ f.trades = b.trades /\ f.cash = b.cash
      /\ f.realised = b.realised /\ f.costs = b.costs /\ f.curve = b.curve /\ f.peak = b.peak
      /\ f.day = Day(t) /\ f.dayStart = DayStartOf(b, t)
  BY BookFieldsAre DEF RollDay, Alike, IsPortfolio, DayStartOf
<1>4. DayStartOf(a, t) = DayStartOf(b, t)
  BY DEF DayStartOf, Alike
<1> HIDE DEF e, f
<1>5. /\ IsPortfolio(c) /\ c.positions = a.positions /\ c.trades = a.trades /\ c.cash = a.cash
      /\ c.realised = a.realised /\ c.costs = a.costs /\ c.day = e.day /\ c.dayStart = e.dayStart
      /\ c.peak = Max2(a.peak, Equity(a, price))
      /\ c.curve = Append(a.curve, [bar |-> t, equity |-> Equity(a, price), cash |-> a.cash,
                                    open |-> Cardinality(a.positions)])
  BY <1>2, BookFieldsAre DEF RecordSnapshot, e, IsPortfolio
<1>6. /\ IsPortfolio(d) /\ d.positions = b.positions /\ d.trades = b.trades /\ d.cash = b.cash
      /\ d.realised = b.realised /\ d.costs = b.costs /\ d.day = f.day /\ d.dayStart = f.dayStart
      /\ d.peak = Max2(b.peak, Equity(b, price))
      /\ d.curve = Append(b.curve, [bar |-> t, equity |-> Equity(b, price), cash |-> b.cash,
                                    open |-> Cardinality(b.positions)])
  BY <1>3, BookFieldsAre DEF RecordSnapshot, f, IsPortfolio
<1> HIDE DEF c, d
<1>7. c.curve = d.curve /\ c.peak = d.peak
  BY <1>1, <1>5, <1>6 DEF Alike
<1>8. Alike(c, d)
  BY <1>2, <1>3, <1>4, <1>5, <1>6, <1>7 DEF Alike
<1> QED  BY <1>8 DEF c, d

\* The risk of the positions that satisfy a condition which the number does not touch.
LEMMA RiskAlike ==
  ASSUME NEW a, NEW b, Alike(a, b), IsAccount(a), NEW ps, ps \subseteq a.positions
  PROVE  OpenRisk(ps) = OpenRisk(RenumberedAll(ps))
<1> DEFINE f == [p \in ps |-> p.risk]
           g == [p \in RenumberedAll(ps) |-> p.risk]
<1>1. /\ DOMAIN f = ps /\ DOMAIN g = RenumberedAll(ps)
      /\ \A p \in ps : f[p] \in Int /\ g[Renumbered(p)] = f[p]
  BY RenumberedRest DEF Alike, IsAccount, IsLot, RenumberedAll
<1>2. OnePerBar(ps) /\ \A p \in ps : IsNumbered(p)
  BY FS_Subset DEF OnePerBar, Alike
<1> HIDE DEF f, g
<1>3. SumFunction(f) = SumFunction(g)
  BY <1>1, <1>2, RenumberedSum
<1> QED  BY <1>3 DEF OpenRisk, f, g

LEMMA NotionalAlike ==
  ASSUME NEW a, NEW b, Alike(a, b), IsAccount(a)
  PROVE  EntryNotional(a) = EntryNotional(b)
<1> DEFINE f == [p \in a.positions |-> Abs(p.qty * LastEntry(a, p.symbol))]
           g == [p \in b.positions |-> Abs(p.qty * LastEntry(b, p.symbol))]
<1>1. ASSUME NEW p \in a.positions PROVE LastEntry(b, p.symbol) = LastEntry(a, p.symbol)
  <2> DEFINE ps == PositionsIn(a, p.symbol)
             qs == PositionsIn(b, p.symbol)
             x == CHOOSE q \in ps : \A r \in ps : r.entryBar <= q.entryBar
             y == CHOOSE q \in qs : \A r \in qs : r.entryBar <= q.entryBar
  <2>1. ps \subseteq a.positions /\ p \in ps /\ OnePerBar(ps) /\ \A q \in ps : IsNumbered(q)
    BY FS_Subset DEF PositionsIn, OnePerBar, Alike
  <2>2. qs = RenumberedAll(ps)
    BY RenumberedRest DEF PositionsIn, Alike, RenumberedAll
  <2> HIDE DEF ps, qs
  <2>3. x \in ps /\ \A r \in ps : r.entryBar <= x.entryBar
    <3>1. \E q \in ps : \A r \in ps : r.entryBar <= q.entryBar
      BY <2>1, NewestEntered DEF OnePerBar
    <3> QED  BY <3>1
  <2>4. y \in qs /\ \A r \in qs : r.entryBar <= y.entryBar
    <3>1. OnePerBar(qs) /\ qs # {}
      BY <2>1, <2>2, RenumberedNames DEF RenumberedAll
    <3>2. \E q \in qs : \A r \in qs : r.entryBar <= q.entryBar
      BY <3>1, NewestEntered DEF OnePerBar
    <3> QED  BY <3>2
  <2>5. LastEntry(a, p.symbol) = x.entry /\ LastEntry(b, p.symbol) = y.entry
    BY DEF LastEntry, ps, qs
  <2> HIDE DEF x, y
  <2>6. PICK z \in ps : y = Renumbered(z)
    BY <2>2, <2>4 DEF RenumberedAll
  <2>7. y.entryBar = z.entryBar /\ y.entry = z.entry
    BY <2>1, <2>6, RenumberedRest
  <2>8. x.entryBar <= z.entryBar
    <3>1. Renumbered(x) \in qs /\ Renumbered(x).entryBar = x.entryBar
      BY <2>1, <2>2, <2>3, RenumberedRest DEF RenumberedAll
    <3> QED  BY <2>4, <2>7, <3>1
  <2>9. z.entryBar <= x.entryBar /\ z.entryBar \in Nat /\ x.entryBar \in Nat
    BY <2>1, <2>3 DEF OnePerBar
  <2>10. z = x
    BY <2>1, <2>3, <2>8, <2>9 DEF OnePerBar
  <2> QED  BY <2>5, <2>7, <2>10
<1>2. ASSUME NEW p \in a.positions PROVE f[p] \in Int /\ g[Renumbered(p)] = f[p]
  <2>1. PICK q \in Int, e \in Int : q = p.qty /\ e = LastEntry(a, p.symbol)
    BY AccountIsHolding, LastEntryIsInt DEF IsHolding
  <2>2. q * e \in Int
    OBVIOUS
  <2>3. f[p] \in Int
    BY <2>1, <2>2 DEF Abs
  <2>4. /\ Renumbered(p).qty = p.qty /\ Renumbered(p).symbol = p.symbol
        /\ Renumbered(p) \in b.positions
    BY RenumberedRest DEF Alike, RenumberedAll
  <2>5. g[Renumbered(p)] = Abs(p.qty * LastEntry(b, p.symbol))
    BY <2>4
  <2> QED  BY <1>1, <2>3, <2>5
<1>3. DOMAIN f = a.positions /\ DOMAIN g = RenumberedAll(a.positions)
  BY DEF Alike
<1> HIDE DEF f, g
<1>4. SumFunction(f) = SumFunction(g)
  BY <1>2, <1>3, RenumberedSum DEF Alike
<1> QED  BY <1>4 DEF EntryNotional, f, g

\* The risk engine says the same of both.
LEMMA ApprovesAlike ==
  ASSUME NEW a, NEW b, Alike(a, b), IsAccount(a), NEW sig, NEW equity, NEW quality, NEW enabled
  PROVE  /\ Approves(sig, a, equity, quality, enabled, <<>>)
              = Approves(sig, b, equity, quality, enabled, <<>>)
         /\ Size(sig, a, equity, <<>>) = Size(sig, b, equity, <<>>)
<1>1. Cardinality(a.positions) = Cardinality(b.positions)
  BY RenumberedNames DEF Alike
<1>2. Cardinality(PositionsIn(a, sig.symbol)) = Cardinality(PositionsIn(b, sig.symbol))
  <2> DEFINE ps == PositionsIn(a, sig.symbol)
  <2>1. OnePerBar(ps) /\ \A q \in ps : IsNumbered(q)
    BY FS_Subset DEF PositionsIn, OnePerBar, Alike
  <2>2. PositionsIn(b, sig.symbol) = RenumberedAll(ps)
    BY RenumberedRest DEF PositionsIn, Alike, RenumberedAll
  <2> HIDE DEF ps
  <2> QED  BY <2>1, <2>2, RenumberedNames DEF ps
<1>3. /\ \A pct : DrawdownReaches(a, equity, pct) = DrawdownReaches(b, equity, pct)
      /\ \A pct : DailyLossReaches(a, equity, pct) = DailyLossReaches(b, equity, pct)
  BY DEF DrawdownReaches, DailyLossReaches, Alike
<1>4. GatesPass(sig, a, equity, quality, enabled) = GatesPass(sig, b, equity, quality, enabled)
  BY <1>1, <1>2, <1>3 DEF GatesPass
<1>5. ScaledRisk(a, equity) = ScaledRisk(b, equity)
  BY <1>3 DEF ScaledRisk
<1>6. OpenRisk(a.positions) = OpenRisk(b.positions)
  BY RiskAlike DEF Alike
<1>7. OpenRisk({p \in a.positions : p.strategy = sig.strategy})
        = OpenRisk({p \in b.positions : p.strategy = sig.strategy})
  <2> DEFINE ps == {p \in a.positions : p.strategy = sig.strategy}
  <2>1. {p \in b.positions : p.strategy = sig.strategy} = RenumberedAll(ps)
    BY RenumberedRest DEF Alike, RenumberedAll
  <2>2. ps \subseteq a.positions
    OBVIOUS
  <2> HIDE DEF ps
  <2>3. OpenRisk(ps) = OpenRisk(RenumberedAll(ps))
    BY <2>2, RiskAlike
  <2> QED  BY <2>1, <2>3 DEF ps
<1>8. CorrelatedRisk(sig, a, <<>>) = 0 /\ CorrelatedRisk(sig, b, <<>>) = 0
  BY DEF CorrelatedRisk
<1>9. BudgetsLeft(sig, a, equity, <<>>) = BudgetsLeft(sig, b, equity, <<>>)
  BY <1>6, <1>7, <1>8 DEF BudgetsLeft
<1>10. NotionalLeft(a, equity) = NotionalLeft(b, equity)
  BY NotionalAlike DEF NotionalLeft
<1>11. Size(sig, a, equity, <<>>) = Size(sig, b, equity, <<>>)
  BY <1>5, <1>9, <1>10 DEF Size
<1> QED  BY <1>4, <1>9, <1>10, <1>11 DEF Approves

---------------------------------------------------------------------------
(* One bar on both books.  The one is that of the run, the other that of the paper *)
(* engine once it has counted the bar.                                             *)

Twins(x, y) ==
  /\ Alike(x.port, y.port) /\ x.perf = y.perf /\ x.pending = y.pending
  /\ x.barCounter \in Int /\ y.barCounter = x.barCounter + 1

\* The queued order opens the same position, under the two numbers.
LEMMA PositionsAlike ==
  ASSUME NEW o, NEW bar, NEW t, NEW index \in Int
  PROVE  LET p == PositionOf(o, bar, t, index)
         IN  /\ IsNumbered(p) /\ p.entryBar = t
             /\ PositionOf(o, bar, t, index + 1) = Renumbered(p)
<1> DEFINE p == PositionOf(o, bar, t, index)
           q == PositionOf(o, bar, t, index + 1)
<1>1. /\ IsNumbered(p) /\ p.entryBar = t
  BY DEF PositionOf, IsNumbered, PositionFields
<1>2. q = Renumbered(p)
  BY DEF PositionOf, Renumbered
<1> QED  BY <1>1, <1>2

\* _fill_pending_orders and _open_position.
LEMMA FillTwins ==
  ASSUME NEW x, NEW y, Twins(x, y), NEW bar, NEW t \in Nat, IsBookAt(x, t), IsBookAt(y, t),
         \A p \in x.port.positions : p.entryBar # t
  PROVE  Twins(FillPendingOrders(x, bar, t), FillPendingOrders(y, bar, t))
<1> DEFINE queue == {o \in x.pending : Fills(o, bar) /\ StopStillValid(o, bar)}
           p == PositionOf(CHOOSE o \in queue : TRUE, bar, t, x.barCounter)
           c == FillPendingOrders(x, bar, t)
           d == FillPendingOrders(y, bar, t)
           k == x.barCounter
<1>1. PICK order : order = CHOOSE o \in queue : TRUE
  OBVIOUS
<1>2. IsNumbered(p) /\ p.entryBar = t /\ PositionOf(order, bar, t, k + 1) = Renumbered(p)
  <2>1. k \in Int
    BY DEF Twins
  <2>2. p = PositionOf(order, bar, t, k)
    BY <1>1
  <2> HIDE DEF p, k
  <2> QED  BY <2>1, <2>2, PositionsAlike
<1>3. c = [x EXCEPT !.pending = {}, !.port = IF queue = {} THEN x.port ELSE OpenPosition(x.port, p)]
  BY DEF FillPendingOrders
<1>4. d = [y EXCEPT !.pending = {}, !.port = IF queue = {} THEN y.port ELSE OpenPosition(y.port, Renumbered(p))]
  <2>1. y.pending = x.pending /\ y.barCounter = k + 1
    BY DEF Twins
  <2>2. queue = {o \in y.pending : Fills(o, bar) /\ StopStillValid(o, bar)}
    BY <2>1
  <2>3. order = CHOOSE o \in {u \in y.pending : Fills(u, bar) /\ StopStillValid(u, bar)} : TRUE
    BY <1>1, <2>2
  <2>4. PICK fills : fills = queue
    OBVIOUS
  <2> HIDE DEF queue, p, k, d
  <2>5. d = [y EXCEPT !.pending = {},
                      !.port = IF fills = {} THEN y.port
                               ELSE OpenPosition(y.port, PositionOf(order, bar, t, y.barCounter))]
    BY <2>2, <2>3, <2>4 DEF FillPendingOrders, d
  <2> QED  BY <1>2, <2>1, <2>4, <2>5
<1> HIDE DEF p, queue, c, d
<1>5. /\ c.pending = {} /\ c.perf = x.perf /\ c.barCounter = x.barCounter
      /\ c.port = IF queue = {} THEN x.port ELSE OpenPosition(x.port, p)
  BY <1>3, BookFieldsAre DEF IsBookAt
<1>6. /\ d.pending = {} /\ d.perf = y.perf /\ d.barCounter = y.barCounter
      /\ d.port = IF queue = {} THEN y.port ELSE OpenPosition(y.port, Renumbered(p))
  BY <1>4, BookFieldsAre DEF IsBookAt
<1>7. Alike(OpenPosition(x.port, p), OpenPosition(y.port, Renumbered(p)))
  BY <1>2, OpenAlike DEF Twins
<1>8. Alike(c.port, d.port)
  BY <1>5, <1>6, <1>7 DEF Twins
<1> QED  BY <1>5, <1>6, <1>8 DEF Twins, c, d

\* Neither the condition of an exit nor its fill depends on the number.
LEMMA ExitOfAlike ==
  ASSUME NEW p, IsNumbered(p), NEW bar
  PROVE  Exits(Renumbered(p), bar) = Exits(p, bar) /\ ExitOnBar(Renumbered(p), bar) = ExitOnBar(p, bar)
<1> DEFINE q == Renumbered(p)
<1>1. q.dir = p.dir /\ q.stop = p.stop /\ q.target = p.target /\ q.qty = p.qty
  BY RenumberedRest
<1> HIDE DEF q
<1>2. StopHit(q, bar) = StopHit(p, bar) /\ TargetHit(q, bar) = TargetHit(p, bar)
  BY <1>1 DEF StopHit, TargetHit
<1>3. /\ GapsThroughStop(q, bar) = GapsThroughStop(p, bar)
      /\ GapsThroughTarget(q, bar) = GapsThroughTarget(p, bar)
  BY <1>1, <1>2 DEF GapsThroughStop, GapsThroughTarget
<1>4. Ambiguous(q, bar) = Ambiguous(p, bar)
  BY <1>2, <1>3 DEF Ambiguous
<1>5. ExitReason(q, bar) = ExitReason(p, bar)
  BY <1>2, <1>4 DEF ExitReason
<1>6. ExitLevel(q, bar) = ExitLevel(p, bar)
  BY <1>1, <1>3, <1>5 DEF ExitLevel
<1>7. ExitOnBar(q, bar) = ExitOnBar(p, bar)
  BY <1>1, <1>5, <1>6 DEF ExitOnBar, ExitFill
<1> QED  BY <1>2, <1>7 DEF Exits, q

\* _process_exits.
LEMMA ExitsTwins ==
  ASSUME NEW x, NEW y, Twins(x, y), NEW bar \in Bars, NEW t \in Nat, IsBookAt(x, t), IsBookAt(y, t),
         IsAccount(x.port), IsAccount(y.port)
  PROVE  Twins(ProcessExits(x, bar, t), ProcessExits(y, bar, t))
<1> DEFINE ps == {p \in x.port.positions : Exits(p, bar)}
           qs == {p \in y.port.positions : Exits(p, bar)}
           exits == [p \in ps |-> ExitOnBar(p, bar)]
           others == [p \in qs |-> ExitOnBar(p, bar)]
           k == x.barCounter
           c == ClosePositions(x.port, exits, t, k, x.lastRegime)
           d == ClosePositions(y.port, others, t, k + 1, y.lastRegime)
           u == ProcessExits(x, bar, t)
           v == ProcessExits(y, bar, t)
<1>1. /\ Alike(x.port, y.port) /\ y.barCounter = k + 1 /\ k \in Int
      /\ y.perf = x.perf /\ x.pending = y.pending
  BY DEF Twins
<1>2. /\ \A p \in x.port.positions : IsNumbered(p) /\ IsLot(p)
      /\ y.port.positions = RenumberedAll(x.port.positions)
  BY <1>1 DEF Alike, IsAccount
<1>3. qs = RenumberedAll(ps)
  BY <1>2, ExitOfAlike DEF RenumberedAll
<1>4. /\ DOMAIN exits = ps /\ ps \subseteq x.port.positions /\ DOMAIN others = RenumberedAll(ps)
      /\ \A p \in ps : exits[p].price \in Int /\ exits[p].cost \in Int
  BY <1>2, <1>3, ExitAmounts
<1>5. \A p \in ps : others[Renumbered(p)] = exits[p]
  BY <1>2, <1>3, ExitOfAlike DEF RenumberedAll
<1>6. \E n : u = [x EXCEPT !.port = c, !.ambiguous = n,
                     !.perf = [r \in Regimes |-> x.perf[r] \o Samples(Since(c.trades, x.port.trades), r)]]
  BY DEF ProcessExits, Since
<1>7. \E n : v = [y EXCEPT !.port = d, !.ambiguous = n,
                     !.perf = [r \in Regimes |-> y.perf[r] \o Samples(Since(d.trades, y.port.trades), r)]]
  <2>1. PICK e : e = ClosePositions(y.port, others, t, y.barCounter, y.lastRegime)
    OBVIOUS
  <2>2. \E n : v = [y EXCEPT !.port = e, !.ambiguous = n,
                     !.perf = [r \in Regimes |-> y.perf[r] \o Samples(Since(e.trades, y.port.trades), r)]]
    BY <2>1 DEF ProcessExits, Since
  <2>3. e = d
    BY <1>1, <2>1
  <2> HIDE DEF v, d
  <2> QED  BY <2>2, <2>3
<1> HIDE DEF exits, others, ps, qs, u, v
<1>8. /\ Alike(c, d)
      /\ \A r : Samples(Since(c.trades, x.port.trades), r) = Samples(Since(d.trades, y.port.trades), r)
  <2>1. PICK e, f, a, b, i, r1, r2 :
           /\ e = exits /\ f = others /\ a = x.port /\ b = y.port /\ i = k
           /\ r1 = x.lastRegime /\ r2 = y.lastRegime
    OBVIOUS
  <2>2. /\ Alike(a, b) /\ IsAccount(a) /\ IsAccount(b) /\ i \in Int
        /\ DOMAIN e \subseteq a.positions /\ DOMAIN f = RenumberedAll(DOMAIN e)
    BY <1>1, <1>4, <2>1
  <2>3. \A p \in DOMAIN e : f[Renumbered(p)] = e[p] /\ e[p].price \in Int /\ e[p].cost \in Int
    BY <1>4, <1>5, <2>1
  <2>4. ClosedAlike(a, b, e, f, t, i, r1, r2)
    BY <2>2, <2>3, CloseAlike
  <2> QED  BY <2>1, <2>4 DEF ClosedAlike
<1> DEFINE table(b, a) == [r \in Regimes |-> b.perf[r] \o Samples(Since(a.trades, b.port.trades), r)]
<1>9. table(x, c) = table(y, d)
  BY <1>1, <1>8
<1> HIDE DEF c, d, k
<1>10. u.port = c /\ u.perf = table(x, c) /\ u.pending = x.pending /\ u.barCounter = x.barCounter
  <2>1. PICK w : w = table(x, c)
    OBVIOUS
  <2>2. \E n : u = [x EXCEPT !.port = c, !.ambiguous = n, !.perf = w]
    BY <1>6, <2>1
  <2> HIDE DEF table
  <2> QED  BY <2>1, <2>2, BookFieldsAre DEF IsBookAt
<1>11. v.port = d /\ v.perf = table(y, d) /\ v.pending = y.pending /\ v.barCounter = y.barCounter
  <2>1. PICK w : w = table(y, d)
    OBVIOUS
  <2>2. \E n : v = [y EXCEPT !.port = d, !.ambiguous = n, !.perf = w]
    BY <1>7, <2>1
  <2> HIDE DEF table
  <2> QED  BY <2>1, <2>2, BookFieldsAre DEF IsBookAt
<1> HIDE DEF table
<1>12. Twins(u, v)
  BY <1>8, <1>9, <1>10, <1>11 DEF Twins
<1> QED  BY <1>12 DEF u, v

\* mark_to_market: as long as its curve is short, the paper engine cuts nothing.
LEMMA MarkTwins ==
  ASSUME NEW x, NEW y, Twins(x, y), NEW bar \in Bars, NEW t \in Nat \ {0},
         IsBookAt(x, t), IsBookAt(y, t), IsAccount(x.port), IsCurve(y.port.curve),
         Len(y.port.curve) < 2 * MaxEquityPoints
  PROVE  Twins(MarkWhole(x, bar, t), MarkToMarket(y, bar, t))
<1> DEFINE a == TrackExcursions(x.port, bar)
           b == TrackExcursions(y.port, bar)
           c == RecordSnapshot(a, t, bar.close)
           d == RecordSnapshot(b, t, bar.close)
           cut == IF Len(d.curve) > 2 * MaxEquityPoints
                  THEN [d EXCEPT !.curve = LastN(@, MaxEquityPoints)] ELSE d
           u == MarkWhole(x, bar, t)
           v == MarkToMarket(y, bar, t)
<1>1. Alike(x.port, y.port)
  BY DEF Twins
<1>2. Alike(a, b) /\ b.curve = y.port.curve
  <2>1. Alike(a, b)
    BY <1>1, TrackAlike
  <2>2. b.curve = y.port.curve
    BY BookFieldsAre DEF TrackExcursions, IsBookAt
  <2> QED  BY <2>1, <2>2
<1>3. IsAccount(a)
  <2>1. a.positions = {TrackPosition(p, bar) : p \in x.port.positions}
    BY BookFieldsAre DEF TrackExcursions, IsBookAt
  <2>2. /\ a.trades = x.port.trades /\ a.cash = x.port.cash /\ a.realised = x.port.realised
        /\ a.costs = x.port.costs /\ DOMAIN a = DOMAIN EmptyPortfolio
    BY BookFieldsAre DEF TrackExcursions, IsBookAt, PortfolioFields
  <2>3. \A p \in x.port.positions : IsLot(TrackPosition(p, bar))
    BY TrackedLot DEF IsAccount
  <2>4. OnePerBar(a.positions)
    BY <1>2 DEF Alike
  <2> HIDE DEF a
  <2> QED  BY <2>1, <2>2, <2>3, <2>4 DEF IsAccount
<1> HIDE DEF a, b
<1>4. Alike(c, d)
  BY <1>2, <1>3, SnapshotAlike, BarIsRecord
<1>5. \E point : d.curve = Append(y.port.curve, point)
  <2>1. IsPortfolio(b)
    BY <1>2 DEF Alike
  <2>2. RollDay(b, t).curve = b.curve /\ IsPortfolio(RollDay(b, t))
    BY <2>1, BookFieldsAre DEF RollDay, IsPortfolio
  <2> QED  BY <1>2, <2>2, BookFieldsAre DEF RecordSnapshot, IsPortfolio
<1> HIDE DEF c, d
<1>6. cut = d
  <2>1. PICK point, curve : d.curve = Append(curve, point) /\ curve = y.port.curve
    BY <1>5
  <2>2. IsSeq(curve)
    BY <2>1 DEF IsCurve
  <2>3. PICK X : curve \in Seq(X)
    BY <2>2 DEF IsSeq
  <2>4. curve \in Seq(X \cup {point}) /\ Len(curve) \in Nat
    BY <2>3
  <2>5. Len(d.curve) = Len(curve) + 1
    BY <2>1, <2>4
  <2>6. PICK m : m = 2 * MaxEquityPoints
    OBVIOUS
  <2>7. m \in Nat
    BY <2>6, HistoryAssumption
  <2>8. Len(curve) < m
    BY <2>1, <2>6
  <2>9. ~ (Len(d.curve) > m)
    BY <2>4, <2>5, <2>7, <2>8
  <2> QED  BY <2>6, <2>9
<1>7. u = [x EXCEPT !.port = c, !.lastClose = bar.close]
  BY DEF MarkWhole, c, a
<1>8. v = [y EXCEPT !.port = d, !.lastClose = bar.close]
  <2>1. v = [y EXCEPT !.port = cut, !.lastClose = bar.close]
    BY DEF MarkToMarket, d, b
  <2> HIDE DEF v, cut
  <2> QED  BY <1>6, <2>1
<1> HIDE DEF u, v
<1>9. u.port = c /\ u.perf = x.perf /\ u.pending = x.pending /\ u.barCounter = x.barCounter
  BY <1>7, BookFieldsAre DEF IsBookAt
<1>10. v.port = d /\ v.perf = y.perf /\ v.pending = y.pending /\ v.barCounter = y.barCounter
  BY <1>8, BookFieldsAre DEF IsBookAt
<1> QED  BY <1>4, <1>9, <1>10 DEF Twins, u, v

\* _decide_on_bar.
LEMMA DecideTwins ==
  ASSUME NEW x, NEW y, Twins(x, y), NEW bar, NEW t, ~bar.fails, NEW enabled, NEW quality,
         DOMAIN x = BookFields, DOMAIN y = BookFields, IsAccount(x.port),
         x.pending = {}
  PROVE  DecideOnBar(x, bar, t, enabled, quality).pending
           = DecideOnBar(y, bar, t, enabled, quality).pending
<1> DEFINE sx == [x EXCEPT !.lastRegime = bar.regime, !.barsDecided = @ + 1]
           sy == [y EXCEPT !.lastRegime = bar.regime, !.barsDecided = @ + 1]
           e == Last(x.port.curve).equity
           ax == {s \in {FinalSignal(z) : z \in bar.signal} :
                    Approves(s, x.port, e, quality, enabled, <<>>)}
<1>1. Alike(x.port, y.port) /\ x.pending = y.pending /\ x.port.curve = y.port.curve
  BY DEF Twins, Alike
<1>2. /\ sx.port = x.port /\ sx.lastRegime = bar.regime /\ sx.pending = {} /\ DOMAIN sx = BookFields
      /\ sy.port = y.port /\ sy.lastRegime = bar.regime /\ sy.pending = {} /\ DOMAIN sy = BookFields
  BY <1>1, BookFieldsAre
<1>3. \A s : /\ Approves(s, x.port, e, quality, enabled, <<>>) = Approves(s, y.port, e, quality, enabled, <<>>)
             /\ Size(s, x.port, e, <<>>) = Size(s, y.port, e, <<>>)
  BY <1>1, ApprovesAlike
<1>4. DecideOnBar(x, bar, t, enabled, quality)
        = IF ax = {} THEN sx ELSE [sx EXCEPT !.pending = {OrderOf(s, sx, e, t) : s \in ax}]
  BY DEF DecideOnBar
<1>5. DecideOnBar(y, bar, t, enabled, quality)
        = IF ax = {} THEN sy ELSE [sy EXCEPT !.pending = {OrderOf(s, sy, e, t) : s \in ax}]
  <2> DEFINE ay == {s \in {FinalSignal(z) : z \in bar.signal} :
                      Approves(s, y.port, e, quality, enabled, <<>>)}
  <2>1. ay = ax
    BY <1>3
  <2>2. e = Last(y.port.curve).equity
    BY <1>1
  <2> HIDE DEF e
  <2>3. DecideOnBar(y, bar, t, enabled, quality)
          = IF ay = {} THEN sy ELSE [sy EXCEPT !.pending = {OrderOf(s, sy, e, t) : s \in ay}]
    BY <2>2 DEF DecideOnBar
  <2> HIDE DEF ax, ay, sy
  <2> QED  BY <2>1, <2>3
<1> HIDE DEF sx, sy, ax, e
<1>6. \A s : OrderOf(s, sx, e, t) = OrderOf(s, sy, e, t)
  BY <1>2, <1>3 DEF OrderOf
<1>7. {OrderOf(s, sx, e, t) : s \in ax} = {OrderOf(s, sy, e, t) : s \in ax}
  BY <1>6
<1> DEFINE queue == {OrderOf(s, sx, e, t) : s \in ax}
<1>8. DecideOnBar(y, bar, t, enabled, quality)
        = IF ax = {} THEN sy ELSE [sy EXCEPT !.pending = queue]
  BY <1>5, <1>7
<1> HIDE DEF queue
<1>9. "pending" \in BookFields
  BY BookFieldsAre
<1> QED  BY <1>2, <1>4, <1>8, <1>9 DEF queue

\* process_bar counts the bar, and no step of it counts again.
LEMMA BarIsCounted ==
  ASSUME NEW b, DOMAIN b = BookFields, NEW bar, NEW t, NEW enabled, NEW quality, NEW warm
  PROVE  ProcessBar(b, bar, t, enabled, quality, warm).barCounter = b.barCounter + 1
<1> DEFINE counted == Counted(b)
           filled == FillPendingOrders(counted, bar, t)
           exited == ProcessExits(filled, bar, t)
           marked == MarkToMarket(exited, bar, t)
           decided == IF warm THEN DecideOnBar(marked, bar, t, enabled, quality) ELSE marked
           c == ProcessBar(b, bar, t, enabled, quality, warm)
           n == b.barCounter + 1
<1>1. DOMAIN counted = BookFields /\ counted.barCounter = n
  BY BookFieldsAre DEF Counted
<1>2. c = [decided EXCEPT !.watermark = Max2(@, t), !.barsProcessed = @ + 1]
  BY DEF ProcessBar, Counted
<1> HIDE DEF counted, n, c
<1>3. DOMAIN filled = BookFields /\ filled.barCounter = n
  BY <1>1, BookFieldsAre DEF FillPendingOrders
<1> HIDE DEF filled
<1>4. DOMAIN exited = BookFields /\ exited.barCounter = n
  <2>1. \E pf, table, m : exited = [filled EXCEPT !.port = pf, !.perf = table, !.ambiguous = m]
    BY DEF ProcessExits
  <2> QED  BY <1>3, <2>1, BookFieldsAre
<1> HIDE DEF exited
<1>5. DOMAIN marked = BookFields /\ marked.barCounter = n
  <2>1. \E pf, close : marked = [exited EXCEPT !.port = pf, !.lastClose = close]
    BY DEF MarkToMarket
  <2> QED  BY <1>4, <2>1, BookFieldsAre
<1> HIDE DEF marked
<1>6. DOMAIN decided = BookFields /\ decided.barCounter = n
  <2> DEFINE seen == [marked EXCEPT !.lastRegime = bar.regime, !.barsDecided = @ + 1]
  <2>1. DOMAIN seen = BookFields /\ seen.barCounter = n
    BY <1>5, BookFieldsAre
  <2>2. \/ decided = marked \/ decided = seen
        \/ \E queue : decided = [seen EXCEPT !.pending = queue]
    BY DEF DecideOnBar
  <2> HIDE DEF seen, decided
  <2> QED  BY <1>5, <2>1, <2>2, BookFieldsAre
<1> HIDE DEF decided
<1>7. c.barCounter = n
  BY <1>2, <1>6, BookFieldsAre
<1> QED  BY <1>7 DEF c, n

---------------------------------------------------------------------------
(* The two engines side by side *)

\* The paper engine's book beside a run that goes on.
Twinned ==
  /\ IsBook(book) /\ Accounted(book, NoPast)
  /\ book.watermark = handled /\ book.barCounter = handled
  /\ Alike(port, book.port) /\ perf = book.perf
  /\ handled < LastBar => pending = book.pending

\* What a bar leaves of the two, given what the steps up to the mark leave.
LEMMA BothKeepTwinned ==
  ASSUME Framed, Running, Twinned, HandleBar, MaxBars <= 2 * MaxEquityPoints,
         book' = ProcessBar(book, frame[handled'], handled', setup.enabled, setup.quality,
                            handled >= Warmup)
  PROVE  outcome' = "running" => Twinned'
<1> DEFINE t == handled + 1
           bar == frame[t]
           warm == handled >= Warmup
           x == Now
           y == Counted(book)
           fx == FillPendingOrders(x, bar, t)
           fy == FillPendingOrders(y, bar, t)
           ex == ProcessExits(fx, bar, t)
           ey == ProcessExits(fy, bar, t)
           mx == MarkWhole(ex, bar, t)
           my == MarkToMarket(ey, bar, t)
           dx == DecideOnBar(mx, bar, t, setup.enabled, setup.quality)
           dy == IF warm THEN DecideOnBar(my, bar, t, setup.enabled, setup.quality) ELSE my
<1>1. /\ x.pending = pending /\ x.port = port /\ x.perf = perf /\ x.barCounter = handled
  BY RunBookFields DEF Now
<1>2. /\ IsBookAt(x, t) /\ Accounted(x, NoPast) /\ \A p \in port.positions : p.entryBar # t
  BY NowIsBook
<1>3. /\ outcome = "running" /\ handled < LastBar /\ bar \in Bars /\ StepOf(x, bar, t)
  BY <1>2, BarIsStep
<1>4. /\ t \in Nat \ {0} /\ handled \in Nat /\ handled < t
  BY DEF Framed
<1>5. handled' = t /\ frame' = frame /\ setup' = setup
  BY <1>3 DEF StepOf
<1>6. book' = ProcessBar(book, bar, t, setup.enabled, setup.quality, warm)
  BY <1>5
<1>7. /\ IsBookAt(y, t) /\ Accounted(y, NoPast) /\ y.port = book.port /\ y.pending = book.pending
      /\ y.perf = book.perf /\ y.barCounter = handled + 1
  <2>1. /\ IsBookAt(y, t) /\ y.port = book.port /\ y.pending = book.pending
    BY <1>4, CountedKeepsBook DEF Twinned
  <2>2. y.perf = book.perf /\ y.barCounter = handled + 1
    BY BookFieldsAre DEF Counted, Twinned, IsBook, IsBookAt
  <2> HIDE DEF y
  <2> QED  BY <2>1, <2>2 DEF Twinned, Accounted
<1>8. \A p \in book.port.positions : p.entryBar # t
  <2>1. \A p \in book.port.positions : p.entryBar \in 1 .. handled
    BY DEF Twinned, IsBook, IsBookAt, IsPosition
  <2> QED  BY <1>4, <2>1
<1>9. Twins(x, y)
  <2> HIDE DEF x, y
  <2> QED  BY <1>1, <1>3, <1>4, <1>7 DEF Twinned, Twins
<1>10. Len(book.port.curve) = handled
  BY DEF Twinned, Alike, Running
<1> HIDE DEF x, y, bar
<1>11. Twins(fx, fy)
  BY <1>1, <1>2, <1>4, <1>7, <1>9, FillTwins
<1>12. /\ IsBookAt(fx, t) /\ fx.pending = {} /\ Accounted(fx, NoPast)
       /\ fx.port.curve = x.port.curve
  <2>1. \A p \in x.port.positions : p.entryBar # t
    BY <1>1, <1>2
  <2> HIDE DEF t
  <2> QED  BY <1>2, <1>3, <1>4, <2>1, FillKeepsBook, FillAccounted, NoPastIsPast
<1>13. /\ IsBookAt(fy, t) /\ fy.pending = {} /\ Accounted(fy, NoPast)
       /\ fy.port.curve = y.port.curve
  <2>1. \A p \in y.port.positions : p.entryBar # t
    BY <1>7, <1>8
  <2> HIDE DEF t
  <2> QED  BY <1>3, <1>4, <1>7, <2>1, FillKeepsBook, FillAccounted, NoPastIsPast
<1> HIDE DEF fx, fy
<1>14. Twins(ex, ey)
  BY <1>3, <1>4, <1>11, <1>12, <1>13, ExitsTwins DEF Accounted
<1>15. /\ IsBookAt(ex, t) /\ ex.pending = {} /\ Accounted(ex, NoPast)
  BY <1>3, <1>4, <1>12, ExitsKeepsBook, ExitsAccounted, NoPastIsPast DEF AfterExits
<1>16. /\ IsBookAt(ey, t) /\ ey.pending = {} /\ Accounted(ey, NoPast)
       /\ ey.port.curve = fy.port.curve
  <2>1. IsBookAt(ey, t) /\ ey.pending = {}
    BY <1>3, <1>4, <1>13, ExitsKeepsBook
  <2>2. AfterExits(fy, ey, NoPast)
    BY <1>3, <1>4, <1>13, ExitsAccounted, NoPastIsPast
  <2> QED  BY <2>1, <2>2 DEF AfterExits
<1> HIDE DEF ex, ey
<1>17. Twins(mx, my)
  <2>1. Len(ey.port.curve) = handled
    BY <1>7, <1>10, <1>13, <1>16
  <2>2. PICK m : m = 2 * MaxEquityPoints
    OBVIOUS
  <2>3. m \in Nat /\ MaxBars \in Nat
    BY <2>2, HistoryAssumption, BacktestAssumption
  <2>4. handled < m
    BY <1>3, <1>4, <2>2, <2>3 DEF Framed
  <2>5. Len(ey.port.curve) < 2 * MaxEquityPoints
    BY <2>1, <2>2, <2>4
  <2> HIDE DEF t
  <2> QED  BY <1>3, <1>4, <1>14, <1>15, <1>16, <2>5, MarkTwins DEF Accounted
<1>18. /\ IsBookAt(mx, t) /\ Accounted(mx, NoPast) /\ mx.pending = {}
  BY <1>3, <1>4, <1>15, MarkWholeAccounted
<1>19. /\ IsBookAt(my, t) /\ Accounted(my, NoPast) /\ my.port.curve # <<>> /\ my.pending = {}
  <2>1. IsBookAt(my, t) /\ my.pending = {}
    BY <1>3, <1>4, <1>16, MarkKeepsBook
  <2>2. AfterMark(ey, my, bar, t, NoPast)
    BY <1>3, <1>4, <1>16, MarkAccounted, NoPastIsPast
  <2> HIDE DEF my
  <2> QED  BY <2>1, <2>2 DEF AfterMark
<1>20. mx = MarkWhole(Traded(x, bar, t), bar, t)
  BY DEF mx, ex, fx, Traded
<1>21. book' = [dy EXCEPT !.watermark = Max2(@, t), !.barsProcessed = @ + 1]
  BY <1>6 DEF ProcessBar, Counted, my, ey, fy, y
<1> HIDE DEF mx, my
<1>22. /\ port' = mx.port /\ perf' = mx.perf
       /\ pending' = IF warm /\ ~bar.fails /\ t < LastBar THEN dx.pending ELSE {}
       /\ outcome' = "running" => (warm => ~bar.fails)
  BY <1>3, <1>20 DEF StepOf
<1>23. SUFFICES ASSUME outcome' = "running" PROVE Twinned'
  OBVIOUS
<1>24. /\ dy.port = my.port /\ dy.perf = my.perf /\ DOMAIN dy = BookFields
  <2>1. CASE ~warm
    BY <1>19, <2>1 DEF IsBookAt
  <2>2. CASE warm
    <3>1. dy = DecideOnBar(my, bar, t, setup.enabled, setup.quality)
      BY <2>2
    <3> HIDE DEF dy
    <3>2. dy.port = my.port /\ dy.perf = my.perf
      BY <1>3, <1>4, <1>19, <3>1, DecideAccounted, NoPastIsPast
    <3>3. IsBookAt(dy, t)
      BY <1>3, <1>4, <1>19, <3>1, DecideKeepsBook
    <3> QED  BY <3>2, <3>3 DEF IsBookAt
  <2> QED  BY <2>1, <2>2
<1>25. t < LastBar => pending' = dy.pending
  <2>1. CASE ~warm
    BY <1>19, <1>22, <2>1
  <2>2. CASE warm
    <3>1. dy = DecideOnBar(my, bar, t, setup.enabled, setup.quality) /\ ~bar.fails
      BY <1>22, <1>23, <2>2
    <3>2. DOMAIN mx = BookFields /\ DOMAIN my = BookFields /\ IsAccount(mx.port)
      BY <1>18, <1>19 DEF IsBookAt, Accounted
    <3>3. dx.pending = DecideOnBar(my, bar, t, setup.enabled, setup.quality).pending
      BY <1>17, <1>18, <3>1, <3>2, DecideTwins
    <3> HIDE DEF dy, dx
    <3> QED  BY <1>22, <2>2, <3>1, <3>3
  <2> QED  BY <2>1, <2>2
<1> HIDE DEF dy, dx
<1>26. book'.port = my.port /\ book'.perf = my.perf /\ book'.pending = dy.pending
  BY <1>21, <1>24, BookFieldsAre
<1>27. IsBook(book') /\ book'.watermark = t
  <2>1. IsBook(book) /\ book.watermark < t
    BY <1>4 DEF Twinned
  <2> HIDE DEF t
  <2> QED  BY <1>3, <1>4, <1>6, <2>1, ProcessBarKeepsBook
<1>28. Accounted(book', NoPast)
  <2>1. IsBook(book) /\ book.watermark < t /\ Accounted(book, NoPast)
    BY <1>4 DEF Twinned
  <2> HIDE DEF t
  <2>2. PICK c : c = book'
    OBVIOUS
  <2>3. c = ProcessBar(book, bar, t, setup.enabled, setup.quality, warm)
    BY <1>6, <2>2
  <2>4. AfterBar(book, c, bar, t, NoPast)
    <3> HIDE DEF warm
    <3> QED  BY <1>3, <1>4, <2>1, <2>3, ProcessBarAccounted, NoPastIsPast
  <2> QED  BY <2>2, <2>4 DEF AfterBar
<1>29. book'.barCounter = t
  <2>1. DOMAIN book = BookFields
    BY DEF Twinned, IsBook, IsBookAt
  <2> QED  BY <1>6, <2>1, BarIsCounted DEF Twinned
<1>30. Alike(port', book'.port) /\ perf' = book'.perf
  BY <1>17, <1>22, <1>26 DEF Twins
<1>31. LastBar' = LastBar
  BY <1>5 DEF LastBar
<1>32. handled' < LastBar' => pending' = book'.pending
  BY <1>5, <1>25, <1>26, <1>31
<1> QED  BY <1>5, <1>27, <1>28, <1>29, <1>30, <1>32 DEF Twinned

LEMMA TwinnedIsTradeAlike ==
  ASSUME Twinned
  PROVE  TradeAlike /\ Comparable(port.trades) = Comparable(book.port.trades)
<1>1. Alike(port, book.port)
  BY DEF Twinned
<1>2. Comparable(port.trades) = Comparable(book.port.trades)
  BY <1>1 DEF Comparable, Alike, AlikeTrades, WithoutRegime
<1>3. Unnumbered(port.positions) = Unnumbered(book.port.positions)
  <2>1. \A p \in port.positions : [Renumbered(p) EXCEPT !.entryIndex = 0] = [p EXCEPT !.entryIndex = 0]
    BY <1>1, RenumberedFields DEF Alike
  <2>2. book.port.positions = RenumberedAll(port.positions)
    BY <1>1 DEF Alike
  <2>3. PICK ps, qs : ps = port.positions /\ qs = RenumberedAll(ps) /\ qs = book.port.positions
    BY <2>2
  <2> DEFINE zero(p) == [p EXCEPT !.entryIndex = 0]
  <2>4. \A p \in ps : zero(Renumbered(p)) = zero(p)
    BY <2>1, <2>3
  <2> HIDE DEF zero
  <2>5. {zero(q) : q \in RenumberedAll(ps)} = {zero(p) : p \in ps}
    BY <2>4 DEF RenumberedAll
  <2>6. {zero(q) : q \in qs} = {zero(p) : p \in ps}
    BY <2>3, <2>5
  <2> QED  BY <2>3, <2>6 DEF Unnumbered, zero
<1>4. SameAccount(port, book.port)
  BY <1>1, <1>3, BookFieldsAre DEF SameAccount, Alike
<1> QED  BY <1>2, <1>4 DEF TradeAlike, Twinned

\* The two fresh engines are alike.
LEMMA BlankTwins ==
  ASSUME ParityInit
  PROVE  Twinned
<1>1. /\ handled = 0 /\ port = EmptyPortfolio /\ perf = [r \in Regimes |-> <<>>]
      /\ pending = {} /\ book = BlankBook
  BY DEF ParityInit, Init
<1>2. Reconciled(BlankBook) /\ IsBook(BlankBook)
  BY BlankBookReconciled, BlankBookIsBook
<1>3. Accounted(BlankBook, NoPast)
  BY <1>2 DEF Reconciled, Accounted, BlankBook
<1>4. /\ BlankBook.watermark = 0 /\ BlankBook.barCounter = 0 /\ BlankBook.port = EmptyPortfolio
      /\ BlankBook.perf = [r \in Regimes |-> <<>>] /\ BlankBook.pending = {}
  BY DEF BlankBook
<1>5. Alike(EmptyPortfolio, EmptyPortfolio)
  <2>1. IsPortfolio(EmptyPortfolio)
    BY BookFieldsAre DEF IsPortfolio, EmptyPortfolio
  <2>2. EmptyPortfolio.positions = {}
    BY DEF EmptyPortfolio
  <2>3. OnePerBar({})
    BY FS_EmptySet DEF OnePerBar
  <2> QED  BY <2>1, <2>2, <2>3 DEF Alike, AlikeTrades, RenumberedAll
<1> QED  BY <1>1, <1>2, <1>3, <1>4, <1>5 DEF Twinned

LEMMA Beginning ==
  ASSUME NEW a, IsSeq(a), NEW c, IsSeq(c), NEW n \in Nat, DOMAIN c = 1 .. Len(a) + n,
         \A i \in 1 .. Len(a) : c[i] = a[i]
  PROVE  SubSeq(c, 1, Len(a)) = a /\ Len(c) = Len(a) + n
<1> DEFINE m == Len(a)
<1>1. PICK X, Y : a \in Seq(X) /\ c \in Seq(Y)
  BY DEF IsSeq
<1>2. m \in Nat /\ a = [i \in 1 .. m |-> a[i]] /\ Len(c) \in Nat /\ DOMAIN c = 1 .. Len(c)
  BY <1>1
<1>3. Len(c) = m + n
  <2> HIDE DEF m
  <2>1. 1 .. Len(c) = 1 .. m + n
    BY <1>2
  <2>2. Len(c) > 0 => Len(c) \in 1 .. Len(c)
    BY <1>2
  <2>3. m + n > 0 => m + n \in 1 .. m + n
    BY <1>2
  <2>4. (Len(c) > 0 => Len(c) <= m + n) /\ (m + n > 0 => m + n <= Len(c))
    BY <1>2, <2>1, <2>2, <2>3
  <2> QED  BY <1>2, <2>4
<1>4. SubSeq(c, 1, m) = [i \in 1 .. (m - 1 + 1) |-> c[i + 1 - 1]]
  BY <1>1, <1>2, <1>3
<1>5. m - 1 + 1 = m /\ \A i \in 1 .. m : i + 1 - 1 = i
  BY <1>2
<1>6. SubSeq(c, 1, m) = [i \in 1 .. m |-> a[i]]
  BY <1>4, <1>5
<1> QED  BY <1>2, <1>3, <1>6

\* The forced close adds one trade for each position, and each says so.
LEMMA FinishKeepsShared ==
  ASSUME Framed, Running, Twinned, Finish, book' = book
  PROVE  SharedTradesIdentical'
<1> DEFINE m == Len(port.trades)
           shared == Len(book.port.trades)
           n == Cardinality(port.positions)
<1>1. /\ setup' = setup
      /\ IF setup.closeAtEnd /\ port.positions # {}
         THEN port' = Restated(Liquidated) ELSE port' = port
  BY DEF Finish
<1>2. /\ IsAccount(port) /\ Balanced(port, NoPast) /\ IsCurve(port.curve) /\ IsSeq(port.trades)
  BY RunBookFields DEF Running, Run, Accounted, IsAccount
<1>3. /\ Comparable(port.trades) = Comparable(book.port.trades)
      /\ Cardinality(book.port.positions) = n /\ Alike(port, book.port)
  BY TwinnedIsTradeAlike, RenumberedNames DEF Twinned, Alike
<1>4. IsSeq(book.port.trades)
  BY DEF Twinned, Accounted, IsAccount
<1>5. m \in Nat /\ DOMAIN port.trades = 1 .. m /\ shared = m
  <2>1. PICK X, Y : port.trades \in Seq(X) /\ book.port.trades \in Seq(Y)
    BY <1>2, <1>4 DEF IsSeq
  <2>2. DOMAIN port.trades = DOMAIN book.port.trades
    BY <1>3 DEF Alike, AlikeTrades
  <2> QED  BY <2>1, <2>2, LenProperties
<1>6. n \in Nat
  BY <1>2, FS_CardinalityType DEF IsAccount, OnePerBar
<1> HIDE DEF n, m, shared
<1>7. /\ SubSeq(port'.trades, 1, m) = port.trades
      /\ Len(port'.trades) = m + (IF setup.closeAtEnd THEN n ELSE 0)
      /\ \A i \in m + 1 .. Len(port'.trades) : port'.trades[i].reason = "END_OF_BACKTEST"
  <2>1. CASE ~(setup.closeAtEnd /\ port.positions # {})
    <3>1. port'.trades = port.trades
      BY <1>1, <2>1
    <3>2. setup.closeAtEnd => n = 0
      BY <2>1, FS_EmptySet DEF n
    <3>3. SubSeq(port.trades, 1, m) = port.trades /\ Len(port.trades) = m + 0
      <4>1. 0 \in Nat /\ m + 0 = m
        BY <1>5
      <4> QED  BY <1>2, <1>5, <4>1, Beginning DEF m
    <3>4. m + 1 .. m = {}
      BY <1>5
    <3> QED  BY <1>5, <3>1, <3>2, <3>3, <3>4 DEF m
  <2>2. CASE setup.closeAtEnd /\ port.positions # {}
    <3> DEFINE close == frame[LastBar].close
               exits == [p \in port.positions |-> ExitFill(p, "END_OF_BACKTEST", close, 0)]
    <3>1. 0 < LastBar
      <4>1. PICK p : p \in port.positions
        BY <2>2
      <4>2. p.entryBar \in 1 .. handled
        BY <4>1, RunBookFields DEF Running, Run, IsBookAt, IsPosition
      <4> QED  BY <4>2 DEF Framed
    <3>2. /\ IsAccount(Liquidated) /\ Balanced(Liquidated, NoPast)
          /\ Liquidated.positions = {} /\ Liquidated.curve = port.curve
      BY <3>1, LiquidatedBalanced
    <3>3. port.curve # <<>>
      BY <3>1 DEF Running, Finish
    <3>4. port'.trades = Liquidated.trades
      <4>1. PICK pf : pf = Liquidated
        OBVIOUS
      <4>2. LET c == Restated(pf) IN c.trades = pf.trades
        BY <1>2, <3>2, <3>3, <4>1, RestatedShowsCash
      <4> QED  BY <1>1, <2>2, <4>1, <4>2
    <3>5. Liquidated = ClosePositions(port, exits, LastBar, LastBar - 1, regimes[LastBar])
      BY DEF Liquidated, Closed
    <3>6. DOMAIN exits = port.positions /\ \A p \in port.positions : exits[p].reason = "END_OF_BACKTEST"
      BY DEF ExitFill
    <3> HIDE DEF exits
    <3>7. PICK e, t, index, regime : /\ e = exits /\ t = LastBar /\ index = LastBar - 1
                                     /\ regime = regimes[LastBar]
      OBVIOUS
    <3>8. PICK c : c = Liquidated
      OBVIOUS
    <3>9. /\ DOMAIN c.trades = 1 .. m + n
          /\ \A i \in 1 .. m : c.trades[i] = port.trades[i]
          /\ \A i \in 1 .. n : \E p \in port.positions :
               c.trades[m + i] = TradeOf(p, e[p], t, index, regime)
      <4>1. LET d == ClosePositions(port, e, t, index, regime)
                j == Cardinality(DOMAIN e)
                k == Len(port.trades)
            IN  /\ DOMAIN d.trades = 1 .. k + j
                /\ \A i \in 1 .. k : d.trades[i] = port.trades[i]
                /\ \A i \in 1 .. j : LET p == OldestFirst(DOMAIN e)[i]
                                     IN  /\ p \in DOMAIN e
                                         /\ d.trades[k + i] = TradeOf(p, e[p], t, index, regime)
        BY <1>2, <3>6, <3>7, ClosedList
      <4>2. c = ClosePositions(port, e, t, index, regime) /\ DOMAIN e = port.positions
        BY <3>5, <3>6, <3>7, <3>8
      <4>3. /\ DOMAIN c.trades = 1 .. m + n
            /\ \A i \in 1 .. m : c.trades[i] = port.trades[i]
            /\ \A i \in 1 .. n : LET p == OldestFirst(port.positions)[i]
                                 IN  /\ p \in port.positions
                                     /\ c.trades[m + i] = TradeOf(p, e[p], t, index, regime)
        BY <4>1, <4>2 DEF m, n
      <4> QED  BY <4>3
    <3>10. IsSeq(c.trades)
      BY <3>2, <3>8 DEF IsAccount
    <3>11. SubSeq(c.trades, 1, m) = port.trades /\ Len(c.trades) = m + n
      BY <1>2, <1>6, <3>9, <3>10, Beginning DEF m
    <3>12. ASSUME NEW i \in m + 1 .. m + n PROVE c.trades[i].reason = "END_OF_BACKTEST"
      <4>1. i - m \in 1 .. n /\ m + (i - m) = i
        BY <1>5, <1>6
      <4>2. PICK p \in port.positions : c.trades[m + (i - m)] = TradeOf(p, e[p], t, index, regime)
        BY <3>9, <4>1
      <4>3. c.trades[i].reason = e[p].reason
        BY <4>1, <4>2 DEF TradeOf
      <4> QED  BY <3>6, <3>7, <4>3
    <3> QED  BY <2>2, <3>4, <3>8, <3>11, <3>12
  <2> QED  BY <2>1, <2>2
<1>8. /\ shared <= Len(port'.trades)
      /\ Comparable(SubSeq(port'.trades, 1, shared)) = Comparable(book.port.trades)
      /\ Len(port'.trades) - shared = IF setup.closeAtEnd THEN Cardinality(book.port.positions) ELSE 0
      /\ \A i \in shared + 1 .. Len(port'.trades) : port'.trades[i].reason = "END_OF_BACKTEST"
  <2>1. shared = m /\ m \in Nat /\ n \in Nat
    BY <1>5, <1>6
  <2>2. Len(port'.trades) = m + (IF setup.closeAtEnd THEN n ELSE 0)
    BY <1>7
  <2>3. PICK k \in Nat : k = IF setup.closeAtEnd THEN n ELSE 0
    BY <1>6
  <2>4. m <= m + k /\ (m + k) - m = k
    BY <2>1
  <2>5. shared <= Len(port'.trades) /\ Len(port'.trades) - shared = k
    BY <2>1, <2>2, <2>3, <2>4
  <2>6. k = IF setup.closeAtEnd THEN Cardinality(book.port.positions) ELSE 0
    BY <1>3, <2>3
  <2>7. Comparable(SubSeq(port'.trades, 1, shared)) = Comparable(book.port.trades)
    BY <1>3, <1>7, <2>1
  <2> QED  BY <1>7, <2>1, <2>5, <2>6, <2>7
<1> QED  BY <1>1, <1>8 DEF SharedTradesIdentical, shared

SideBySide ==
  /\ Framed /\ (outcome = "running" => Running /\ Twinned)
  /\ SharedTradesIdentical

LEMMA SideBySideHolds ==
  ASSUME MaxBars <= 2 * MaxEquityPoints
  PROVE  ParitySpec => []SideBySide
<1>1. ParityInit => SideBySide
  <2> SUFFICES ASSUME ParityInit PROVE SideBySide
    OBVIOUS
  <2>1. Framed /\ Running /\ outcome = "running"
    BY BlankRun DEF ParityInit
  <2>2. Twinned
    BY BlankTwins
  <2> QED  BY <2>1, <2>2 DEF SideBySide, SharedTradesIdentical
<1>2. SideBySide /\ [ParityNext]_pvars => SideBySide'
  <2> SUFFICES ASSUME SideBySide, [ParityNext]_pvars PROVE SideBySide'
    OBVIOUS
  <2>1. CASE BothHandleBar
    <3>1. /\ HandleBar /\ outcome = "running" /\ outcome' # "result"
          /\ book' = ProcessBar(book, frame[handled'], handled', setup.enabled, setup.quality,
                                handled >= Warmup)
      BY <2>1 DEF BothHandleBar, HandleBar
    <3>2. Framed' /\ Running'
      BY <3>1, HandlingIsSound DEF SideBySide
    <3>3. outcome' = "running" => Twinned'
      BY <3>1, BothKeepTwinned DEF SideBySide
    <3> QED  BY <3>1, <3>2, <3>3 DEF SideBySide, SharedTradesIdentical
  <2>2. CASE Finish /\ UNCHANGED book
    <3>1. outcome = "running" /\ Framed /\ Running /\ Twinned
      BY <2>2 DEF SideBySide, Finish
    <3>2. Framed' /\ outcome' = "result"
      BY <2>2, <3>1, FinishRealises
    <3>3. SharedTradesIdentical'
      BY <2>2, <3>1, FinishKeepsShared
    <3> QED  BY <3>2, <3>3 DEF SideBySide
  <2>3. CASE UNCHANGED pvars
    <3>1. /\ frame' = frame /\ setup' = setup /\ handled' = handled /\ port' = port
          /\ perf' = perf /\ pending' = pending /\ outcome' = outcome /\ book' = book
      BY <2>3 DEF pvars, bvars
    <3>2. LastBar' = LastBar
      BY <3>1 DEF LastBar
    <3>3. Framed' = Framed
      BY <3>1, <3>2 DEF Framed
    <3>4. Run' = Run
      BY <3>1 DEF Run
    <3>5. Running' = Running
      BY <3>1, <3>4 DEF Running
    <3>6. Twinned' = Twinned
      BY <3>1, <3>2 DEF Twinned
    <3>7. SharedTradesIdentical' = SharedTradesIdentical
      BY <3>1 DEF SharedTradesIdentical
    <3> QED  BY <3>1, <3>3, <3>5, <3>6, <3>7 DEF SideBySide
  <2> QED  BY <2>1, <2>2, <2>3 DEF ParityNext
<1> QED  BY <1>1, <1>2, PTL DEF ParitySpec

\* The two loops are one execution model: bar for bar the backtester and the paper engine
\* have the same cash, positions, baselines and curve, queue the same order, record the
\* same trades and learn from them (tests/test_paper_trading.py 149), on any frame the
\* paper engine does not cut its equity curve on (mark_to_market).
THEOREM OneExecutionModel ==
  ASSUME MaxBars <= 2 * MaxEquityPoints
  PROVE  ParitySpec => []TradeAlike
<1>1. SideBySide => TradeAlike
  BY TwinnedIsTradeAlike DEF SideBySide, TradeAlike
<1> QED  BY <1>1, SideBySideHolds, PTL

\* The forced close at the end adds one trade for each open position, which says so, and
\* changes none that the two engines share (tests/test_paper_trading.py 157-160).
THEOREM ForcedCloseOnlyAdds ==
  ASSUME MaxBars <= 2 * MaxEquityPoints
  PROVE  ParitySpec => []SharedTradesIdentical
<1>1. SideBySide => SharedTradesIdentical
  BY DEF SideBySide
<1> QED  BY <1>1, SideBySideHolds, PTL

\* The run of the paper engine beside it is no part of what a backtest realises.
THEOREM EverythingIsRealisedBeside == ParitySpec => []EverythingRealised
<1>1. ParitySpec => Spec
  <2>1. ParityInit => Init
    BY DEF ParityInit
  <2>2. [ParityNext]_pvars => [Next]_bvars
    BY DEF ParityNext, BothHandleBar, Next, pvars
  <2> QED  BY <2>1, <2>2, PTL DEF ParitySpec, Spec
<1> QED  BY <1>1, EverythingIsRealised, PTL
=============================================================================
