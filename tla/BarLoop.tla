------------------------------ MODULE BarLoop ------------------------------
(* What one bar does to the paper engine's memory, and how that memory goes  *)
(* to the state file and back (app/paper_trading/engine.py): process_bar,    *)
(* _serialise_state and _load_from_snapshot as operators on a book, which is *)
(* _state together with the portfolio and the performance table.             *)
(*                                                                           *)
(* A bar carries what the layers below derive from it -- the ATR, the regime *)
(* the detector names, the signal the strategies agree on, whether the graph *)
(* raises -- so that this module does not depend on how they derive it.      *)
EXTENDS RiskEngine

CONSTANTS Bars,             \* the bars the market may publish
          Symbol,           \* the instrument of the session
          MaxClosedTrades,  \* MAX_CLOSED_TRADES
          MaxEquityPoints   \* MAX_EQUITY_POINTS

\* No signal, or the one signal the aggregator hands to the risk node, as a set.
Signals == [dir: Directions, entry: Nat \ {0}, stop: Nat, target: Nat]

BarRecords ==
  [open: Nat, high: Nat, low: Nat, close: Nat, atr: Nat, volume: Nat,
   regime: STRING, signal: SUBSET Signals, fails: BOOLEAN]

ASSUME BarAssumption ==
  \A bar \in Bars : /\ bar \in BarRecords
                    /\ bar.low <= bar.high
                    /\ \A s1, s2 \in bar.signal : s1 = s2

ASSUME HistoryAssumption ==
  MaxClosedTrades \in Nat \ {0} /\ MaxEquityPoints \in Nat \ {0}

Regimes == {bar.regime : bar \in Bars} \cup {"UNKNOWN"}

---------------------------------------------------------------------------
(* The book *)

BlankBook ==
  [watermark |-> 0, barCounter |-> 0, barsProcessed |-> 0, barsDecided |-> 0,
   ambiguous |-> 0, pending |-> {}, lastRegime |-> "UNKNOWN", lastClose |-> 0,
   port |-> EmptyPortfolio, perf |-> [r \in Regimes |-> <<>>]]

BookFields == DOMAIN BlankBook
PortfolioFields == DOMAIN EmptyPortfolio
PositionFields ==
  {"symbol", "strategy", "dir", "qty", "entry", "entryBar", "entryIndex", "stop",
   "target", "regime", "entryCosts", "risk", "low", "high", "queuedOn"}

IsOrder(o, t) ==
  o.symbol = Symbol /\ o.dir \in Directions /\ o.queuedOn \in 1 .. t

IsPosition(p, t) ==
  /\ p = [f \in PositionFields |-> p[f]]
  /\ p.symbol = Symbol /\ p.dir \in Directions
  /\ p.entryBar \in 1 .. t /\ p.queuedOn \in 1 .. t
  /\ p.low \in Int /\ p.high \in Int /\ p.low <= p.high

\* The shape of a book, which speaks of one symbol and of no bar past bar t.
IsBookAt(b, t) ==
  /\ b = [f \in BookFields |-> b[f]]
  /\ b.port = [f \in PortfolioFields |-> b.port[f]]
  /\ b.watermark \in Nat
  /\ \A o \in b.pending : IsOrder(o, t)
  /\ \A p \in b.port.positions : IsPosition(p, t)

IsBook(b) == IsBookAt(b, b.watermark)

LastN(s, n) == IF Len(s) <= n THEN s ELSE SubSeq(s, Len(s) - n + 1, Len(s))

\* The position a filled order opens.
PositionOf(o, bar, t, index) ==
  LET entry == EntryPrice(o.dir, bar)
  IN  [symbol |-> o.symbol, strategy |-> o.strategy, dir |-> o.dir, qty |-> o.qty,
       entry |-> entry, entryBar |-> t, entryIndex |-> index, stop |-> o.stop,
       target |-> o.target, regime |-> o.regime,
       entryCosts |-> FillCost(o.qty, bar.open, entry, bar.atr),
       risk |-> Abs(entry - o.stop) * o.qty, low |-> entry, high |-> entry,
       queuedOn |-> o.queuedOn]

StopStillValid(o, bar) == ~Worse(o.dir, EntryPrice(o.dir, bar), o.stop)

\* Mutant of FillPendingOrders: the queue is not emptied.
FillPendingOrdersAgain(b, bar, t) ==
  LET filled == {o \in b.pending : Fills(o, bar) /\ StopStillValid(o, bar)}
      p == PositionOf(CHOOSE o \in filled : TRUE, bar, t, b.barCounter)
  IN  [b EXCEPT !.port = IF filled = {} THEN @ ELSE OpenPosition(@, p)]

\* Every queued order leaves the queue: filled, rejected or abandoned.
FillPendingOrders(b, bar, t) ==
  LET filled == {o \in b.pending : Fills(o, bar) /\ StopStillValid(o, bar)}
      p == PositionOf(CHOOSE o \in filled : TRUE, bar, t, b.barCounter)
  IN  [b EXCEPT !.pending = {},
                !.port = IF filled = {} THEN @ ELSE OpenPosition(@, p)]

\* The R multiples of the trades entered in regime r.
Samples(trades, r) ==
  LET taken[n \in 0 .. Len(trades)] ==
        IF n = 0 THEN <<>>
        ELSE LET x == trades[n]
             IN  IF x.regime = r /\ x.risk > 0
                 THEN Append(taken[n - 1], [net |-> x.net, risk |-> x.risk])
                 ELSE taken[n - 1]
  IN  taken[Len(trades)]

ProcessExits(b, bar, t) ==
  LET closing == {p \in b.port.positions : Exits(p, bar)}
      port == ClosePositions(b.port, [p \in closing |-> ExitOnBar(p, bar)], t,
                             b.barCounter, b.lastRegime)
      closed == SubSeq(port.trades, Len(b.port.trades) + 1, Len(port.trades))
  IN  [b EXCEPT !.port = port,
                !.perf = [r \in Regimes |-> @[r] \o Samples(closed, r)],
                !.ambiguous = @ + Cardinality({p \in closing : Ambiguous(p, bar)})]

\* Excursions, then the mark at the close; the curve is cut back when it has
\* grown to twice its limit.
MarkToMarket(b, bar, t) ==
  LET port == RecordSnapshot(TrackExcursions(b.port, bar), t, bar.close)
      cut == IF Len(port.curve) > 2 * MaxEquityPoints
             THEN [port EXCEPT !.curve = LastN(@, MaxEquityPoints)] ELSE port
  IN  [b EXCEPT !.port = cut, !.lastClose = bar.close]

\* What the graph's order node builds and _queue_order puts in the queue.
OrderOf(sig, b, equity, t) ==
  [symbol |-> sig.symbol, strategy |-> sig.strategy, dir |-> sig.dir,
   qty |-> Size(sig, b.port, equity, <<>>), reference |-> sig.entry,
   stop |-> sig.stop, target |-> sig.target, regime |-> b.lastRegime, queuedOn |-> t]

\* The aggregated signal: decision.to_signal() of the aggregation node.
FinalSignal(s) ==
  [symbol |-> Symbol, strategy |-> "ensemble", dir |-> s.dir, entry |-> s.entry,
   stop |-> s.stop, target |-> s.target]

\* A graph that raises leaves the book as it is; an order replaces the queue.
DecideOnBar(b, bar, t, enabled, quality) ==
  IF bar.fails THEN b
  ELSE LET seen == [b EXCEPT !.lastRegime = bar.regime, !.barsDecided = @ + 1]
           equity == Last(b.port.curve).equity
           approved == {s \in {FinalSignal(x) : x \in bar.signal} :
                          Approves(s, b.port, equity, quality, enabled, <<>>)}
       IN  IF approved = {} THEN seen
           ELSE [seen EXCEPT !.pending = {OrderOf(s, seen, equity, t) : s \in approved}]

\* process_bar: bar number t, at its place in the frame, in the documented order.
ProcessBar(b, bar, t, enabled, quality, warm) ==
  LET counted == [b EXCEPT !.barCounter = @ + 1]
      exited == ProcessExits(FillPendingOrders(counted, bar, t), bar, t)
      marked == MarkToMarket(exited, bar, t)
      decided == IF warm THEN DecideOnBar(marked, bar, t, enabled, quality) ELSE marked
  IN  [decided EXCEPT !.watermark = Max2(@, t), !.barsProcessed = @ + 1]

---------------------------------------------------------------------------
(* The state file *)

\* _serialise_state: everything the book holds, its two histories cut to their limits.
SavedPortfolio(port) ==
  [port EXCEPT !.trades = LastN(@, MaxClosedTrades), !.curve = LastN(@, MaxEquityPoints)]

Serialise(b, quality) ==
  [book |-> [b EXCEPT !.port = SavedPortfolio(@)], lastQuality |-> quality]

\* restore_excursions orders the bounds of a position.
RestorePosition(p) ==
  [p EXCEPT !.low = Min2(p.low, p.high), !.high = Max2(p.low, p.high)]

\* Mutant of RestoreBaseline: the constructor's baseline stays in place.
RestoreBaselineForgotten(saved) == InitialBalance

\* restore_risk_baselines keeps the starting balance unless the saved value is positive.
RestoreBaseline(saved) == IF saved > 0 THEN saved ELSE InitialBalance

RestorePortfolio(port) ==
  [port EXCEPT !.positions = {RestorePosition(p) : p \in @},
               !.peak = RestoreBaseline(@),
               !.dayStart = RestoreBaseline(@)]

\* Mutants of Restore: the queue is lost, the watermark is lost, the performance
\* samples are added to samples already there.
RestoreWithoutQueue(payload) ==
  [payload.book EXCEPT !.port = RestorePortfolio(@), !.pending = {}]
RestoreWithoutWatermark(payload) ==
  [payload.book EXCEPT !.port = RestorePortfolio(@), !.watermark = 0]
RestorePerformanceTwice(payload) ==
  [payload.book EXCEPT !.port = RestorePortfolio(@),
                       !.perf = [r \in Regimes |-> @[r] \o @[r]]]

\* _load_from_snapshot.
Restore(payload) == [payload.book EXCEPT !.port = RestorePortfolio(@)]

---------------------------------------------------------------------------
(* What the invariants say of one book *)

\* The baselines of b survive a reload: restore_risk_baselines takes only
\* positive values, and the histories are within the limits of the file.
Recoverable(b) ==
  /\ b.port.peak > 0 /\ b.port.dayStart > 0
  /\ Len(b.port.trades) <= MaxClosedTrades
  /\ Len(b.port.curve) <= MaxEquityPoints
  /\ \A p \in b.port.positions : p.low <= p.high

\* The price has not traded through the stop while the position was open.
NotThroughStop(p) ==
  ~Worse(p.dir, IF p.dir = "LONG" THEN p.low ELSE p.high, p.stop)

\* Open positions and the queued order together.
Exposures(b) == Cardinality(b.port.positions) + Cardinality(b.pending)
PositionCap == Min2(Risk.maxPerSymbol, Risk.maxConcurrent)
=============================================================================
