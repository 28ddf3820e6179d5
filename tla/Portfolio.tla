----------------------------- MODULE Portfolio -----------------------------
(* The account (app/portfolio/portfolio.py): cash, open positions, closed    *)
(* trades, the equity curve, and the two baselines the risk limits are       *)
(* measured from -- the equity peak and the equity the day started with.     *)
(* A portfolio is a record; an operation maps a portfolio to a portfolio.    *)
EXTENDS Execution, FiniteSetsExt, SequencesExt

CONSTANTS InitialBalance,  \* platform.starting_balance
          BarsPerDay       \* bars of the timeframe in a calendar day

ASSUME BalanceAssumption == InitialBalance \in Nat \ {0}
ASSUME DayAssumption == BarsPerDay \in Nat \ {0}

\* The calendar day of bar number t; 0 is the None of _current_day.
Day(t) == (t - 1) \div BarsPerDay + 1

EmptyPortfolio ==
  [cash |-> InitialBalance, realised |-> 0, costs |-> 0,
   positions |-> {}, trades |-> <<>>, curve |-> <<>>,
   peak |-> InitialBalance, dayStart |-> InitialBalance, day |-> 0]

Unrealised(pf, price) ==
  SumFunction([p \in pf.positions |-> (price - p.entry) * p.qty * Sign(p.dir)])
Equity(pf, price) == pf.cash + Unrealised(pf, price)
OpenRisk(ps) == SumFunction([p \in ps |-> p.risk])
\* The sum of f over a trade list.
SumOver(trades, f(_)) == SumFunction([i \in DOMAIN trades |-> f(trades[i])])
PositionsIn(pf, symbol) == {p \in pf.positions : p.symbol = symbol}
\* exposure, as the risk engine asks for it: with one price per symbol, the entry
\* price of the newest position in it.
LastEntry(pf, symbol) ==
  (CHOOSE p \in PositionsIn(pf, symbol) :
     \A q \in PositionsIn(pf, symbol) : q.entryBar <= p.entryBar).entry
EntryNotional(pf) ==
  SumFunction([p \in pf.positions |-> Abs(p.qty * LastEntry(pf, p.symbol))])

\* drawdown and daily_loss reach a limit given in percent of their baseline.
\* Without a positive baseline both fractions are zero.
LossReaches(baseline, equity, pct) ==
  IF baseline > 0 THEN Max2(0, baseline - equity) * 100 >= pct * baseline
                  ELSE 0 >= pct
\* Mutant of DrawdownReaches: the loss is measured from the day's baseline.
DrawdownSinceDayStart(pf, equity, pct) == LossReaches(pf.dayStart, equity, pct)

DrawdownReaches(pf, equity, pct) == LossReaches(pf.peak, equity, pct)
DailyLossReaches(pf, equity, pct) == LossReaches(pf.dayStart, equity, pct)

---------------------------------------------------------------------------
\* Mutant of OpenPosition: the entry costs leave the cash unrecorded.
OpenPositionUncosted(pf, p) ==
  [pf EXCEPT !.positions = @ \cup {p}, !.cash = @ - p.entryCosts]

OpenPosition(pf, p) ==
  [pf EXCEPT !.positions = @ \cup {p},
             !.cash = @ - p.entryCosts,
             !.costs = @ + p.entryCosts]

GrossPnl(p, exit) == (exit.price - p.entry) * p.qty * Sign(p.dir)
NetPnl(p, exit) == GrossPnl(p, exit) - exit.cost

\* The Trade close_position records for position p closed by the fill exit on bar
\* number t, the engine's bar number index.
TradeOf(p, exit, t, index, exitRegime) ==
  [symbol |-> p.symbol, strategy |-> p.strategy, dir |-> p.dir, qty |-> p.qty,
   entryBar |-> p.entryBar, entry |-> p.entry, exitBar |-> t,
   exit |-> exit.price, stop |-> p.stop, target |-> p.target,
   reason |-> exit.reason, gross |-> GrossPnl(p, exit),
   costs |-> p.entryCosts + exit.cost, net |-> NetPnl(p, exit),
   risk |-> Abs(p.entry - p.stop) * p.qty,
   regime |-> p.regime, exitRegime |-> exitRegime, barsHeld |-> Max2(0, index - p.entryIndex),
   mae |-> Max2(0, IF p.dir = "LONG" THEN p.entry - p.low ELSE p.high - p.entry),
   mfe |-> Max2(0, IF p.dir = "LONG" THEN p.high - p.entry ELSE p.entry - p.low),
   queuedOn |-> p.queuedOn]

\* The list order of positions.
OldestFirst(ps) ==
  CHOOSE q \in SetToSeqs(ps) : \A i, j \in DOMAIN q : i < j => q[i].entryBar < q[j].entryBar

\* close_position with the fill exits[p] for each position p in the domain of exits,
\* oldest first.
ClosePositions(pf, exits, t, index, exitRegime) ==
  LET ps == DOMAIN exits
      closed == OldestFirst(ps)
      nets == SumFunction([p \in ps |-> NetPnl(p, exits[p])])
      exitCosts == SumFunction([p \in ps |-> exits[p].cost])
  IN  [pf EXCEPT !.positions = @ \ ps,
                 !.cash = @ + nets,
                 !.realised = @ + nets,
                 !.costs = @ + exitCosts,
                 !.trades = @ \o [i \in 1 .. Cardinality(ps) |->
                   TradeOf(closed[i], exits[closed[i]], t, index, exitRegime)]]

\* track_excursions for the bar's high, then for its low.
TrackPosition(p, bar) ==
  [p EXCEPT !.low = Min2(@, bar.low), !.high = Max2(@, bar.high)]
TrackExcursions(pf, bar) ==
  [pf EXCEPT !.positions = {TrackPosition(p, bar) : p \in @}]

\* _roll_day: the first bar only names the day; a later day restarts the
\* daily-loss baseline from the last equity on the curve.
RollDay(pf, t) ==
  IF pf.day = 0 \/ pf.day = Day(t) THEN [pf EXCEPT !.day = Day(t)]
  ELSE [pf EXCEPT !.day = Day(t),
                  !.dayStart = IF pf.curve = <<>> THEN pf.cash
                               ELSE Last(pf.curve).equity]

RecordSnapshot(pf, t, close) ==
  LET rolled == RollDay(pf, t)
      equity == Equity(pf, close)
  IN  [rolled EXCEPT
         !.peak = Max2(@, equity),
         !.curve = Append(@, [bar |-> t, equity |-> equity, cash |-> pf.cash,
                              open |-> Cardinality(pf.positions)])]
=============================================================================
