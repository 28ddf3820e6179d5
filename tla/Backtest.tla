------------------------------ MODULE Backtest ------------------------------
(* The backtester (app/backtest/engine.py): one pass over a frame that is    *)
(* complete from the start, an order at most waiting for the next open, and  *)
(* a forced close of whatever is open at the last bar.  Portfolio, execution *)
(* and risk are those of the paper engine; the loop around them is not.      *)
EXTENDS BarLoop

CONSTANTS MaxBars,     \* bound on the length of the frame
          Warmup,      \* warmup_bars
          Limits,      \* values of backtest.max_bars; 0 is the None it may be
          CloseAtEnd,  \* values of backtest.close_positions_at_end
          Switch,      \* values of the argument trading_enabled
          Grades       \* grades the caller passes or the backtester gives itself

ASSUME BacktestAssumption ==
  /\ MaxBars \in Nat /\ Warmup \in Nat /\ Limits \subseteq Nat
  /\ CloseAtEnd \subseteq BOOLEAN /\ Switch \subseteq BOOLEAN

VARIABLES frame,     \* the bars of data.df
          setup,     \* the arguments of the run and its configuration
          handled,   \* bars handled so far: bar number handled + 1 is next
          port,      \* the Portfolio
          perf,      \* the RegimePerformanceTracker
          pending,   \* the PendingOrder, as a set
          regimes,   \* the label of each bar of the frame
          outcome    \* "running", "result", or "raised"

bvars == <<frame, setup, handled, port, perf, pending, regimes, outcome>>

Setups ==
  [maxBars: Limits, closeAtEnd: CloseAtEnd, enabled: Switch, quality: Grades]

\* min(limit, len(df))
LastBar == IF setup.maxBars = 0 THEN Len(frame) ELSE Min2(setup.maxBars, Len(frame))

Init ==
  /\ frame \in UNION {[1 .. n -> Bars] : n \in 0 .. MaxBars}
  /\ setup \in Setups
  /\ handled = 0
  /\ port = EmptyPortfolio
  /\ perf = [r \in Regimes |-> <<>>]
  /\ pending = {}
  /\ regimes = [t \in DOMAIN frame |-> "UNKNOWN"]
  /\ outcome = "running"

---------------------------------------------------------------------------
(* One bar.  Each step takes the portfolio the step before it left. *)

\* Mutant of Opened: an entry that gapped through its own stop is taken.
OpenedBeyondStop(bar, t) ==
  LET filled == {o \in pending : Fills(o, bar)}
      p == PositionOf(CHOOSE o \in filled : TRUE, bar, t, t - 1)
  IN  IF filled = {} THEN port ELSE OpenPosition(port, p)

\* _open_position of the order queued at the previous bar, if there is one.
Opened(bar, t) ==
  LET filled == {o \in pending : Fills(o, bar) /\ StopStillValid(o, bar)}
      p == PositionOf(CHOOSE o \in filled : TRUE, bar, t, t - 1)
  IN  IF filled = {} THEN port ELSE OpenPosition(port, p)

\* _process_exits and _close_all, with the label bar t has at the time.
Closed(pf, exits, t) == ClosePositions(pf, exits, t, t - 1, regimes[t])

\* Mutant of ExitsOn: the last bar leaves every exit to the forced close.
ExitsBeforeLastBar(pf, bar) ==
  [p \in {q \in pf.positions : handled + 1 < LastBar /\ Exits(q, bar)} |->
     ExitOnBar(p, bar)]

ExitsOn(pf, bar) ==
  [p \in {q \in pf.positions : Exits(q, bar)} |-> ExitOnBar(p, bar)]

\* record_trade for each trade of after that before does not have.
Learnt(before, after) ==
  LET new == SubSeq(after.trades, Len(before.trades) + 1, Len(after.trades))
  IN  [r \in Regimes |-> perf[r] \o Samples(new, r)]

\* The signals the graph turns into an order on this bar.
Ordered(pf, bar) ==
  {s \in {FinalSignal(x) : x \in bar.signal} :
     Approves(s, pf, Last(pf.curve).equity, setup.quality, setup.enabled, <<>>)}

PendingOrder(s, pf, bar, t) ==
  [symbol |-> s.symbol, strategy |-> s.strategy, dir |-> s.dir,
   qty |-> Size(s, pf, Last(pf.curve).equity, <<>>), reference |-> s.entry,
   stop |-> s.stop, target |-> s.target, regime |-> bar.regime, queuedOn |-> t]

\* Mutant of Queued: the last bar queues an order too.
QueuedOnLastBar(pf, bar, t) == {PendingOrder(s, pf, bar, t) : s \in Ordered(pf, bar)}

\* No bar is left to fill an order of the last one.
Queued(pf, bar, t) ==
  IF t < LastBar THEN {PendingOrder(s, pf, bar, t) : s \in Ordered(pf, bar)} ELSE {}

\* The body of the loop on the next bar.  Unlike the paper engine this loop has
\* no handler around the graph: what it raises ends the run without a result.
HandleBar ==
  /\ outcome = "running" /\ handled < LastBar
  /\ LET t == handled + 1
         bar == frame[t]
         opened == Opened(bar, t)
         closed == Closed(opened, ExitsOn(opened, bar), t)
         marked == RecordSnapshot(TrackExcursions(closed, bar), t, bar.close)
         warm == handled >= Warmup
     IN  /\ handled' = t
         /\ port' = marked
         /\ perf' = Learnt(opened, closed)
         /\ IF warm /\ ~bar.fails
            THEN /\ regimes' = [regimes EXCEPT ![t] = bar.regime]
                 /\ pending' = Queued(marked, bar, t)
            ELSE pending' = {} /\ UNCHANGED regimes
         /\ outcome' = IF warm /\ bar.fails THEN "raised" ELSE "running"
  /\ UNCHANGED <<frame, setup>>

---------------------------------------------------------------------------
(* The end of the run *)

\* _close_all: each open position at the last close, without an ATR.
Liquidated ==
  LET close == frame[LastBar].close
  IN  Closed(port, [p \in port.positions |->
                      ExitFill(p, "END_OF_BACKTEST", close, 0)], LastBar)

\* The last snapshot is taken again, now that nothing is open.
Restated(pf) ==
  RecordSnapshot([pf EXCEPT !.curve = Front(@)], LastBar, frame[LastBar].close)

\* Mutant of Finish: the forced closes are not learnt from.
FinishUnlearnt ==
  /\ outcome = "running" /\ handled = LastBar
  /\ IF setup.closeAtEnd /\ port.positions # {}
     THEN port' = Restated(Liquidated)
     ELSE UNCHANGED port
  /\ outcome' = "result"
  /\ UNCHANGED <<frame, setup, handled, perf, pending, regimes>>

Finish ==
  /\ outcome = "running" /\ handled = LastBar
  /\ IF setup.closeAtEnd /\ port.positions # {}
     THEN port' = Restated(Liquidated) /\ perf' = Learnt(port, Liquidated)
     ELSE UNCHANGED <<port, perf>>
  /\ outcome' = "result"
  /\ UNCHANGED <<frame, setup, handled, pending, regimes>>

Next == HandleBar \/ Finish

Spec == Init /\ [][Next]_bvars

---------------------------------------------------------------------------
(* What a result promises *)

\* With close_positions_at_end the outcome of every position is in the metrics:
\* the last equity is the cash, the cash is the starting balance with the gross
\* and the costs of the trades, and the selector's table has a sample for each of
\* these trades (engine.py 219-233, 370-398).
EverythingRealised ==
  outcome = "result" /\ setup.closeAtEnd =>
    /\ port.positions = {}
    /\ port.cash = InitialBalance + SumOver(port.trades, LAMBDA x : x.gross - x.costs)
    /\ port.curve # <<>> => Last(port.curve).equity = port.cash
    /\ \A r \in Regimes : perf[r] = Samples(port.trades, r)

---------------------------------------------------------------------------
(* What the documentation says of a result *)

\* A fill's price is what was paid or received, spread and slippage included
\* (execution/models.py 91-92): what a closed account gained is the difference of
\* these prices less the commissions.  The code takes spread and slippage from
\* the cash once more.
CashFollowsFillPrices ==
  outcome = "result" /\ setup.closeAtEnd =>
    port.cash = InitialBalance
      + SumOver(port.trades, LAMBDA x : x.gross - Commission(x.qty, x.entry)
                                                - Commission(x.qty, x.exit))
=============================================================================
