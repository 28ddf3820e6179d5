--------------------------- MODULE BacktestParity ---------------------------
(* The backtester beside the paper engine on the same frame: for every bar    *)
(* the backtester handles, book takes the same bar through process_bar, the   *)
(* way catch_up of a fresh session does.                                      *)
EXTENDS Backtest

VARIABLE book  \* the paper engine's memory

pvars == <<bvars, book>>

ParityInit == Init /\ book = BlankBook

BothHandleBar ==
  /\ HandleBar
  /\ book' = ProcessBar(book, frame[handled'], handled', setup.enabled, setup.quality,
                        handled >= Warmup)

ParityNext == BothHandleBar \/ (Finish /\ UNCHANGED book)

ParitySpec == ParityInit /\ [][ParityNext]_pvars

---------------------------------------------------------------------------
\* A trade without the exit regime: the backtester reads the label before the
\* graph has set it, the paper engine keeps the one of the bar before.
Comparable(trades) ==
  [i \in DOMAIN trades |-> [trades[i] EXCEPT !.exitRegime = "UNKNOWN"]]

\* A position without the bar number its engine gave its entry.
Unnumbered(positions) == {[p EXCEPT !.entryIndex = 0] : p \in positions}

SameAccount(a, b) ==
  /\ \A f \in PortfolioFields \ {"positions", "trades"} : a[f] = b[f]
  /\ Unnumbered(a.positions) = Unnumbered(b.positions)

\* The two loops, written twice, are one execution model: bar for bar they hold
\* the same cash, positions, baselines and equity curve, queue the same order,
\* and record and learn from the same trades (tests/test_paper_trading.py 149).
\* A graph that raises ends the comparison: only the paper engine goes on.
TradeAlike ==
  outcome = "running" =>
    /\ SameAccount(port, book.port)
    /\ Comparable(port.trades) = Comparable(book.port.trades)
    /\ perf = book.perf
    /\ handled < LastBar => pending = book.pending

\* The forced close at the end adds trades and changes none: every trade both
\* engines have is the same (tests/test_paper_trading.py 157-160).
SharedTradesIdentical ==
  outcome = "result" =>
    LET shared == Len(book.port.trades)
    IN  /\ shared <= Len(port.trades)
        /\ Comparable(SubSeq(port.trades, 1, shared)) = Comparable(book.port.trades)
        /\ Len(port.trades) - shared
             = IF setup.closeAtEnd THEN Cardinality(book.port.positions) ELSE 0
        /\ \A i \in shared + 1 .. Len(port.trades) :
             port.trades[i].reason = "END_OF_BACKTEST"
=============================================================================
