------------------------ MODULE PaperTradingHistory ------------------------
(* The paper-trading session with a history variable: for every bar, the book *)
(* that its first processing produced.  It observes the session and decides   *)
(* nothing; RestartEquivalence is stated over it.                             *)
EXTENDS PaperTrading

VARIABLE ledger  \* bar number |-> the book first computed for it

hvars == <<vars, ledger>>

HInit == Init /\ ledger = [t \in {0} |-> BlankBook]

RecordFirst ==
  ledger' = [t \in DOMAIN ledger \cup {book'.watermark} |->
               IF t \in DOMAIN ledger THEN ledger[t] ELSE book']

HNext == Next /\ RecordFirst

HSpec == HInit /\ [][HNext]_hvars

\* A session that is stopped, crashed and restarted at any point computes bar for
\* bar what an uninterrupted run computes: whatever is in memory, and whatever
\* is in the file, is the book the first processing of its last bar produced
\* (docs/paper_trading.md 124-131; tests/test_paper_trading.py 672 and following).
\* It rests on every book the session computes being one that can be reloaded.
RestartEquivalence ==
  /\ \A t \in DOMAIN ledger : Recoverable(ledger[t])
  /\ book.watermark \in DOMAIN ledger /\ book = ledger[book.watermark]
  /\ file.status = "complete" =>
       /\ file.payload.book.watermark \in DOMAIN ledger
       /\ file.payload.book = ledger[file.payload.book.watermark]

---------------------------------------------------------------------------
Replay == INSTANCE UninterruptedReplay
            WITH run <- ledger, Blank <- BlankBook, OnBar <- ProcessBar

\* Processes, crashes, batched writes, damage and resets are invisible in what is
\* first computed for each bar: the session is one run of catch_up that never
\* stopped, and the same bar is never traded twice.
ImplementsUninterruptedReplay == Replay!Spec
=============================================================================
