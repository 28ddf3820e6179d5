---------------------------- MODULE PaperTrading ----------------------------
(* The restartable paper-trading session (app/paper_trading/engine.py).      *)
(*                                                                           *)
(* A process of scripts/run_paper_trading.py loads the state file, replays   *)
(* the unseen bars of a historical or a live frame through process_bar, and  *)
(* writes the state back through a temporary file.  It may crash between any *)
(* two of these steps, and the operator may restart it with another setting  *)
(* of the kill switch.  The market publishes bars in the meantime.           *)
EXTENDS BarLoop

CONSTANTS MaxBars,          \* bound on the length of the feed
          Window,           \* bars a live refresh fetches
          Warmup,           \* warmup_bars
          PersistEvery,     \* values of catch_up's persist_every
          Switch,           \* values of platform.trading_enabled
          Grades,           \* grades the quality gate may give a frame
          OmitGrade,        \* whether a caller of catch_up leaves the grade out
          MaxFaults         \* bound on crashes, damage to the file, and resets

ASSUME SessionAssumption ==
  /\ MaxBars \in Nat /\ Window \in Nat \ {0} /\ Warmup \in Nat /\ MaxFaults \in Nat
  /\ PersistEvery \subseteq Nat /\ Switch \subseteq BOOLEAN /\ OmitGrade \subseteq BOOLEAN
  /\ Grades \subseteq KnownGrades

VARIABLES feed,         \* the bars published so far
          book,         \* the engine's memory: _state and the portfolio it drives
          lastQuality,  \* _state["last_quality"]
          proc,         \* what the process is doing
          file,         \* the state file
          tmp,          \* the temporary file beside it
          faults        \* faults so far

vars == <<feed, book, lastQuality, proc, file, tmp, faults>>

---------------------------------------------------------------------------
AbsentFile == [status |-> "absent"]
DamagedFile == [status |-> "damaged"]
CompleteFile(payload) == [status |-> "complete", payload |-> payload]

---------------------------------------------------------------------------
(* The process *)

Down == [phase |-> "down"]
Idle(enabled) == [phase |-> "idle", enabled |-> enabled]

\* Mutant of CatchUp: the frame ends one bar too late.
CatchUpPastEnd(enabled, lo, hi, grade, every, live) ==
  [phase |-> "catchup", enabled |-> enabled, lo |-> lo, hi |-> hi + 1, grade |-> grade,
   every |-> every, live |-> live, unsaved |-> 0, outputs |-> FALSE]

\* A run of catch_up over bars lo .. hi; every is its persist_every.
CatchUp(enabled, lo, hi, grade, every, live) ==
  [phase |-> "catchup", enabled |-> enabled, lo |-> lo, hi |-> hi, grade |-> grade,
   every |-> every, live |-> live, unsaved |-> 0, outputs |-> FALSE]

\* _persist has been called and control goes back to back; torn: the temporary
\* file is open and not yet complete.
Saving(back, torn) ==
  [phase |-> "saving", enabled |-> back.enabled, back |-> back, torn |-> torn]

Init ==
  /\ feed = <<>>
  /\ book = BlankBook
  /\ lastQuality = "NONE"
  /\ proc = Down
  /\ file = AbsentFile
  /\ tmp = "absent"
  /\ faults = 0

\* The market publishes a bar.
Publish ==
  /\ Len(feed) < MaxBars
  /\ \E bar \in Bars : feed' = Append(feed, bar)
  /\ UNCHANGED <<book, lastQuality, proc, file, tmp, faults>>

\* __init__: load the state file.  An unreadable one is moved aside.
Start ==
  /\ proc = Down
  /\ \E enabled \in Switch : proc' = Idle(enabled)
  /\ IF file.status = "complete"
     THEN /\ book' = Restore(file.payload)
          /\ lastQuality' = file.payload.lastQuality
          /\ UNCHANGED file
     ELSE /\ book' = BlankBook
          /\ lastQuality' = "NONE"
          /\ file' = AbsentFile
  /\ UNCHANGED <<feed, tmp, faults>>

\* run_replay: catch_up over the whole history.
BeginReplay ==
  /\ proc.phase = "idle"
  /\ feed # <<>>
  /\ \E grade \in Grades, omit \in OmitGrade, every \in PersistEvery :
       proc' = CatchUp(proc.enabled, 1, Len(feed),
                       IF omit THEN "NONE" ELSE grade, every, FALSE)
  /\ UNCHANGED <<feed, book, lastQuality, file, tmp, faults>>

\* Mutant of BeginLive: the oldest bar of the window is taken for the one already held.
BeginLiveLate ==
  /\ proc.phase = "idle"
  /\ feed # <<>>
  /\ \E grade \in Grades :
       /\ lastQuality' = grade
       /\ proc' = CatchUp(proc.enabled, Max2(1, Len(feed) - Window + 2), Len(feed),
                          grade, 0, TRUE)
  /\ UNCHANGED <<feed, book, file, tmp, faults>>

\* run_live_tick after a refresh that succeeds: the newest Window bars, one
\* write at the end.
BeginLive ==
  /\ proc.phase = "idle"
  /\ feed # <<>>
  /\ \E grade \in Grades :
       /\ lastQuality' = grade
       /\ proc' = CatchUp(proc.enabled, Max2(1, Len(feed) - Window + 1), Len(feed),
                          grade, 0, TRUE)
  /\ UNCHANGED <<feed, book, file, tmp, faults>>

\* run_live_tick after a refresh that fails: no bar is processed, the state is written.
RefreshFails ==
  /\ proc.phase = "idle"
  /\ proc' = Saving(proc, FALSE)
  /\ UNCHANGED <<feed, book, lastQuality, file, tmp, faults>>

\* The next bar of the frame that is past the watermark.
NextBar == Max2(proc.lo, book.watermark + 1)

BarWaiting == proc.phase = "catchup" /\ NextBar <= proc.hi

ProcessNext ==
  /\ BarWaiting
  /\ LET quality == IF proc.grade = "NONE" THEN lastQuality ELSE proc.grade
         done == [proc EXCEPT !.unsaved = @ + 1, !.outputs = TRUE]
     IN  /\ book' = ProcessBar(book, feed[NextBar], NextBar, proc.enabled, quality,
                               NextBar - proc.lo >= Warmup)
         /\ lastQuality' = IF quality = "NONE" THEN "UNKNOWN" ELSE quality
         /\ proc' = IF proc.every > 0 /\ done.unsaved >= proc.every
                    THEN Saving([done EXCEPT !.unsaved = 0], FALSE) ELSE done
  /\ UNCHANGED <<feed, file, tmp, faults>>

\* Mutant of EndCatchUp: a pass that ends writes nothing.
EndCatchUpUnsaved ==
  /\ proc.phase = "catchup"
  /\ NextBar > proc.hi
  /\ proc' = Idle(proc.enabled)
  /\ UNCHANGED <<feed, book, lastQuality, file, tmp, faults>>

\* The frame is exhausted: the final write, if there is anything to write for.
EndCatchUp ==
  /\ proc.phase = "catchup"
  /\ NextBar > proc.hi
  /\ proc' = IF proc.outputs \/ proc.live
             THEN Saving(Idle(proc.enabled), FALSE) ELSE Idle(proc.enabled)
  /\ UNCHANGED <<feed, book, lastQuality, file, tmp, faults>>

\* _persist, first step: the temporary file is opened and being written.
OpenTmp ==
  /\ proc.phase = "saving" /\ ~proc.torn
  /\ tmp' = "torn"
  /\ proc' = Saving(proc.back, TRUE)
  /\ UNCHANGED <<feed, book, lastQuality, file, faults>>

\* _persist, second step: the complete temporary file replaces the state file.
ReplaceFile ==
  /\ proc.phase = "saving" /\ proc.torn
  /\ file' = CompleteFile(Serialise(book, lastQuality))
  /\ tmp' = "absent"
  /\ proc' = proc.back
  /\ UNCHANGED <<feed, book, lastQuality, faults>>

Lose == book' = BlankBook /\ lastQuality' = "NONE" /\ proc' = Down

\* The process returns.
Stop ==
  /\ proc.phase = "idle"
  /\ Lose
  /\ UNCHANGED <<feed, file, tmp, faults>>

Fault == faults < MaxFaults /\ faults' = faults + 1

\* The process dies, wherever it is.
Crash ==
  /\ proc # Down
  /\ Fault
  /\ Lose
  /\ UNCHANGED <<feed, file, tmp>>

\* Something other than the program makes the state file unreadable.
Damage ==
  /\ file.status = "complete"
  /\ Fault
  /\ file' = DamagedFile
  /\ UNCHANGED <<feed, book, lastQuality, proc, tmp>>

\* --reset: the next process archives the state file before it starts.
Reset ==
  /\ proc = Down
  /\ file # AbsentFile
  /\ Fault
  /\ file' = AbsentFile
  /\ UNCHANGED <<feed, book, lastQuality, proc, tmp>>

Next ==
  \/ Publish
  \/ Start \/ BeginReplay \/ BeginLive \/ RefreshFails
  \/ ProcessNext \/ EndCatchUp
  \/ OpenTmp \/ ReplaceFile
  \/ Stop \/ Crash \/ Damage \/ Reset

Spec == Init /\ [][Next]_vars

\* The operator's scheduler: a command is started again whenever none runs, and
\* a process that is started gets to fetch and go on.  Faults are not fair.
\* ProcessNext is enabled exactly when BarWaiting holds, and always changes proc,
\* so the disjunction is WF_vars(ProcessNext) with its ENABLED written out.
Fairness ==
  /\ WF_vars(Start) /\ SF_vars(BeginLive)
  /\ []<>~BarWaiting \/ []<><<ProcessNext>>_vars
  /\ WF_vars(EndCatchUp) /\ WF_vars(OpenTmp) /\ WF_vars(ReplaceFile)

FairSpec == Spec /\ Fairness

---------------------------------------------------------------------------
(* Type invariant *)

IdleJobs == [phase: {"idle"}, enabled: Switch]
CatchUpJobs ==
  [phase: {"catchup"}, enabled: Switch, lo: Nat \ {0}, hi: Nat,
   grade: Grades \cup {"NONE"}, every: Nat, live: BOOLEAN, unsaved: Nat,
   outputs: BOOLEAN]
SavingJobs ==
  [phase: {"saving"}, enabled: Switch, back: IdleJobs \cup CatchUpJobs, torn: BOOLEAN]

\* A frame holds published bars only.
FrameOK(job) == job.phase = "catchup" => job.hi <= Len(feed)

FeedOK == feed \in Seq(Bars) /\ Len(feed) <= MaxBars
BookOK(b) == IsBook(b) /\ b.watermark <= Len(feed)
ProcOK ==
  /\ proc \in {Down} \cup IdleJobs \cup CatchUpJobs \cup SavingJobs
  /\ FrameOK(proc)
  /\ proc.phase = "saving" => FrameOK(proc.back)
FileOK ==
  /\ file.status \in {"absent", "complete", "damaged"}
  /\ file.status = "complete" => BookOK(file.payload.book)
  /\ tmp \in {"absent", "torn"}

\* The shape of every variable.  Neither the book in memory nor the one in the
\* file speaks of a bar that has not been published.
TypeOK ==
  /\ FeedOK
  /\ BookOK(book)
  /\ ProcOK
  /\ FileOK
  /\ faults \in 0 .. MaxFaults

---------------------------------------------------------------------------
(* Safety *)

\* Cash, realised P&L and total costs agree with the trades and the entry costs of
\* the positions still open, and the last point of the curve is the equity at
\* the last close -- after any number of crashes and reloads, although the
\* file stores each of these numbers on its own (portfolio.py 118-187, engine.py 194-228).
BooksReconcile ==
  LET port == book.port
      entryCosts == SumFunction([p \in port.positions |-> p.entryCosts])
  IN  /\ port.realised = SumOver(port.trades, LAMBDA x : x.net)
      /\ port.costs = SumOver(port.trades, LAMBDA x : x.costs) + entryCosts
      /\ port.cash = InitialBalance + SumOver(port.trades, LAMBDA x : x.gross) - port.costs
      /\ port.curve # <<>> => Last(port.curve).equity = Equity(port, book.lastClose)

\* An order is never queued that could open a position beyond the limits: open
\* positions and the queued order together stay within them, although the
\* count is checked one bar before the position opens (risk/engine.py 143-148).
PositionLimit == Exposures(book) <= PositionCap

\* No position stays open once the price has traded through its stop: not across
\* a gap, not on the bar it was entered, not across a restart.
StopsHonoured == \A p \in book.port.positions : NotThroughStop(p)

\* A queued order gets one chance: it fills on the first bar the session goes on to
\* process, later than the bar it was queued on, or never.  No bar with a point on
\* the equity curve lies between the two -- across writes, crashes, reloads of an older
\* file, and live windows that leave bars out (engine.py 806, 1013-1028).
FilledAtOnce(x, curve) ==
  /\ x.queuedOn < x.entryBar
  /\ \A i \in DOMAIN curve : curve[i].bar <= x.queuedOn \/ x.entryBar <= curve[i].bar
FillsOnNextProcessedBar ==
  LET port == book.port
  IN  /\ \A p \in port.positions : FilledAtOnce(p, port.curve)
      /\ \A i \in DOMAIN port.trades : FilledAtOnce(port.trades[i], port.curve)

\* The drawdown peak and the daily-loss baseline are those of the equity curve:
\* no restart widens a risk limit by forgetting a loss (portfolio.py 267-286).
HistoricalPeak(port) ==
  Max({InitialBalance} \cup {port.curve[i].equity : i \in DOMAIN port.curve})
EarlierDays(port) == {i \in DOMAIN port.curve : Day(port.curve[i].bar) < port.day}
BaselinesMatchHistory ==
  LET port == book.port
  IN  /\ port.peak = HistoricalPeak(port)
      /\ port.dayStart = IF EarlierDays(port) = {} THEN InitialBalance
                         ELSE port.curve[Max(EarlierDays(port))].equity

\* The selector's performance table holds exactly one sample for each closed
\* trade, under the regime it was entered in: a reload neither drops nor
\* repeats one (engine.py 463-481).
PerformanceMatchesTrades ==
  \A r \in Regimes : book.perf[r] = Samples(book.port.trades, r)

\* A queued order was sized on the bar just processed, and with every stop hit at
\* once the account loses no more than the portfolio risk budget; it was not
\* queued in a drawdown or a daily loss that the whole recorded history puts
\* beyond the limit.
QueuedOrderJustified ==
  \A o \in book.pending :
    LET port == book.port
        equity == Last(port.curve).equity
    IN  /\ o.queuedOn = book.watermark
        /\ OpenRisk(port.positions) + o.qty * Abs(o.reference - o.stop)
             <= Percent(equity, Risk.maxPortfolioRisk)
        /\ ~LossReaches(HistoricalPeak(port), equity, Risk.maxDrawdown)

---------------------------------------------------------------------------
(* Action properties *)

\* The grade the next bar is sized against: that of its frame, or for a frame that
\* carries none the last one recorded, by this process or by the one that wrote the file.
SizingGrade == IF proc.grade = "NONE" THEN lastQuality ELSE proc.grade

\* A new order is queued only by a process whose kill switch is on, and on a grade the
\* risk engine accepts -- the frame's own, or for a frame without one the last grade the
\* session recorded.  A session that was never given a grade queues nothing, where the
\* risk engine insists on one.  A restart carries neither the switch nor a better
\* grade over (engine.py 793).
QueuesOnlyWhenPermitted ==
  [][proc.phase = "catchup" /\ book'.pending \ book.pending # {} =>
       /\ proc.enabled /\ QualityAccepted(SizingGrade)
       /\ Risk.requireKnown => SizingGrade \in KnownGrades]_vars

\* While the kill switch is off no position opens (risk/engine.py 59).
NothingOpensWhileDisabled ==
  [][proc.phase = "catchup" /\ ~proc.enabled =>
       \A p \in book'.port.positions : p.entryBar # book'.watermark]_vars

\* What the file records as done stays done: a later write never moves the
\* watermark back, and extends the recorded trades and equity curve without
\* rewriting them.  Only damage to the file and a reset lose history.
DurableHistoryGrows ==
  [][file.status = "complete" /\ file'.status = "complete" =>
       LET old == file.payload.book
           new == file'.payload.book
       IN  /\ old.watermark <= new.watermark
           /\ IsPrefix(old.port.trades, new.port.trades)
           /\ IsPrefix(old.port.curve, new.port.curve)]_vars

---------------------------------------------------------------------------
(* Liveness *)

\* Every published bar has its point in the file, except the bars that were no longer in
\* the live window when the session went on: such a bar lies before one that was
\* processed, and the window that begins there has been published whole.  (The bound
\* on the equity curve must not be below MaxBars, so that no point has been cut.)
OutOfWindow(t, done) ==
  \E u \in done : /\ t < u /\ u + Window - 1 <= Len(feed)
                  /\ \A v \in done : v < t \/ u <= v
AllDurable ==
  /\ file.status = "complete"
  /\ LET port == file.payload.book.port
         done == {port.curve[i].bar : i \in DOMAIN port.curve}
     IN  /\ file.payload.book.watermark = Len(feed)
         /\ \A t \in 1 .. Len(feed) : t \in done \/ OutOfWindow(t, done)

\* However the faults fall, the session catches up with the market: every published bar is
\* eventually in the file for good, or left out by a live window.
EventuallyDurable == <>[](feed # <<>> => AllDurable)
=============================================================================
