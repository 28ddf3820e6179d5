# Trader-team in TLA+

Specifications of the trading-research platform under `src/`: the road from a
vendor's bars to a decision, what the paper-trading session and the backtester
do with it across bars, restarts and crashes, and what the research layer may
claim afterwards. They are checked with TLC on small instances; every invariant of
the passing runs, the action properties and the safety part of the refinement
are also proved with TLAPS for every value of the constants (section 4).

Run inside this directory:

    tlc -workers 2 -config PaperRestart.cfg MCPaperTradingHistory
    tlc -workers 2 -config PaperGates.cfg   MCPaperTrading
    tlc -workers 2 -config Reports.cfg      MCSessionReportsHistory
    tlc -workers 2 -config MarketData.cfg   MCMarketData
    tlc -workers 2 -config Decision.cfg     MCDecision
    tlc -workers 2 -config Research.cfg     MCResearch
    tlapm PaperTradingProofs.tla      (and the other *Proofs modules)

`PROJECT.json` lists the runs, the mutants that show each property can fail, the
source lines behind each definition, the hazards and the theorems.

## 1. Inventory

The program takes OHLCV bars through one pipeline: load and clean the data,
compute causal features, name the regime, let the strategies give signals,
aggregate them, let the risk engine size an order, fill it at the *next* bar's
open, and account for it. Two drivers run this pipeline bar by bar, the
backtester over a whole history and the paper engine over whatever bars it has
not seen yet. The research layer runs many backtests and keeps records about
them; the dashboard reads the paper engine's state file.

| Component (`src/app/...`) | State it keeps | Operations | Hard behaviour | What makes it correct |
|---|---|---|---|---|
| `paper_trading/engine.py`: session | `_state`, portfolio, performance table, watermark; one JSON file and its `.tmp` | load, replay (`catch_up`), live tick, persist, `--reset` | crash between any two steps; batched writes; live window that misses bars; kill switch changed by a restart | a session restarted anywhere computes what an uninterrupted one does; nothing recorded is lost |
| `paper_trading/engine.py`: bar loop | the order queue, last regime, counters | fill, exit, mark, decide, queue | order of the four steps; one bar between sizing and filling | fills on the next open; stops honoured; at most one queued order |
| `execution/` | none | `execute`, `check_exit`, `exit_fill` | gaps, a bar touching stop and target, slippage models | no position survives its stop; costs counted once |
| `portfolio/` | cash, positions, trades, curve, drawdown peak, day baseline | open, close, track, snapshot, restore baselines | long sequences of trades; baselines not derivable from the rest | cash, P&L and costs agree with the trades; baselines agree with the curve |
| `risk/` | none of its own | `evaluate` | shared budgets; counting before the fill; absent grade | limits hold of positions and queue together |
| `signals/` | realised performance per strategy and regime | selector weights, votes, conflict policies | samples stored under another name than they are looked up | weights sum to one; a suppressed strategy does not decide |
| `graph/` | one decision state per bar | node sequence, routing, error lane | a node that raises; early exits | no order without a risk decision |
| `backtest/` | portfolio, pending order | the same bar loop with a forced close | two hand-written copies of one loop | the backtester and the paper engine trade alike |
| `data/cache.py`, `data/service.py` | payload and manifest files | save, load, merge, refresh, grade | two files written one after the other; holes after a merge | what is served passed the gate and matches its manifest |
| `data/validators`, `data/processors` | none | clean, resample, grade | ordering and duplicates at bucket edges | idempotent, ordered, no look-ahead |
| `features/`, `regimes/`, `strategies/` | a features cache in the engine | pure computations | causality; cache keyed by length and last bar | a value at bar t uses bars up to t |
| `research/holdout.py`, `budget.py`, `experiments.py` | SQLite rows: seals, touches, trials | seal, evaluate, count | two evaluations at once; overlapping windows; forced re-runs | a first touch is first; the budget is never exceeded |
| `research/feedback.py` | none; derives a configuration | recommend, apply | one of several refused | untested evidence never changes a weight |
| `research/splits.py`, `walk_forward.py`, `study.py` | windows | split, run, select | boundaries, embargo | in-sample and out-of-sample never overlap |
| `research/` statistics, reports | none | pure numerics and text | | |
| `config/` | cached configuration | load, merge, validate | | bounds used as assumptions here |
| `paper_trading/engine.py`, `records.py`, `performance.py`: reports | market lane, error and trade logs | freshness, health, statistics | written with the session and read much later, by readers that load the file | trouble is shown, evidence is not overstated, attribution stays |
| `dashboard/`, `scripts/` | none | read, print, start an engine | reading while the engine writes | never sees half a file |

Interactions: `scripts/run_paper_trading.py` starts one `PaperTradingEngine` per
invocation. The engine calls the data service for frames, the graph for a
decision, the graph calls the risk engine, the engine calls the simulator and
the portfolio for fills and exits, feeds every closed trade back to the
selector's performance table, and writes everything to one file. Everything is
synchronous within the process; concurrency comes from the market publishing
bars, from processes dying, and from an operator who restarts them with another
setting.

## 2. Modules

    Execution <- Portfolio <- RiskEngine <- BarLoop <- PaperTrading <- PaperTradingHistory
                                               ^-- UninterruptedReplay (abstract) --^
                                               ^-- Backtest <- BacktestParity
    SessionReports <- SessionReportsHistory
    OhlcvFrames <- DataQuality <- MarketData
    Indicators <- Features <- Regimes <- Strategies <- Signals <- DecisionGraph -> RiskEngine
    Splits <- Evidence <- Assessment <- Feedback <- ValidationStudy

The groups meet where the code's components exchange plain values: a frame
with its grade (`MarketData` to the bar loops), a signal with its levels
(`DecisionGraph` to the bar loops), the log of a backtest (`Backtest` to
`Evidence`). Each group takes such a value from a small set instead of computing
it again.

| Module | Stands for | Content |
|---|---|---|
| `Execution` | `execution/simulator.py`, `models.py` | fill prices, costs, the exit tests and their order, gaps |
| `Portfolio` | `portfolio/portfolio.py` | a portfolio as a record; open, close, track, snapshot, drawdown tests |
| `RiskEngine` | `risk/engine.py` | grade gate, switch, limits, budgets, size |
| `BarLoop` | `process_bar` and everything it calls; the state file | a *book* = `_state` + portfolio + performance table; `ProcessBar`, `Serialise`, `Restore` |
| `PaperTrading` | the session | variables, one action per step of the process, faults, properties |
| `PaperTradingHistory` | an observer | records the book first computed for each bar; states restart equivalence |
| `UninterruptedReplay` | the promise | one `catch_up` that never stops, each published bar once and in order |
| `SessionReports` | the reports of the session, `records.py`, `performance.py` | market lane, health, errors, trade log and statistics; several runners and readers on one file |
| `SessionReportsHistory` | an observer | remembers what happened to the state file; states what a reader must be told |
| `Backtest` | `backtest/engine.py` | one pass over a complete frame, the forced close, what a result promises |
| `BacktestParity` | backtester and paper engine side by side | the same frame through both loops, compared bar for bar |
| `OhlcvFrames` | `data/schema.py`, `processors/`, `cache.merge` | frames as sets of rows: schema, cleaning with its counts, merging, resampling, slicing |
| `DataQuality` | `validators/quality.py` | every check and the grade |
| `MarketData` | `data/service.py`, `cache.py`, `loaders/` | requests of several processes over one cached series, file by file |
| `Indicators`, `Features` | `features/` | the panel of features, in integers, with warm-up and late publication |
| `Regimes`, `Strategies`, `Signals` | `regimes/`, `strategies/`, `signals/` | what the detector says, what each strategy proposes, what they add up to |
| `DecisionGraph` | `graph/` | one run over one bar: nodes in any order the fan-out allows, any of them raising |
| `Splits` | `research/splits.py` | the windows of a study and of its folds |
| `Evidence` | `harness`, `robustness`, `cost_stress`, `correlation`, `walk_forward` | what a study measures: runs, sweeps, scenarios, redundancy, the choice of a candidate |
| `Assessment` | `overfitting.py`, `report.py` | findings, verdict, evidence table |
| `Feedback` | `research/feedback.py` | recommendations, and how they are applied |
| `ValidationStudy` | `research/study.py`, `holdout.py`, `experiments.py`, `context.py` | studies step by step over one ledger, one store, one report directory |
| `MC...` | - | bars, frames, series and configurations for TLC |
| `PortfolioProofs`, `BarLoopProofs` | - | lemmas about sums, the account, the risk engine, one bar, and the trip through the file |
| `PaperTradingProofs`, `MarketDataProofs`, `SessionReportsProofs`, `BacktestProofs`, `DecisionGraphProofs`, `ValidationStudyProofs` | - | the theorems of section 4, each module about the one its name begins with; `BacktestProofs` also about `BacktestParity`, `DecisionGraphProofs` also about `Features` |

**State.** `feed` is the market; `book` and `lastQuality` are the engine's memory
(`_state`, `portfolio`, `performance`); `proc` is the control point of the
process: down, idle, inside `catch_up` over bars `lo .. hi`, or inside
`_persist`; `file` and `tmp` are the state file (absent, complete, damaged) and
the temporary file; `faults` counts faults against the bound `MaxFaults`.

**Actions.** `Publish` (the market); `Start` (`__init__` and `load_state`, which
moves an unreadable file aside); `BeginReplay` (`run_replay`); `BeginLive` and
`RefreshFails` (`run_live_tick` after a refresh that succeeds or fails);
`ProcessNext` (one whole `process_bar`, with the write that `persist_every` asks
for); `EndCatchUp` (end of `catch_up`); `OpenTmp` and `ReplaceFile` (the two
steps of `_persist`); `Stop`; `Crash` anywhere; `Damage`; `Reset` (`--reset`).

**Reports.** `SessionReports` keeps what `BarLoop` leaves out of a session: the
market lane, the two logs of trades (the portfolio's and the one for display),
the selector's counts, the errors. `mem` is the engine of each writer and `proc`
its place in a command or in the three steps of `_persist`; `handle` is the file
it has open, because a replacement renames a file that another runner may still
write. `Look` is a reader that finds the file unreadable; readers of a good file
change nothing, and what they are shown is `Shown`. Trading is reduced to what a
bar may bring (`Outcomes`); the lane's rows, provider and caveats, and all means
and sums of the statistics are left out. A session also carries, for the
properties only, every trade it closed and whether it ever failed; `raced` records
whether two runners ever saved at the same time. What a session forgets together
with its file is remembered outside it, by `SessionReportsHistory`: whether trouble
was ever saved or a saved session lost (`troubled`), whether somebody moved a file aside
and nobody has saved a session that says so (`aside`), and whether two runners were ever
up at once (`overlapped`).

**The backtester** keeps its own variables: `frame` and `setup` (the arguments),
`port`, `perf`, `pending` and `regimes` (the locals of `run`), `handled` and
`outcome`. `HandleBar` is the body of its loop, `Finish` the forced close, the
restated snapshot and the result. It shares with the paper engine what the code
shares (portfolio, simulator, risk engine) and the two functions that are word
for word the same (`PositionOf`, `StopStillValid`); everything else is
translated from the backtester. Starting balances and warm-ups are taken to be
equal in both engines, as the test of their agreement sets them up. In
`BacktestParity` every `HandleBar` is accompanied by the `ProcessBar` of a fresh
paper session.

**Market data.** A job of a process goes through `ReadManifest`, `ReadPayload`,
`Fetch` (one attempt each), `OpenTmp`, `FillTmp`, `SwapPayload`, `OpenManifest`,
`SealManifest`, `Deliver`; each is one effect on a file or the vendor, so that
another process, a crash or the clock may come in between. The temporary file
has one name for all processes, as in the code; a process that holds a file open
writes to it under whatever name it has by then.

**Decision graph.** One action per node; `StrategyNode` may run for the enabled
strategies in any order, and `SelectionNode` waits for all of them. A node that
raises writes nothing but its error. What a run may not have computed is an
empty set. Prices are integers, averages are in hundredths, confidences in
percent, weights in thousandths; the model computes the same features from bars
as the code, without its floating point.

**Research.** `ValidationStudy` has one action per step of `ValidationStudy.run`.
Where the code opens a database connection of its own, the model has an action
of its own: looking a seal up and inserting it, counting touches and inserting
one, reading the status. A write to the store may fail, which the code logs and
swallows; a process may die anywhere; writing the report may fail half way.
`run` holds what a study has in memory, `published` is a record of the reports
completely written, `searched` a record of the configurations tried while the
store was listening. Windows are positions from 0 as in `splits.py`.

**Abstractions.**
- Market data: a row is the bar it opens, whether the bar had closed, and the one
  thing that is the matter with it; two rows with the same record are the same
  data, so that a checksum is the rows themselves. The code keeps every frame sorted by
  time, so a frame is the set of its rows. Time counts source bars.
- Decision: the timestamps, reasons and traces of the state are left out, and so
  is everything no later node reads.
- Research: a backtest, the grade of a window and the deflated Sharpe ratio are
  parameters. Expectancy stands for the objective; the Sharpe ratio is the mean
  profit of a bar. A trial is a configuration and a data set, because counts
  distinguish nothing else; a store that fails in a step loses the trials of that
  step; seed and revision are not part of an experiment's id; there is one
  timeframe. The report is the part of `to_dict` a later reader depends on.
- Bar loops: a bar carries what the layers below derive from it: ATR (0 when absent), the
  regime, the aggregated signal if any, and whether the graph raises. So nothing
  depends on how features or strategies compute these. They are causal, which is
  what makes a bar's derived values the same in every process; the session assumes
  it, `PointInTime` of the run `Decision` checks it and `NothingKnowsTheFuture` proves it. Published bars are final: the data service drops a bar that
  is still forming, and a vendor's later revision is not modelled.
- Prices are integer ticks and money integer units, fractions are percents or
  basis points, and divisions round down. Rounding is consistent on both sides
  of every comparison, so the properties are about the order of operations and
  the bookkeeping, not about floating point.
- `catch_up`'s final write and `run_live_tick`'s own write straight after it,
  with nothing in between, are one `Saving`.
- Each order carries `queuedOn`, and each position and trade inherits it. It
  stands for the bar the code writes on the order (`queued_on_bar`); no decision of
  the model reads it.
- Trades leave out free-form metadata. The event, error, order and fill logs, the
  market lane and the decision view are not part of a book: nothing that trades
  reads them.
- A state file that is damaged is replaced by an absent one at the next start;
  a failure to rename it is not modelled.
- The session proper has one process at a time; `SessionReports` has several.

## 3. Runs

| Run | Question | Instance |
|---|---|---|
| `PaperRestart` | Does a session that is stopped, crashed, reset or robbed of its file anywhere keep its accounts and compute what an uninterrupted run computes? | 4 bars out of calm, rally, plunge (gap through the stop) and wide (stop and target in one bar); 2 bars a day; writes every 2 bars or at the end; 1 fault; frames cover everything |
| `PaperGates` | Do the limits of the risk engine hold of positions and queue, does an order get one chance, and is every bar that a frame still holds eventually saved? | two positions allowed, longs and shorts, 4 bars with an outage, a day of 3 bars, live window of 2, writes at once or at the end, grades PASS and FAIL given or left out, switch on and off, 1 fault, fairness |
| `Reports` | Does what is reported of trades, evidence, trouble and the newest bar stay true? | 2 runners and readers, 2 bars, each with a trade with an R or with one without and an error of the graph; 3 commands, a log of 1 trade, 1 sample to move a weight, 1 fault |
| `BacktestParity` | Do the two hand-written loops trade alike, and is the result of a backtest complete? | every frame of up to 5 bars out of calm, rally, plunge, wide and outage; two positions allowed; warm-up of 1; with and without `max_bars`, forced close and a usable grade |
| `MarketData` | Is what is served what the vendor published, and does every request end? | 2 processes, 2 requests out of 4 (cached, refreshed, resampled, latest), 3 bars of which one is repaired and one reported twice, an expiry of 1 bar, 1 retry, 1 fault |
| `Decision` | Does a decision use the past only, keep to the budget and end? | 10 frames of 7 to 9 bars, two bars each, replayed and live, five strategies, three ways to vote, three accounts, 1 node raising |
| `Research` | Are the claims of a study about its windows, its search and its looks true? | 2 processes, 2 studies out of 7 in 3 markets, series of 13 and 19 bars, one restated after the seal, 3 folds, 1 fault |
| `PaperKillSwitch`, `BacktestCosts`, `ResearchFinalWindow`, `ResearchSealedBars`, `ReportsAttribution` | Does the code do what one sentence of its documentation says? | violated; see section 6 |

Properties of `PaperRestart`:
- `BooksReconcile`: cash, realised P&L and costs, stored separately in the file,
  agree with the trades and the open positions' entry costs.
- `StopsHonoured`: no position stays open once the price traded through its stop.
- `BaselinesMatchHistory`: drawdown peak and day baseline are those of the curve.
- `PerformanceMatchesTrades`: exactly one sample per closed trade, in its regime.
- `RestartEquivalence`: whatever is in memory or in the file is the book that the
  *first* processing of its last bar produced, and every such book can be reloaded
  (`Recoverable`).
- `DurableHistoryGrows`: a later write never moves the watermark back and only
  extends the recorded trades and curve.
- `ImplementsUninterruptedReplay`: the session refines `UninterruptedReplay`.

Of `PaperGates`: `PositionLimit`, `QueuedOrderJustified` (the order was sized on
the bar just processed, its risk and the open risk fit the portfolio budget
against the whole curve's drawdown), `FillsOnNextProcessedBar` (an order fills on the first
bar processed after the one that queued it, or never; the window of 2 makes live
ticks skip bars, so that this bar need not be the next one published),
`QueuesOnlyWhenPermitted` (the switch is on and the grade in force, given with the frame or the
last one recorded, is one the risk engine accepts), and under fairness
`EventuallyDurable`: every published bar has its point in the saved curve, except bars that
had left the window of the live frame when the session went on. That exception is exact
(`OutOfWindow`): the bars left out end where a whole window of published bars
begins. A live tick that fetched one bar less is the mutant that breaks it.

Of `Reports`: `RecordsAreTail` (the displayed log, appended to in one place and
rebuilt from the portfolio in another, is the end of the session's trades),
`EvidenceAgrees` (what the page calls sufficient moves a weight, and what moves a
weight is sufficient over the whole session), `TroubleIsShown` (a session that
ever failed never calls itself healthy again; and once trouble was saved, or a saved session
lost, neither does the file, whoever reads it, unless two runners overlapped, where the
later one writes back what it loaded, or somebody moved the file aside and has
not saved what it knew: a reader never does, see section 6), `VisibleFileComplete` (only two
runners that save at once can tear the state file, and no reader is shown a bar
the saved session has not processed).

Of `MarketData`: `ServedIsGenuine` (no crash, damage or second writer makes the
cache serve a row nobody published), `DownloadedBarsWin` (a cached copy of a bar
never survives a download), `FormingBarOnlyByRace` (the latest bars hold a bar that
is still forming only if a bar closed between download and check),
`RepairsReported` (a repaired bar is counted in the report, also when it comes out
of the cache), `AnswersRequest` (bounds, order, no repetition), `RequestsEnd`.

Of `Decision`: `PointInTime` (the regime and every proposal are what they would be
if no later bar were known), `SilencedDoNotVote` (suppressed strategies change
neither the direction nor the confidence of a weighted vote; that they do supply stop and
target, are listed as contributors and can veto a unanimous vote is section 6), `OrderWithinRisk`
(the order keeps to the budget, and its stop is no farther than any supporter's),
`NoOrderAfterFailure` (no order from a run that lost a judgement), `RunsEnd`.

Of `Research`: `FreshLookIsUnique` (at most one report ever claims the first look
at a window, although counting and inserting are separate transactions: the code
reads the status *after* its own insertion), `PublishedLooksAreLedgered` (no result
on a final window is published without its look, or on other bars than those
sealed), `WindowsKeepApart` (embargo, warm-up, no lost bar, no bar
scored by two folds), `NothingLeaksBack` (every choice is the same when all later
bars are blanked), `VerdictAgreesWithEvidence` (a report that survived has no row
that says otherwise), `AppliedIsEvidenced` (a weight moves only on enough folds and
trades, never too far, and never past a closed gate), `ContextHonest` (what is
shown as available is a complete, latest report of this configuration),
`SearchCounted` (a study is assessed under all the configurations that any study
tried on its data).

Of `BacktestParity`: `TradeAlike` (after every bar both engines hold the same
account, queue the same order, and record and learn from the same trades),
`SharedTradesIdentical` (the forced close adds one trade for each position still open,
and changes none), `EverythingRealised` (after the forced close the last
equity is the cash, the cash follows from the trades, the selector's table has
each trade once). Trades are compared without the exit
regime, in which the engines differ (section 6). A graph that raises ends a
backtest without a result while the paper engine records it and goes on, so the
comparison stops there.

**Bounds.** The longest story these properties need is: queue, fill, exit, reload,
continue, which takes four bars; `PaperRestart` has four, over two days, so
that the day's baseline changes with a position open or just closed. One fault is enough to interrupt any step, because
`Stop` and `Start` add unlimited orderly restarts around it. `PaperGates` needs
four because two orders must fill before a third is refused, the fourth opens a new day, and a window of 2 lets
it skip bars, with an order in the queue or with none. A plunge through
the stop takes more than the drawdown limit of 20 percent, so the limit is reached
within the instance. History limits are 10, so that no
history is cut in these runs: cutting is covered by the assumption
`Recoverable` and by the theorem `RoundTrip`, and is where the code stops being
restart-equivalent by design (1 000 trades, 5 000 points).

In `Reports` two bars close more trades than the log holds, a reload may come
between them, and three commands are what it takes for a runner to write into a
file that others have replaced twice.

In `MarketData` three bars let one close between any two steps of a request and
leave one that is forming; the second request meets the files of the first, or
runs beside it. In `Decision` the frames were searched for: they
make every strategy propose, on both sides, each regime appear, votes conflict,
and a swing be confirmed after the decided bar. In `Research` two
studies are what the races need (a third adds nobody who could be first), and the
markets were chosen so that each verdict, each recommendation, blocked and
applicable, and each answer of the context occurs; the validation window of the
19-bar series is the final window of the 13-bar series. Thresholds of the source
that count trades or trials are scaled to this size in the `.cfg`.

**Fairness.** In `MarketData` every step of a process that has a request is weakly
fair (a thread runs on, and crashes are bounded by `MaxFaults`); in `Decision` a
scheduled node runs. `PaperGates` assumes what a scheduler (cron, the operator) does: start
a command whenever none runs (`WF` of `Start`), and that the command, once
running, takes its steps (`WF` of `ProcessNext`, `EndCatchUp`, `OpenTmp`,
`ReplaceFile`). `BeginLive` needs strong fairness: `Stop` is always possible and
failed refreshes can alternate with it, so a live refresh is enabled infinitely
often but not continuously; the assumption says that fetches do not fail for
ever. Replays and faults are not fair. `ProcessNext`'s weak fairness is written
with its enabling condition spelled out because TLC evaluates `ENABLED` of that
action slowly. Deadlock is checked in every run of the session, which can always stop or
start; a backtest, a decision and a bounded number of requests or studies end, so
the other runs do not check it.

Every property has a mutant in `PROJECT.json`: a definition replaced by a
plausible bug (a queue not emptied, a baseline forgotten on reload, excursions
in the wrong order, a switch not consulted, a frame one bar too long) under
which TLC finds it violated. The mutated operators stand right before the
originals and are called mutants or defects there.

## 4. What is proved

Everything below holds for every feed and every history, every configuration in the
ranges that the code validates (`app/config/models.py`; the named `ASSUME`s of the
modules, which TLC evaluates), and any number of bars, processes, sessions, studies
and faults. A theorem that needs more names it as a hypothesis, and the
hypotheses are discussed with it.

### The paper session (`PaperTradingProofs`, on `BarLoopProofs` and `PortfolioProofs`)

| Theorem | Property | Hypothesis |
|---|---|---|
| `TypeCorrect` | `TypeOK` | |
| `StopsAlwaysHonoured`, `PositionLimitHolds` | `StopsHonoured`, `PositionLimit` | |
| `QueueingPermitted` | `QueuesOnlyWhenPermitted` | |
| `FillsAlwaysOnNextProcessedBar` | `FillsOnNextProcessedBar` | |
| `FillsAlwaysOnNextBar` | `FillsOnNextBar` | `[]NoBarMissed` |
| `BooksAlwaysReconcile`, `PerformanceAlwaysMatches` | `BooksReconcile`, `PerformanceMatchesTrades` | `[]TradesFit(book)` |
| `BaselinesAlwaysMatch`, `QueuedOrderAlwaysJustified` | `BaselinesMatchHistory`, `QueuedOrderJustified` | `[]Recoverable(book)` |
| `DurableHistoryAlwaysGrows` | `DurableHistoryGrows` | `[]Recoverable(book)` |

The hypotheses are those under which the code itself keeps the promise.
`TradesFit`: no more trades were closed than the file keeps (1 000); beyond that a
reload computes the totals from fewer trades than the session closed.
`Recoverable`: in addition the curve fits the file and no baseline is zero or less,
which the file cannot tell from an absent one. `NoBarMissed`: no live window began
after a bar that nobody had processed; without it an order fills late (section 6), and
`FillsAlwaysOnNextBar` shows that there is no other way. Each is a condition on reachable states that
the runs of section 3 satisfy or violate as they please, and each theorem is
about the behaviours that satisfy it.

The pattern is the same throughout. A property of the book in memory is not
inductive, because `Start` replaces that book by the one in the file. So each invariant
speaks of the book in memory and of the one in the file (`Safe`, `BothInTurn`, `BothTimely`,
`BothReconciled`, `BothHistorical`); the temporary file never becomes a book without
being written again. `MemoryCarriesFile`, behind the action property, says that the memory of a
running process continues what its file has recorded. One case per action of the process
shows that an invariant is preserved, `RoundTrip` and its relatives in `BarLoopProofs` carry
it through `Serialise` and `Restore`, and the lemmas of `BarLoopProofs` about
`ProcessBar` carry it through fills, exits, mark, decision and queue in the code's
order:

- *Stops.* A stop is checked against a bar's range, while the property is about the
  excursions the portfolio recorded. A fill whose stop is already behind the entry
  is refused (`StopStillValid`); a position whose stop the bar touched is closed;
  for the others the bar extends the excursions and neither end reaches the stop.
- *Limits.* The queue has at most one order and is emptied before a decision, so the
  count the gate sees is the count the order will meet.
- *Fills.* `InTurn` says that a queued order was queued at the watermark, that no point of the
  curve lies past the watermark, and that between the order and the entry of each
  position and trade the curve has no point. A bar adds one point, its own
  (`AddsPointsOf`), and fills or drops the whole queue; what the file cuts off
  (`Abridges`) only takes points away.
- *Books.* `Balanced(pf, past)` relates cash, realised profit and costs to the sum over
  the trades, the open positions and `past`, the totals of trades that are no
  longer listed. With `NoPast` it is the property. The parameter makes the lemmas
  about a bar independent of how long the history is: what needs `TradesFit` is
  only that a reload starts with nothing in the past.
- *Baselines.* `Historical` says that the peak is the largest equity of the curve, the
  balance included, and that the day's baseline is the first equity of the last day.
- *Queue.* `JustifiedQueue` carries what the gate saw (the drawdown of the whole curve, the
  budgets left) from the decision to the next bar through any number of reloads.

Sums and counts are folds over finite sets. No induction principle can be
instantiated, so the facts about them are proved from the definition of the fold
by the least counterexample: the set of the subsets (or prefixes) that fail is
empty because its smallest member would have a smaller one (`SumSplits`, `SumNone`, ... in
`PortfolioProofs`). The same argument gives what the recursive functions compute, such
as `Samples`, the log of the selector as the list of trades.

### Restarts (`PaperTradingProofs`)

`RestartsAreInvisible`: with one setting of the switch and one grade (`Steady`),
`HSpec => [](AllRecoverable => RestartEquivalence)`. `SessionImplementsReplay`:
`HSpec /\ []AllRecoverable => ImplementsUninterruptedReplay`, the safety part of the refinement
step by step (the abstract specification states no fairness). The invariant `HInv`
says that every book anywhere is the entry of the observer's ledger for its last bar, and that
the entries are consecutive: each is `ProcessBar` of the one before. A book reloaded
is then an entry again (`RoundTrip`), and processing from it yields either the
entry that is already there, which the abstract run sees as a stutter, or the
next one, which is its step. `Steady` is needed because another switch or grade decides the same
bar differently; `AllRecoverable` because a book that the file cannot hold comes back as
another one.

### Reports (`SessionReportsProofs`)

`SessionsStayConsistent` proves the invariant `IndInv` of any number of writers and readers on one
file: the log of trades is the tail of what was closed, in memory and in every
file that a session has written; the selector's counts are those of all trades; a session
that failed carries a sign of it that neither the bound of the error log nor a
reload removes; and as long as no two saves overlapped, each visible file is complete.
From it: `LogIsAlwaysTheTail`, `EvidenceAlwaysAgrees`, `VisibleFileAlwaysComplete`, without
hypotheses. `TroubleIsAlwaysShown` is about `HSpec`, with the observer's variables, and needs
`HistoryOK` besides: while runners have never overlapped and no file moved
aside is still unaccounted for, trouble that the observer remembers is on the file, which
tells of it or cannot be read, and in the memory of whoever is up (`TroubleKept`). A
reader, a runner that begins and one that saves each hand it on; that failures are never erased from a session is
the lemma `FailuresStay`.

### Backtest (`BacktestProofs`)

`EverythingIsRealised` and, for a backtest beside the paper engine, `OneExecutionModel`
(`TradeAlike`) and `ForcedCloseOnlyAdds` (`SharedTradesIdentical`), for every frame, every
configuration of risk and execution, and every setting of the run.

The backtester is a second loop over the same portfolio. `Now` writes its variables as
a book, and `BarIsStep` shows that `HandleBar` is fill, exits, mark and decision of
`BarLoop` on that book (`MarkWhole` is the mark without the cut of the curve), so that the
lemmas about `process_bar` hold of it. `Running` then says that the account is `Balanced`
with no past, that the table is that of the trades, and that without a position the curve
ends with the cash. The forced close empties the positions, and the snapshot taken again
shows the cash that is left (`LiquidatedBalanced`, `RestatedShowsCash`).

For the comparison, the two engines number their bars differently: the paper engine counts
a bar before it fills an order, the backtester numbers it from zero. And they take
the exit regime at different moments. `Alike` says that two accounts are equal up to
these two things: the positions of the one are those of the other with the entry
number one higher (`Renumbered`), the trades are equal but for the exit regime, all else is
equal. Each step of a bar is then shown to keep `Alike`: a sum over the positions, their
order by age, their count, the risk they carry and the price they are valued at do
not depend on the number; the bars a position was held are a difference of two numbers that
moved together (`RenumberedSum`, `RenumberedOrder`, `TradeOfAlike`, `CloseAlike`, ...,
`ApprovesAlike`). `Twinned` is the invariant. What ends the comparison is in it too: after
the last bar the paper engine may have an order waiting and the backtester has none.

The comparison has one hypothesis, `MaxBars <= 2 * MaxEquityPoints`: a paper engine
whose curve has grown past twice its limit (`MAX_EQUITY_POINTS`, 5 000) cuts it in memory, the backtester
never does, and from then on the curves differ. `EverythingIsRealised` has none.

### One decision (`DecisionGraphProofs`)

`NodesStayInOrder` proves `Control`: the scheduled nodes form a stage of the run
(`Staged`), nothing is written before its node has run (`InOrder`), a node that raised
wrote nothing and sent the run to its end (`Isolated`), and what is behind an order passed
every judgement (`OrderIsJudged`). The interesting case is the regime, whose failure does not
end the run: the strategies are asked without a regime, none answers, and the
aggregator, given no votes, stands aside (`NobodyDecides`), so the route never reaches
the risk engine. `NeverOrdersAfterFailure` follows.

`PanelKnowsNoFuture`: the feature row of bar `t` is the same for a history and
for its prefix up to `t`. `Cut(b, t, a, n)` says that the series `b` is the series
`a` of `n` values up to `t`, and each indicator has a lemma: cut arguments give cut
results. Three are of interest. An exponential average recurs over the
whole history; if two averages differed, they would differ at a least bar, whose
predecessor agrees. A swing at bar `s` needs bars after `s`, so it is published `width`
bars later, from bars that the prefix has. And the column `relative_volume` is blank for
all bars if the volume of the *whole* frame sums to zero, a rule that looks ahead:
it does no harm because a prefix without volume has an average of zero, which gives
no ratio anyway (`NoVolumeNoRatio`). `NothingKnowsTheFuture`, the property
`PointInTime`, follows by the invariant `Judged`: regime and proposals in a run are the
functions of that row which the nodes apply, whatever order the nodes ran in.
Assumed (`GraphAssumption`): a history is a sequence of clean bars (`Candle`, what
`processors/` leaves of a frame) and bars are counted from one.

From the candles to the order. `OnlyWeightedStrategiesDecide` (`SilencedDoNotVote`) and
`OrdersStayWithinRisk` (`OrderWithinRisk`) are about sums, means and products of what the
graph computed, so they need to know that everything on the way is a number or missing,
and no solver says so at a distance. The module therefore follows the arithmetic once,
from the bars on: every series `Holds` numbers or `NaN`, so a row of features is an
`IsRow` (`ComputeHolds`); a proposal is an `IsProposal`, which enters at the close or is
not well formed (`ProposeIs`); a table of the selector, if there is one, gives every
enabled strategy a natural number (`WeightIs`); the signals that are counted are
`IsVotes`. The invariant is `Traced`: `Control` and `Judged` as above, `Panelled` (the
rows of a run are such rows) and `Sized` (the decision is the sum of the signals, the
verdict is about that decision, an order is what was approved). From it:

- *The silenced.* `OnlyHeardDecide` shows that a strategy of weight zero adds nothing to
  the score of either side, the sums that decide the direction, and drops out of numerator
  and denominator of the mean that gives the confidence. The sums are folds; that a zero
  drops out is again proved by the least counterexample.
- *The risk of an order.* `DecisionIs`: all counted signals enter at the same close, so
  the weighted mean of their entries is that close, without rounding (`MultipleDivides`),
  and the stop is the tightest of the supporters'. Had the entries differed, the stop of
  one could be on the wrong side of the mean of all, which is the hazard; the invariant
  shows why it does not occur. `SizeWithinBudgets` then bounds quantity times risk per
  unit through every cut of `RiskEngine.evaluate`, whatever correlation the provider
  answers.

Assumed of the parameters: the strategies' thresholds are numbers, those of the RSI
strictly between 0 and 100 (`RosterAssumption`; at either end the score of
`mean_reversion` divides by zero and its node raises), a caller's account and closed
trades are numbers (`CallerAssumption`), and no candle is inverted (`Candle`,
`app/data/processors/normalize.py:143-150`).

### Market data (`MarketDataProofs`)

| Theorem | Property |
|---|---|
| `Genuineness` | `ServedIsGenuine` |
| `Freshness` | `DownloadedBarsWin` |
| `Completeness` | `FormingBarOnlyByRace` |
| `Candour` | `RepairsReported` |
| `Scope` | `AnswersRequest` |

For any number of processes, requests and faults, any vendor series, any widths. The
payload file is shared by all, may be torn, damaged, or another process's, and nothing is
assumed of it. The invariant `IInv` is therefore about what vouches for it: the rows
behind the manifest's checksum, and behind every checksum a process has read, are
`Reported`, that is rows the vendor published by now (`Sound`). A payload is taken only
where its rows are those of a checksum, so what a job has cached or received is `Reported`
as well. The other theorems need `FrameOK`: the frame of a job holds *all* rows the vendor
reported of the asked bars at the time of the download, or it came from a cache that
covers the request, and in a latest frame a bar that had ended when it was downloaded is
there as closed.

- *Genuineness*: cleaning keeps or repairs a row and resampling composes rows; a served
  row is traced back to a published one (`ServedGenuine`).
- *Freshness*: in a merge every bar that was downloaded is one of the downloaded rows, and
  the vendor reports again every bar that is cached and asked for, so that a cached copy
  of such a bar is replaced.
- *Completeness*: the check drops the last bar when it has not ended at the time of the
  check; any other bar has one that opens after it, and so has ended.
- *Candour*: the cache holds rows as they were downloaded, not as they were cleaned, so a
  repair is made and counted at every delivery. A model that cached cleaned frames would
  serve repaired bars uncounted, which is the mutant of this property.
- *Scope*: windows of a width do not overlap, and slicing keeps within the request.

### Research (`ValidationStudyProofs`)

First the arithmetic and the frames. `SplitKeepsApart` and `FoldsKeepApart`:
for every length, share, embargo, warm-up and number of folds the windows are
ordered, apart, warmed up and inside the series, and test windows are disjoint.
`SweepReadsFrame`, `IsolationReadsFrame`, `ChoiceReadsFrame`: what is measured or chosen on a
window is the same function of the frame cut at the window's end; the lemmas follow
the calls down to the bars that one backtest reads.

Then, of concurrent studies over one ledger, one store and one directory:

- `StudiesStayConsistent`: the inductive invariant `IndInv`. `Shape` types the state; `StudyOK`
  says, per control point, that a study works on the data, the windows and
  the seal that its plan and the ledger determine; `LooksOK` gives each counted look its
  row in the ledger and each published one a row of its own.
- From it, without hypotheses: `FreshLookIsAlwaysUnique` (the status is read after the study's own insertion,
  so of two studies that both inserted, the later reader counts two)
  and `PublishedLooksAreAlwaysLedgered`.
- `SearchIsAlwaysCounted`, an action property, from `SearchStaysCounted`: whatever was
  searched while the store listened is among its trials, and the sets counted are finite.
- `VerdictAlwaysAgreesWithEvidence`: `JudgedOK` says that the verdict in memory and in a report about to be
  written is the one its sections give; the theorem then compares the two functions of
  `report.py` for all sections.
- `WindowsAreKeptApart` and `NothingEverLeaksBack`: `FoldsApart`, `Measured` and `Chosen` carry the
  facts about the frames along the study.
- `ContextIsHonest`: an invariant of the directory, `FilesOK`. A file is torn, or it is a report
  that was published and whatever was published after it has its own file in front. Rewriting
  takes the file of an experiment out of its place and puts it first, in two writes with a
  crash possible between; `RewritingKeepsOrder` shows that the files that were in front of another
  stay in front of it. A reader takes the first file that it can read, so only torn files
  can be newer.
- `AppliedIsAlwaysEvidenced`: `RecommendedOK` says that the recommendations of a finished
  report are those its own sections give; applying one of them keeps the configuration a
  `Cut` of the report's (`OneAppliedIsCut`), and so does applying them one after the other,
  the later ones to a configuration already changed (`AppliedIsCut`), under every gate, tier and
  strictness.

Their assumptions are those of `ValidationStudy` and `Evidence`: series with the same key are of one instrument
(`InstrumentAssumption`), a plan names settings that exist and its warm-up is a natural number (`PlanAssumption`), shares,
folds and embargo are in the validated ranges (`SettingsAssumption`,
`app/config/models.py:561-600`), and a series is a finite sequence (`HistoriesAssumption`).

### Only model-checked

- Liveness (`EventuallyDurable`, `RequestsEnd`, `RunsEnd`): fairness and `ENABLED` are out of
  the prover's reach. So is the fairness of the refinement; `UninterruptedReplay` states none.
- The five violations of section 6, which are counterexamples.

Of the invariants and action properties of the passing runs none is left without a theorem.

## 5. What is not modelled, and the plan

What would come next:

1. The picture of the graph and the decision view as functions of a decision.
2. Weaker hypotheses for the restart theorems: what exactly a session keeps of its promises
   after its history has been cut.

Not modelled: the synthetic loader and the parsing of vendor payloads (no state);
feature columns that nothing reads; Monte Carlo, the arithmetic of the deflated
Sharpe ratio, stitched equity and regime tables (numerics over finished trades);
`budget.py`, which only its own tests call; segments, metrics, findings and
artifacts in the store (written, never read back by a decision); the text of
reports; YAML loading and validation (its bounds are the assumptions on the
constants); the pages of the dashboard and argument parsing (layout and print). The engine's
features cache is not modelled because it cannot be stale when it is used: it is
consulted for a frame whose last bar it knows, and every bar of such a frame is
already behind the watermark.

## 6. Findings

Five statements of the repository that the code does not keep, each the subject
of a run that TLC finds violated:

- `PaperKillSwitch`: *"The global kill switch. While False no position opens, in any
  mode."* (`app/risk/engine.py:59`). The switch is consulted when an order is sized;
  an order queued before a restart with the switch off still fills.
- `BacktestCosts`: a fill's price *"is what was actually paid or received, including
  spread and slippage"* (`app/execution/models.py:91-92`). `open_position` and
  `close_position` take `total_cost`, which holds spread and slippage again, from
  the cash: each fill pays them twice. Both engines share this.
- `ResearchFinalWindow`: *"The out-of-sample window is touched at step 6 and never
  before"* (`app/research/study.py:20`). The folds of step 5 are cut from the
  whole history, so candidates are chosen and scored on bars of the final window.
- `ResearchSealedBars`: the study *"refuses to run"* if its development windows are sealed,
  *"so ordinary optimisation cannot consume the holdout"* (`docs/research.md:280-283`). The door
  compares fingerprints of whole windows. A study on the same market with more history has
  the sealed bars inside its own windows, passes the door, and compares and
  stresses configurations on them.
- `ReportsAttribution`: the voters of a trade survive *"into the persisted record as
  meta_contributing"* (`app/paper_trading/engine.py:1115-1118`). A reload keeps the
  prefix and the next write adds another; the trade then counts for the ensemble.
  The flag of an ambiguous exit does not survive a write either.

Six more disagreements between a document and the code, which the models contain
and no run is about. The properties named here say what holds instead.

- *"A signal from bar `t`'s close fills at bar `t+1`'s open"*, and *"A market order does not wait
  around for a later bar"* (`docs/paper_trading.md:153`, `176-178`). The queue is resolved on the
  next bar that is *processed* (`FillsOnNextProcessedBar`). After an outage longer than the live
  window (`run_live_tick` fetches 500 bars) that is a later one, and the order fills there at
  levels from before the outage.
- An absent grade is *"Blocked. 'Nobody checked' must not size the same position as 'checked
  and passed'"* (`docs/paper_trading.md:214`; the docstring at `engine.py:767-768` says the same).
  `process_bar` falls back on the last grade recorded, also one out of the file, and queues the
  order (`QueuesOnlyWhenPermitted`). Both commands do pass a grade; the interface does not insist.
- A file that will not parse *"is moved aside ... and the engine starts flat and says so"*
  (`docs/paper_trading.md:123-124`). Whoever loads moves it, also the dashboard and `--status`,
  which *"Processes nothing, writes nothing"* (`:97`). They say so to their own reader; the next
  runner finds no file, starts flat and reports itself healthy (`TroubleIsShown`).
- Suppressed strategies *"could not contribute"* (`docs/paper_trading.md:387-388`). They have no
  vote (`SilencedDoNotVote`), but the stop is the tightest and the target the nearest of all
  supporters, weight or none (`aggregator.py:345-352`), and all are listed as contributing. A
  tighter stop gives a larger position for the same risk (`OrderWithinRisk`).
- *"unanimous - every non-suppressed strategy with an opinion must agree"*
  (`app/signals/aggregator.py:8`). A suppressed strategy on the other side is enough for WAIT.
- *"Every completed trade records ... entry and exit regime"* (`docs/backtesting.md:260-261`). The
  backtester reads the label of the exit bar before the graph has set it, so every exit but the
  forced one records `UNKNOWN`.

Smaller things seen while modelling. The models do what the code does; the
properties above are stated so that they hold in spite of them.

- Reports: the freshness shown is the one of the last write, so a session nobody runs
  stays `HEALTHY`, which `docs/paper_trading.md:335` keeps for current data. After any
  live tick a replay is labelled `live_refresh`. Two
  runners share the name of the temporary file, and one may put the other's
  half-written state in place; the later of two overlapping runners writes back what it
  loaded, and the other's bars and troubles are gone. The flag of an ambiguous exit is lost at the next write.
- Data: merging drops repeated rows without counting them; rows whose time cannot be
  parsed are dropped by the schema before the quality engine could report them; a
  series graded after resampling hides source bars that are missing; a download is
  cached before the gate refuses it; a range that is open on one side is served from
  any cached range; saving again renews the age of bars that were not downloaded
  again, and a narrow refresh after expiry replaces a deep history; only
  `get_latest_data` drops a bar that is forming.
- Signals: a factor common to all strategies (the regime's confidence) disappears in
  the normalisation; the samples are recorded under the name of the ensemble, where
  no strategy looks for them; suppressed strategies still count as heads in the
  majority test; a selection that failed leaves every weight at one.
- Strategies: `min_history` may be larger than the warm-up of the features, and then a
  frame cut at the bar says WAIT where the whole frame does not.
- Holdout: `docs/research.md:276` says every touch is logged with its integrity, but a
  restated window raises in `seal` before `evaluate` logs anything, after its bars
  were scored. The guard of development runs after the baseline was scored on both
  windows. The verdict never consults the ledger, so a window looked at many times can survive.
- Robustness: a neighbourhood that is exactly flat counts as a peak and so as fragile;
  sweep points that need a longer warm-up are refused and are not counted as trials.
- Walk-forward: the embargo lies between the halves of a fold, while the test halves
  tile; the suggested geometry ignores the embargo and yields a fold less.
- Feedback: with `isolate_strategies` off every flagged pair looks idle; the proposed
  weight is always 0.5, which raises a standing weight below it; an improvement is
  taken for granted when no fold kept the baseline; under `strict` with the gate
  closed nothing raises, although the docstring says so; nothing in the program
  calls `apply_recommendations`.
- Study reports: the file is written in place, so that after a crash an older study is
  served as the newest.
