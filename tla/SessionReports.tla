--------------------------- MODULE SessionReports ---------------------------
(* What a paper session tells its operator: the market lane and its age, the  *)
(* health verdict, the trade records and the statistics made of them.  They   *)
(* live in the state file, which runners load, extend and replace, and which  *)
(* the dashboard and --status read by building an engine over it.  Trading    *)
(* itself is in BarLoop; here a bar brings at most one closed trade and may   *)
(* bring an error of the graph.                                               *)
EXTENDS Integers, Sequences, FiniteSets

CONSTANTS
  Writers,           \* processes that may run the session
  Outcomes,          \* what a bar may bring
  Regimes,           \* labels trades are recorded under
  MaxClosedTrades,   \* length of the trade log
  MaxRecentErrors,   \* length of the error log
  MinSamples,        \* trades the selector wants before it moves a weight
  FreshIntervals,    \* age, in bars, up to which data are FRESH
  DelayedIntervals,  \* age up to which they are DELAYED
  BlockOnWarning,    \* block_on_data_quality_warning
  Grades,            \* what the quality gate may find
  MaxClock,          \* bound: the last bar to open
  MaxCommands,       \* bound: replays and live ticks in a behaviour
  MaxFaults          \* bound: crashes and damages in a behaviour

ASSUME SessionReportsAssumption ==
  /\ {MaxClosedTrades, MaxRecentErrors, MinSamples} \subseteq Nat \ {0}
  /\ {FreshIntervals, DelayedIntervals, MaxClock, MaxCommands, MaxFaults} \subseteq Nat
  /\ MinSamples <= MaxClosedTrades /\ FreshIntervals <= DelayedIntervals
  /\ BlockOnWarning \in BOOLEAN /\ Grades \subseteq {"PASS", "WARNING", "FAIL"}
  /\ \A o \in Outcomes : \A t \in o.trade :
       t.regime \in Regimes /\ t.hasR \in BOOLEAN /\ t.ambiguous \in BOOLEAN

VARIABLES
  clock,   \* the bar that is forming; the bars before it have closed
  mem,     \* the engine each writer has in memory
  proc,    \* where each writer stands
  handle,  \* which file a writer that is saving has open
  tmp,     \* the temporary file
  file,    \* the state file
  commands, \* how many commands were given
  faults,  \* how many faults happened
  raced    \* not in the code: whether two writers ever saved at once

vars == <<clock, mem, proc, handle, tmp, file, commands, faults, raced>>

-----------------------------------------------------------------------------
(* The market lane.                                                           *)

Freshness(bar, now) ==
  IF bar = 0 \/ bar > now THEN "UNKNOWN"
  ELSE IF now - bar <= FreshIntervals THEN "FRESH"
  ELSE IF now - bar <= DelayedIntervals THEN "DELAYED" ELSE "STALE"

Lane(status, source, bar, grade, now) ==
  [status |-> status, source |-> source, lastBar |-> bar, grade |-> grade,
   freshness |-> Freshness(bar, now)]

BlankMarket == Lane("NO_DATA", "none", 0, "UNKNOWN", 0)

\* A lane a refresh wrote keeps its source, status and grade.
SyncMarket(lane, bar, grade, now) ==
  IF lane.source = "live_refresh"
  THEN Lane(lane.status, lane.source, bar, lane.grade, now)
  ELSE Lane("OK", "historical_replay", bar, grade, now)

-----------------------------------------------------------------------------
(* The session.  The last two fields are not in the code: every trade the     *)
(* session ever closed, with the strategies that voted for it, and whether    *)
(* anything ever failed.                                                      *)

BlankState ==
  [lane |-> BlankMarket, errors |-> 0, bars |-> 0, watermark |-> 0,
   ambiguous |-> 0, log |-> <<>>, trades |-> <<>>,
   table |-> [r \in Regimes |-> 0],
   closed |-> <<>>, failed |-> FALSE]

LastOf(rows, limit) ==
  IF Len(rows) <= limit THEN rows
  ELSE SubSeq(rows, Len(rows) - limit + 1, Len(rows))

\* The log of errors is cut and never cleared.
RecordError(s) ==
  [s EXCEPT !.errors = IF @ < MaxRecentErrors THEN @ + 1 ELSE @, !.failed = TRUE]

\* A record is a trade with another meta_ before each key of its metadata: the
\* voters stand under meta_contributing if there is one, and two stand for more.
ToDict(trade) ==
  [regime |-> trade.regime, hasR |-> trade.hasR, voters |-> trade.voters,
   metas |-> IF trade.metas < 2 THEN trade.metas + 1 ELSE 2,
   ambiguousBar |-> FALSE]

\* Mutant: a trade without an R counts as a sample.
RecordTradeAlways(table, trade) == [table EXCEPT ![trade.regime] = @ + 1]

RecordTrade(table, trade) ==
  IF trade.hasR THEN [table EXCEPT ![trade.regime] = @ + 1] ELSE table

\* The trade goes to the portfolio, to the selector's table and to the log.
CloseTrade(s, t) ==
  LET trade == [regime |-> t.regime, hasR |-> t.hasR, voters |-> t.voters, metas |-> 0]
  IN  [s EXCEPT
        !.trades = Append(@, trade),
        !.table = RecordTrade(@, trade),
        !.ambiguous = IF t.ambiguous THEN @ + 1 ELSE @,
        !.log = LastOf(Append(@, [ToDict(trade) EXCEPT !.ambiguousBar = t.ambiguous]),
                       MaxClosedTrades),
        !.closed = Append(@, t)]

ProcessBar(s, bar, outcome, grade, now) ==
  LET exited == IF outcome.trade = {} THEN s
                ELSE CloseTrade(s, CHOOSE t \in outcome.trade : TRUE)
      decided == IF outcome.fails THEN RecordError(exited) ELSE exited
  IN  [decided EXCEPT !.watermark = bar, !.bars = @ + 1,
                      !.lane = SyncMarket(@, bar, grade, now)]

\* Mutant: a failed refresh is shown on the lane and not recorded, and the lane
\* is repaired by the next bar.
RefreshFailedQuietly(s, now) ==
  [s EXCEPT !.failed = TRUE,
     !.lane = Lane("ERROR", "none", @.lastBar, @.grade, now)]

\* The lane keeps its bar, its grade and its source.  EMPTY, for a download
\* without bars, is judged like ERROR and stands with it.
RefreshFailed(s, now) ==
  [RecordError(s) EXCEPT
     !.lane = Lane("ERROR", @.source, @.lastBar, @.grade, now)]

Refreshed(s, bar, grade, now) ==
  [s EXCEPT !.lane = Lane("OK", "live_refresh", bar, grade, now)]

-----------------------------------------------------------------------------
(* The file.                                                                  *)

Absent == [state |-> "absent", session |-> BlankState]

\* Mutant: the log is written as the process knew it, uncut.
SerialiseWholeLog(s) ==
  [s EXCEPT !.log = [i \in DOMAIN s.trades |-> ToDict(s.trades[i])], !.trades = <<>>]

\* The log is written from the portfolio's trades.
Serialise(s) ==
  [s EXCEPT !.log = [i \in DOMAIN LastOf(s.trades, MaxClosedTrades) |->
                      ToDict(LastOf(s.trades, MaxClosedTrades)[i])],
            !.trades = <<>>]

\* Only keys that begin with meta_ come back as metadata, with their prefix.
Restore(payload) ==
  [payload EXCEPT !.trades =
     [i \in DOMAIN payload.log |->
       [regime |-> payload.log[i].regime, hasR |-> payload.log[i].hasR,
        voters |-> payload.log[i].voters, metas |-> payload.log[i].metas]]]

\* Mutant: an engine that cannot read the file starts flat and keeps it to itself.
LoadQuietly(f) == IF f.state = "whole" THEN Restore(f.session) ELSE BlankState

\* An engine over the file: the session, nothing, or a flat start that says so.
Load(f) ==
  IF f.state = "whole" THEN Restore(f.session)
  ELSE IF f.state = "absent" THEN BlankState ELSE RecordError(BlankState)

\* A file that cannot be read is moved aside by whoever loads it.
Quarantine(f) == IF f.state \in {"torn", "damaged"} THEN Absent ELSE f

-----------------------------------------------------------------------------
(* What is shown.                                                             *)

\* The trades of a regime that have an R.
Samples(rows, r) == {i \in DOMAIN rows : rows[i].regime = r /\ rows[i].hasR}

Sufficient(rows, r) == Cardinality(Samples(rows, r)) >= MinSamples

\* The voters of a record, or the name of the aggregate.
ContributorsOf(record) ==
  IF record.metas = 1 /\ record.voters # {} THEN record.voters ELSE {"ensemble"}

PerformanceView(s) ==
  [trades |-> Len(s.log),
   ambiguousExits |-> Cardinality({i \in DOMAIN s.log : s.log[i].ambiguousBar}),
   sufficient |-> [r \in Regimes |-> Sufficient(s.log, r)],
   influencesWeight |-> [r \in Regimes |-> s.table[r] >= MinSamples],
   contributors |-> [i \in DOMAIN s.log |-> ContributorsOf(s.log[i])]]

Findings(s) ==
  LET stale == s.bars > 0 /\ s.lane.freshness \in {"STALE", "UNKNOWN"}
      ungraded == s.bars > 0 /\ s.lane.grade = "UNKNOWN"
      blocked == s.lane.grade = "WARNING" /\ BlockOnWarning
      trouble == \/ s.lane.status = "ERROR" \/ stale \/ ungraded \/ blocked
                 \/ s.lane.grade = "FAIL" \/ s.errors > 0
      idle == s.lane.status = "NO_DATA" \/ s.bars = 0
  IN  (IF trouble THEN {"DEGRADED"} ELSE {}) \cup (IF idle THEN {"IDLE"} ELSE {})

\* The worst finding.
SystemHealth(s) ==
  IF "DEGRADED" \in Findings(s) THEN "DEGRADED"
  ELSE IF "IDLE" \in Findings(s) THEN "IDLE" ELSE "HEALTHY"

\* What the dashboard and --status show of the file as it is.
Shown == Load(file)
-----------------------------------------------------------------------------
(* Behaviour.  A writer is down, idle, in catch_up, or in one of the three    *)
(* steps of _persist.                                                         *)

Standing(step) == [step |-> step, to |-> 0, grade |-> "UNKNOWN"]

Init ==
  /\ clock \in 2 .. MaxClock
  /\ mem = [w \in Writers |-> BlankState]
  /\ proc = [w \in Writers |-> Standing("down")]
  /\ handle = [w \in Writers |-> "none"]
  /\ tmp = Absent /\ file = Absent
  /\ commands = 0 /\ faults = 0 /\ raced = FALSE

At(w, step) == proc[w].step = step
Goto(w, step) == proc' = [proc EXCEPT ![w] = Standing(step)]

\* A bar closes and the next one opens.
Tick ==
  /\ clock < MaxClock
  /\ clock' = clock + 1
  /\ UNCHANGED <<commands, mem, proc, handle, tmp, file, faults, raced>>

Start(w) ==
  /\ At(w, "down")
  /\ mem' = [mem EXCEPT ![w] = Load(file)]
  /\ file' = Quarantine(file)
  /\ Goto(w, "idle")
  /\ UNCHANGED <<commands, clock, handle, tmp, faults, raced>>

Command(w) ==
  At(w, "idle") /\ commands < MaxCommands /\ commands' = commands + 1

\* catch_up over a frame that ends at bar e: only bars past the watermark.
CatchUp(w, e, grade) ==
  [proc EXCEPT ![w] = [step |-> "replaying", to |-> e, grade |-> grade]]

\* run_replay: the gate has refused a FAIL; nothing new, nothing written.
BeginReplay(w, e, grade) ==
  /\ Command(w) /\ e > mem[w].watermark
  /\ proc' = CatchUp(w, e, grade)
  /\ UNCHANGED <<clock, mem, handle, tmp, file, faults, raced>>

\* run_live_tick: a FAIL comes through without the gate.  The state is written
\* also when there was no new bar.
BeginLive(w, e, grade) ==
  /\ Command(w)
  /\ mem' = [mem EXCEPT ![w] = Refreshed(@, e, grade, clock)]
  /\ IF e > mem[w].watermark THEN proc' = CatchUp(w, e, grade)
     ELSE Goto(w, "opening")
  /\ UNCHANGED <<clock, handle, tmp, file, faults, raced>>

\* The download fails, the gate refuses, or there are no bars.
RefreshFails(w) ==
  /\ Command(w)
  /\ mem' = [mem EXCEPT ![w] = RefreshFailed(@, clock)]
  /\ Goto(w, "opening")
  /\ UNCHANGED <<clock, handle, tmp, file, faults, raced>>

\* The next bar of the frame; after the last one the state is written.
ProcessNext(w, outcome) ==
  LET bar == mem[w].watermark + 1
      run == proc[w]
  IN  /\ At(w, "replaying")
      /\ mem' = [mem EXCEPT ![w] = ProcessBar(@, bar, outcome, run.grade, clock)]
      /\ IF bar = run.to THEN Goto(w, "opening") ELSE UNCHANGED proc
      /\ UNCHANGED <<commands, clock, handle, tmp, file, faults, raced>>

\* Mutant: the state file is written in place.
OpenTmpInPlace(w) ==
  /\ At(w, "opening")
  /\ file' = [file EXCEPT !.state = "torn"]
  /\ handle' = [handle EXCEPT ![w] = "tmp"]
  /\ Goto(w, "filling")
  /\ UNCHANGED <<commands, clock, mem, tmp, faults, raced>>

\* write_text opens the temporary file, which empties it ...
OpenTmp(w) ==
  /\ At(w, "opening")
  /\ tmp' = [Absent EXCEPT !.state = "torn"]
  /\ handle' = [handle EXCEPT ![w] = "tmp"]
  /\ Goto(w, "filling")
  /\ raced' = (raced \/ \E v \in Writers \ {w} : At(v, "filling") \/ At(v, "swapping"))
  /\ UNCHANGED <<commands, clock, mem, file, faults>>

\* Written over what another writer has put there, the text may be torn.
Written(f, s) ==
  {[state |-> state, session |-> Serialise(s)] :
     state \in IF f.state = "whole" THEN {"whole", "torn"} ELSE {"whole"}}

\* ... fills and closes it, under whatever name it has by now ...
FillTmp(w) ==
  /\ At(w, "filling")
  /\ \/ handle[w] = "tmp" /\ tmp' \in Written(tmp, mem[w]) /\ UNCHANGED file
     \/ handle[w] = "file" /\ file' \in Written(file, mem[w]) /\ UNCHANGED tmp
     \/ handle[w] = "gone" /\ UNCHANGED <<tmp, file>>
  /\ handle' = [handle EXCEPT ![w] = "none"]
  /\ Goto(w, "swapping")
  /\ UNCHANGED <<commands, clock, mem, faults, raced>>

\* ... and it replaces the state file.  Without one, replace raises.
ReplaceFile(w) ==
  /\ At(w, "swapping")
  /\ \/ /\ tmp.state = "absent" /\ Goto(w, "down")
        /\ UNCHANGED <<handle, tmp, file>>
     \/ /\ tmp.state # "absent" /\ Goto(w, "idle")
        /\ file' = tmp /\ tmp' = Absent
        /\ handle' = [v \in Writers |->
                        CASE handle[v] = "tmp" -> "file"
                          [] handle[v] = "file" -> "gone"
                          [] OTHER -> handle[v]]
  /\ UNCHANGED <<commands, clock, mem, faults, raced>>

\* The dashboard, or --status, builds an engine over the file.
Look ==
  /\ file.state \in {"torn", "damaged"}
  /\ file' = Quarantine(file)
  /\ UNCHANGED <<commands, clock, mem, proc, handle, tmp, faults, raced>>

Down(w) ==
  /\ Goto(w, "down")
  /\ mem' = [mem EXCEPT ![w] = BlankState]
  /\ handle' = [handle EXCEPT ![w] = "none"]
  /\ UNCHANGED <<commands, clock, tmp, file, raced>>

Stop(w) == At(w, "idle") /\ Down(w) /\ UNCHANGED faults

Crash(w) ==
  /\ ~At(w, "down") /\ faults < MaxFaults
  /\ Down(w)
  /\ faults' = faults + 1

\* External: a disk or an editor spoils the file.
Damage ==
  /\ file.state = "whole" /\ faults < MaxFaults
  /\ file' = [file EXCEPT !.state = "damaged"]
  /\ faults' = faults + 1
  /\ UNCHANGED <<commands, clock, mem, proc, handle, tmp, raced>>

Next ==
  \/ Tick \/ Look \/ Damage
  \/ \E w \in Writers :
       \/ Start(w) \/ OpenTmp(w) \/ FillTmp(w) \/ ReplaceFile(w)
       \/ RefreshFails(w) \/ Stop(w) \/ Crash(w)
       \/ \E e \in 1 .. clock - 1 :
            \/ \E grade \in Grades \ {"FAIL"} : BeginReplay(w, e, grade)
            \/ \E grade \in Grades : BeginLive(w, e, grade)
       \/ \E outcome \in Outcomes : ProcessNext(w, outcome)

Spec == Init /\ [][Next]_vars

-----------------------------------------------------------------------------
(* Properties.  Sessions are those in memory and the one a reader is shown.   *)

Sessions == {mem[w] : w \in Writers} \cup {Shown}

\* The log the statistics are made of is the last MaxClosedTrades trades of the
\* session, one record each and in order, however often the session was
\* reloaded: the log is appended to in one place and rebuilt from the portfolio
\* in another (_process_exits, _serialise_state, _restore_trades).
RecordsAreTail ==
  \A s \in Sessions :
    LET tail == LastOf(s.closed, MaxClosedTrades)
    IN  /\ Len(s.log) = Len(tail)
        /\ \A i \in DOMAIN tail : s.log[i].regime = tail[i].regime
                                  /\ s.log[i].hasR = tail[i].hasR

\* What the page calls sufficient evidence also moves a weight, and a regime
\* moves a weight exactly if enough of its trades had an R, also those that have
\* left the log (build_performance, RegimePerformanceTracker).
EvidenceAgrees ==
  \A s \in Sessions : \A r \in Regimes :
    LET view == PerformanceView(s)
    IN  /\ view.sufficient[r] => view.influencesWeight[r]
        /\ view.influencesWeight[r] <=> Sufficient(s.closed, r)

\* The visible file is always a complete state, through crashes at any step of a
\* save, unless two runners save at the same time; and the bar it shows the price
\* and the age of is one its session has processed, although a live refresh
\* announces bars before they are (_persist, run_live_tick).
VisibleFileComplete ==
  /\ file.state = "torn" => raced
  /\ Shown.lane.lastBar <= Shown.watermark

\* Each trade is attributed to the strategies that voted for it
\* (contributors_of, _restore_trades).
AttributionSurvives ==
  \A i \in DOMAIN Shown.log :
    PerformanceView(Shown).contributors[i]
      = LastOf(Shown.closed, MaxClosedTrades)[i].voters
=============================================================================
