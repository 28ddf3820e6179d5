------------------------ MODULE SessionReportsProofs ------------------------
(* What a paper session tells its operator stays true through any number of  *)
(* writers, commands, crashes and reloads, for every length of the logs and   *)
(* every threshold.                                                           *)
EXTENDS SessionReportsHistory, FiniteSetTheorems, SequenceTheorems, TLAPS

-----------------------------------------------------------------------------
(* The shape of the state.                                                    *)

Steps == {"down", "idle", "replaying", "opening", "filling", "swapping"}
Handles == {"none", "tmp", "file", "gone"}
GateGrades == Grades \cup {"UNKNOWN"}

Lanes == [status : {"NO_DATA", "OK", "ERROR"},
          source : {"none", "live_refresh", "historical_replay"},
          lastBar : Nat, grade : GateGrades,
          freshness : {"UNKNOWN", "FRESH", "DELAYED", "STALE"}]

\* What bars may close, the trades made of it and the records of those.
Closings == UNION {o.trade : o \in Outcomes}
VoterSets == {t.voters : t \in Closings}
Trades == [regime : Regimes, hasR : BOOLEAN, voters : VoterSets, metas : Nat]
Records == [regime : Regimes, hasR : BOOLEAN, voters : VoterSets, metas : Nat,
            ambiguousBar : BOOLEAN]

SessionShape ==
  [lane : Lanes, errors : Nat, bars : Nat, watermark : Nat, ambiguous : Nat,
   log : Seq(Records), trades : Seq(Trades), table : [Regimes -> Nat],
   closed : Seq(Closings), failed : BOOLEAN]

Files == [state : {"absent", "torn", "whole", "damaged"}, session : SessionShape]

-----------------------------------------------------------------------------
(* What is true of a session wherever it is kept.                             *)

SameTrade(row, t) == row.regime = t.regime /\ row.hasR = t.hasR

\* The rows are the last trades of the session, in order.
EndsWith(closed, rows) ==
  /\ Len(rows) <= Len(closed)
  /\ \A i \in 1 .. Len(rows) : SameTrade(rows[i], closed[Len(closed) - Len(rows) + i])

\* The log is as long as it may be.
LogIsTail(s) ==
  /\ EndsWith(s.closed, s.log)
  /\ Len(s.log) = IF Len(s.closed) <= MaxClosedTrades THEN Len(s.closed)
                  ELSE MaxClosedTrades

TableCounts(s) == \A r \in Regimes : s.table[r] = Cardinality(Samples(s.closed, r))

TroubleLogged(s) == s.failed => s.errors > 0

Kept(s) == LogIsTail(s) /\ TableCounts(s) /\ TroubleLogged(s)

\* In memory, the portfolio has at least the trades of the log.
InMemory(s) ==
  Kept(s) /\ EndsWith(s.closed, s.trades) /\ Len(s.log) <= Len(s.trades)

\* The bar shown is one the session has processed.
LaneBehind(s) == s.lane.lastBar <= s.watermark

Standings == [step : Steps, to : Nat, grade : GateGrades]

\* A lane is ahead of its session only while the bars it announced are replayed.
WritersOK ==
  /\ mem \in [Writers -> SessionShape]
  /\ proc \in [Writers -> Standings]
  /\ \A w \in Writers : InMemory(mem[w])
  /\ \A w \in Writers : At(w, "replaying") \/ LaneBehind(mem[w])

IsKeptFile(f) == f \in Files /\ Kept(f.session) /\ LaneBehind(f.session)

FilesOK == IsKeptFile(tmp) /\ IsKeptFile(file)

RestOK ==
  /\ clock \in Nat /\ commands \in Nat /\ faults \in Nat /\ raced \in BOOLEAN
  /\ handle \in [Writers -> Handles]

\* Without a race one writer saves at a time, into the temporary file, and what
\* it is about to move into place is complete.
Saving(w) == At(w, "filling") \/ At(w, "swapping")

SavesAreSafe ==
  \/ raced
  \/ /\ \A w, v \in Writers : Saving(w) /\ Saving(v) => w = v
     /\ \A w \in Writers : At(w, "filling") => handle[w] = "tmp" /\ tmp.state = "torn"
     /\ \A w \in Writers : At(w, "swapping") => tmp.state = "whole"
     /\ file.state # "torn"

IndInv == WritersOK /\ FilesOK /\ RestOK /\ SavesAreSafe

-----------------------------------------------------------------------------
(* Logs and the trades they are the tail of.                                  *)

\* A log cut to its limit keeps its last rows (_record_error, _process_exits).
LEMMA LastOfIs ==
  ASSUME NEW S, NEW rows \in Seq(S), NEW limit \in Nat \ {0}
  PROVE  LET kept == LastOf(rows, limit)
         IN  /\ kept \in Seq(S)
             /\ Len(kept) = IF Len(rows) <= limit THEN Len(rows) ELSE limit
             /\ \A i \in 1 .. Len(kept) : kept[i] = rows[Len(rows) - Len(kept) + i]
<1>1. CASE Len(rows) <= limit
  BY <1>1 DEF LastOf
<1>2. CASE ~(Len(rows) <= limit)
  <2> DEFINE from == Len(rows) - limit + 1
             kept == SubSeq(rows, from, Len(rows))
  <2>1. Len(rows) \in Nat /\ from \in 1 .. Len(rows)
    BY <1>2, LenProperties
  <2>2. /\ kept \in Seq(S)
        /\ Len(kept) = Len(rows) - from + 1
        /\ \A i \in 1 .. Len(rows) - from + 1 : kept[i] = rows[from + i - 1]
    BY <2>1, SubSeqProperties
  <2>3. LastOf(rows, limit) = kept
    BY <1>2 DEF LastOf
  <2>4. Len(kept) = limit
    BY <2>1, <2>2
  <2>5. ASSUME NEW i \in 1 .. Len(kept)
        PROVE  kept[i] = rows[Len(rows) - Len(kept) + i]
    <3>1. from + i - 1 = Len(rows) - Len(kept) + i
      BY <2>1, <2>4
    <3> QED  BY <2>2, <2>4, <2>1, <3>1
  <2> QED  BY <1>2, <2>2, <2>3, <2>4, <2>5
<1> QED  BY <1>1, <1>2

\* A trade that is closed stays at the end of every log it is appended to.
LEMMA AppendKeepsTail ==
  ASSUME NEW S, NEW T, NEW rows \in Seq(S), NEW closed \in Seq(T),
         NEW row \in S, NEW t \in T,
         SameTrade(row, t), EndsWith(closed, rows)
  PROVE  EndsWith(Append(closed, t), Append(rows, row))
<1> DEFINE longer == Append(rows, row)
           all == Append(closed, t)
<1>1. /\ Len(longer) = Len(rows) + 1 /\ Len(all) = Len(closed) + 1
      /\ Len(rows) \in Nat /\ Len(closed) \in Nat /\ Len(rows) <= Len(closed)
  BY AppendProperties, LenProperties DEF EndsWith
<1>2. ASSUME NEW i \in 1 .. Len(longer)
      PROVE  SameTrade(longer[i], all[Len(all) - Len(longer) + i])
  <2>1. CASE i = Len(rows) + 1
    <3>1. longer[i] = row
      BY <2>1, AppendProperties
    <3>2. Len(all) - Len(longer) + i = Len(closed) + 1
      BY <1>1, <2>1
    <3>3. all[Len(closed) + 1] = t
      BY AppendProperties
    <3> QED  BY <3>1, <3>2, <3>3
  <2>2. CASE i # Len(rows) + 1
    <3>1. i \in 1 .. Len(rows)
      BY <1>1, <2>2
    <3>2. longer[i] = rows[i]
      BY <3>1, AppendProperties
    <3>3. /\ Len(all) - Len(longer) + i = Len(closed) - Len(rows) + i
          /\ Len(closed) - Len(rows) + i \in 1 .. Len(closed)
      BY <1>1, <3>1
    <3>4. all[Len(closed) - Len(rows) + i] = closed[Len(closed) - Len(rows) + i]
      BY <3>3, AppendProperties
    <3> QED  BY <3>1, <3>2, <3>3, <3>4 DEF EndsWith
  <2> QED  BY <2>1, <2>2
<1>3. Len(longer) <= Len(all)
  BY <1>1
<1> HIDE DEF longer, all
<1>4. EndsWith(all, longer)
  BY <1>2, <1>3 DEF EndsWith
<1> QED  BY <1>4 DEF longer, all

\* Cutting a tail leaves a tail.
LEMMA CutKeepsTail ==
  ASSUME NEW S, NEW T, NEW rows \in Seq(S), NEW closed \in Seq(T),
         NEW limit \in Nat \ {0}, EndsWith(closed, rows)
  PROVE  EndsWith(closed, LastOf(rows, limit))
<1> DEFINE kept == LastOf(rows, limit)
<1>1. /\ Len(kept) = IF Len(rows) <= limit THEN Len(rows) ELSE limit
      /\ \A i \in 1 .. Len(kept) : kept[i] = rows[Len(rows) - Len(kept) + i]
  BY LastOfIs
<1>2. /\ Len(rows) \in Nat /\ Len(closed) \in Nat /\ Len(kept) \in Nat
      /\ Len(kept) <= Len(rows) /\ Len(rows) <= Len(closed)
  BY <1>1, LenProperties DEF EndsWith
<1>3. ASSUME NEW i \in 1 .. Len(kept)
      PROVE  SameTrade(kept[i], closed[Len(closed) - Len(kept) + i])
  <2> DEFINE j == Len(rows) - Len(kept) + i
  <2>1. j \in 1 .. Len(rows) /\ Len(closed) - Len(rows) + j = Len(closed) - Len(kept) + i
    BY <1>2
  <2>2. SameTrade(rows[j], closed[Len(closed) - Len(rows) + j])
    BY <2>1 DEF EndsWith
  <2> QED  BY <1>1, <2>1, <2>2
<1> QED  BY <1>2, <1>3 DEF EndsWith

\* Counting the trades of a regime that have an R: a finite set of places.
LEMMA SamplesFinite ==
  ASSUME NEW S, NEW rows \in Seq(S), NEW r
  PROVE  IsFiniteSet(Samples(rows, r)) /\ Cardinality(Samples(rows, r)) \in Nat
<1>1. DOMAIN rows = 1 .. Len(rows) /\ Len(rows) \in Nat
  BY LenProperties
<1>2. IsFiniteSet(1 .. Len(rows))
  BY <1>1, FS_Interval
<1>3. Samples(rows, r) \in SUBSET (1 .. Len(rows))
  BY <1>1 DEF Samples
<1>4. IsFiniteSet(Samples(rows, r))
  BY <1>2, <1>3, FS_Subset
<1> QED  BY <1>4, FS_CardinalityType

\* A trade counts for its own regime, once, and only with an R
\* (RegimePerformanceTracker.record).
LEMMA SamplesAppend ==
  ASSUME NEW S, NEW rows \in Seq(S), NEW t \in S, NEW r, t.hasR \in BOOLEAN
  PROVE  Cardinality(Samples(Append(rows, t), r))
           = IF t.regime = r /\ t.hasR THEN Cardinality(Samples(rows, r)) + 1
             ELSE Cardinality(Samples(rows, r))
<1> DEFINE all == Append(rows, t)
           last == Len(rows) + 1
<1>1. /\ Len(rows) \in Nat /\ DOMAIN rows = 1 .. Len(rows) /\ DOMAIN all = 1 .. last
      /\ \A i \in 1 .. Len(rows) : all[i] = rows[i]
      /\ all[last] = t
  BY AppendProperties, LenProperties
<1>2. last \notin Samples(rows, r) /\ IsFiniteSet(Samples(rows, r))
  <2>1. last \notin Samples(rows, r)
    BY <1>1 DEF Samples
  <2> QED  BY <2>1, SamplesFinite
<1>3. CASE t.regime = r /\ t.hasR
  <2>1. Samples(all, r) = Samples(rows, r) \cup {last}
    BY <1>1, <1>3 DEF Samples
  <2> QED  BY <1>2, <1>3, <2>1, FS_AddElement
<1>4. CASE ~(t.regime = r /\ t.hasR)
  <2>1. Samples(all, r) = Samples(rows, r)
    BY <1>1, <1>4 DEF Samples
  <2> QED  BY <1>4, <2>1
<1> QED  BY <1>3, <1>4

\* A tail has no more samples than the whole.
LEMMA TailHasFewerSamples ==
  ASSUME NEW S, NEW T, NEW rows \in Seq(S), NEW closed \in Seq(T), NEW r,
         EndsWith(closed, rows)
  PROVE  Cardinality(Samples(rows, r)) <= Cardinality(Samples(closed, r))
<1> DEFINE A == Samples(rows, r)
           B == Samples(closed, r)
           f == [i \in A |-> Len(closed) - Len(rows) + i]
<1>1. /\ Len(rows) \in Nat /\ Len(closed) \in Nat /\ Len(rows) <= Len(closed)
      /\ DOMAIN rows = 1 .. Len(rows) /\ DOMAIN closed = 1 .. Len(closed)
  BY LenProperties DEF EndsWith
<1>2. ASSUME NEW i \in A PROVE i \in Int /\ f[i] \in B
  <2> DEFINE j == Len(closed) - Len(rows) + i
  <2>1. i \in 1 .. Len(rows) /\ rows[i].regime = r /\ rows[i].hasR
    BY <1>1 DEF Samples
  <2>2. j \in 1 .. Len(closed) /\ SameTrade(rows[i], closed[j])
    BY <1>1, <2>1 DEF EndsWith
  <2>3. j \in B
    BY <1>1, <2>1, <2>2 DEF SameTrade, Samples
  <2> QED  BY <2>1, <2>3
<1>3. ASSUME NEW i \in A, NEW j \in A, f[i] = f[j] PROVE i = j
  BY <1>1, <1>2, <1>3
<1>4. f \in Injection(A, B)
  BY <1>2, <1>3 DEF Injection, IsInjective
<1>5. IsFiniteSet(B)
  BY SamplesFinite
<1> QED  BY <1>4, <1>5, FS_Injection

-----------------------------------------------------------------------------
(* Sessions: one fact for each operation on one.                              *)

\* A lane is a lane, with the bar it was given.
LEMMA LaneIs ==
  ASSUME NEW status \in {"NO_DATA", "OK", "ERROR"},
         NEW source \in {"none", "live_refresh", "historical_replay"},
         NEW bar \in Nat, NEW grade \in GateGrades, NEW now
  PROVE  Lane(status, source, bar, grade, now) \in Lanes
         /\ Lane(status, source, bar, grade, now).lastBar = bar
<1>1. Freshness(bar, now) \in {"UNKNOWN", "FRESH", "DELAYED", "STALE"}
  BY DEF Freshness
<1> QED  BY <1>1 DEF Lane, Lanes

\* A session that has just been created (PaperTradingEngine.__init__).
LEMMA BlankIsConsistent ==
  BlankState \in SessionShape /\ InMemory(BlankState) /\ LaneBehind(BlankState)
<1>1. BlankMarket \in Lanes /\ BlankMarket.lastBar = 0
  BY LaneIs DEF BlankMarket, GateGrades
<1>2. BlankState \in SessionShape
  BY <1>1 DEF BlankState, SessionShape
<1>3. ASSUME NEW r \in Regimes PROVE Cardinality(Samples(BlankState.closed, r)) = 0
  <2>1. Samples(<<>>, r) = {}
    BY DEF Samples
  <2> QED  BY <2>1, FS_EmptySet DEF BlankState
<1>4. Kept(BlankState)
  BY <1>3, SessionReportsAssumption
     DEF BlankState, Kept, LogIsTail, EndsWith, TableCounts, TroubleLogged
<1>5. InMemory(BlankState)
  BY <1>4 DEF BlankState, InMemory, EndsWith
<1>6. LaneBehind(BlankState)
  BY <1>1 DEF BlankState, LaneBehind
<1> QED  BY <1>2, <1>5, <1>6

\* Only these parts of a session matter to its consistency.
LEMMA SamePartsSameConsistency ==
  ASSUME NEW s, NEW z, z.log = s.log, z.trades = s.trades, z.table = s.table,
         z.closed = s.closed, InMemory(s), TroubleLogged(z)
  PROVE  InMemory(z)
BY DEF InMemory, Kept, LogIsTail, TableCounts

\* An error is counted, or the log of errors is full (_record_error).
LEMMA RecordErrorKeeps ==
  ASSUME NEW s \in SessionShape, InMemory(s)
  PROVE  LET z == RecordError(s)
         IN  /\ z \in SessionShape /\ InMemory(z)
             /\ z.lane = s.lane /\ z.watermark = s.watermark
<1> DEFINE z == RecordError(s)
           errors == IF s.errors < MaxRecentErrors THEN s.errors + 1 ELSE s.errors
<1>0. errors \in Nat /\ errors > 0 /\ z = [s EXCEPT !.errors = errors, !.failed = TRUE]
  BY SessionReportsAssumption DEF RecordError, SessionShape
<1> HIDE DEF errors, z
<1>1. /\ z \in SessionShape /\ z.errors > 0
      /\ z.lane = s.lane /\ z.watermark = s.watermark
      /\ z.log = s.log /\ z.trades = s.trades /\ z.table = s.table /\ z.closed = s.closed
  BY <1>0 DEF SessionShape
<1>2. TroubleLogged(z)
  BY <1>1 DEF TroubleLogged
<1>3. InMemory(z)
  BY <1>1, <1>2, SamePartsSameConsistency
<1> QED  BY <1>1, <1>3 DEF z

\* A closed trade reaches the portfolio, the table and the log together
\* (_process_exits).
LEMMA CloseTradeKeeps ==
  ASSUME NEW s \in SessionShape, InMemory(s), NEW t \in Closings
  PROVE  LET z == CloseTrade(s, t)
         IN  z \in SessionShape /\ InMemory(z)
<1> DEFINE trade == [regime |-> t.regime, hasR |-> t.hasR, voters |-> t.voters,
                     metas |-> 0]
           record == [ToDict(trade) EXCEPT !.ambiguousBar = t.ambiguous]
           longer == Append(s.log, record)
           z == CloseTrade(s, t)
<1>1. t.regime \in Regimes /\ t.hasR \in BOOLEAN /\ t.ambiguous \in BOOLEAN
  BY SessionReportsAssumption DEF Closings
<1>2. trade \in Trades /\ SameTrade(trade, t)
  BY <1>1 DEF Trades, VoterSets, SameTrade
<1>3. record \in Records /\ SameTrade(record, t)
  BY <1>1 DEF Records, VoterSets, SameTrade, ToDict
<1> HIDE DEF trade, record
<1>4. /\ z.log = LastOf(longer, MaxClosedTrades)
      /\ z.trades = Append(s.trades, trade)
      /\ z.table = RecordTrade(s.table, trade)
      /\ z.closed = Append(s.closed, t)
      /\ z.errors = s.errors /\ z.failed = s.failed
      /\ z.ambiguous = IF t.ambiguous THEN s.ambiguous + 1 ELSE s.ambiguous
  BY DEF CloseTrade, SessionShape, trade, record
<1>z. z = [s EXCEPT !.trades = z.trades, !.table = z.table,
                    !.ambiguous = z.ambiguous, !.log = z.log, !.closed = z.closed]
  BY DEF CloseTrade, SessionShape
<1> HIDE DEF z
<1>5. /\ s.log \in Seq(Records) /\ s.trades \in Seq(Trades) /\ s.closed \in Seq(Closings)
      /\ s.table \in [Regimes -> Nat] /\ s.ambiguous \in Nat
      /\ MaxClosedTrades \in Nat \ {0}
  BY SessionReportsAssumption DEF SessionShape
<1>6. /\ longer \in Seq(Records) /\ z.trades \in Seq(Trades)
      /\ z.closed \in Seq(Closings)
      /\ Len(longer) = Len(s.log) + 1
      /\ Len(z.trades) = Len(s.trades) + 1 /\ Len(z.closed) = Len(s.closed) + 1
  BY <1>2, <1>3, <1>4, <1>5, AppendProperties
<1>e. EndsWith(s.closed, s.log) /\ EndsWith(s.closed, s.trades)
  BY DEF InMemory, Kept, LogIsTail
<1>l. EndsWith(z.closed, longer)
  BY <1>3, <1>4, <1>5, <1>e, AppendKeepsTail
<1> HIDE DEF longer
<1>7. /\ z.log \in Seq(Records)
      /\ Len(z.log) = IF Len(s.log) + 1 <= MaxClosedTrades THEN Len(s.log) + 1
                      ELSE MaxClosedTrades
  BY <1>4, <1>5, <1>6, LastOfIs
<1>8. z.table \in [Regimes -> Nat]
  BY <1>1, <1>2, <1>4, <1>5 DEF RecordTrade, Trades
<1>a. z.ambiguous \in Nat
  BY <1>4, <1>5
<1>9. z \in SessionShape
  BY <1>z, <1>6, <1>7, <1>8, <1>a DEF SessionShape
<1>10. EndsWith(z.closed, z.log)
  BY <1>l, <1>4, <1>5, <1>6, CutKeepsTail
<1>11. EndsWith(z.closed, z.trades)
  BY <1>2, <1>4, <1>5, <1>e, AppendKeepsTail
<1>12. /\ Len(z.log) = IF Len(z.closed) <= MaxClosedTrades THEN Len(z.closed)
                       ELSE MaxClosedTrades
       /\ Len(z.log) <= Len(z.trades)
  <2>1. /\ Len(s.log) = IF Len(s.closed) <= MaxClosedTrades THEN Len(s.closed)
                        ELSE MaxClosedTrades
        /\ Len(s.log) <= Len(s.trades)
        /\ Len(s.log) \in Nat /\ Len(s.trades) \in Nat /\ Len(s.closed) \in Nat
    BY <1>5, LenProperties DEF InMemory, Kept, LogIsTail
  <2> QED  BY <2>1, <1>5, <1>6, <1>7
<1>13. TableCounts(z)
  <2> SUFFICES ASSUME NEW r \in Regimes
               PROVE  z.table[r] = Cardinality(Samples(z.closed, r))
    BY DEF TableCounts
  <2>1. s.table[r] = Cardinality(Samples(s.closed, r))
    BY DEF InMemory, Kept, TableCounts
  <2>2. z.table[r] = IF t.regime = r /\ t.hasR THEN s.table[r] + 1 ELSE s.table[r]
    BY <1>1, <1>4, <1>5 DEF RecordTrade, trade
  <2> QED  BY <2>1, <2>2, <1>1, <1>4, <1>5, SamplesAppend
<1>14. TroubleLogged(z)
  BY <1>4 DEF InMemory, Kept, TroubleLogged
<1> QED  BY <1>9, <1>10, <1>11, <1>12, <1>13, <1>14 DEF InMemory, Kept, LogIsTail, z

\* A bar closes at most one trade, may bring an error, and leaves the lane on
\* itself (process_bar).
LEMMA ProcessBarKeeps ==
  ASSUME NEW s \in SessionShape, InMemory(s), NEW bar \in Nat,
         NEW outcome \in Outcomes, NEW grade \in GateGrades, NEW now
  PROVE  LET z == ProcessBar(s, bar, outcome, grade, now)
         IN  z \in SessionShape /\ InMemory(z) /\ LaneBehind(z)
<1> DEFINE exited == IF outcome.trade = {} THEN s
                     ELSE CloseTrade(s, CHOOSE t \in outcome.trade : TRUE)
           decided == IF outcome.fails THEN RecordError(exited) ELSE exited
           lane == SyncMarket(decided.lane, bar, grade, now)
           z == ProcessBar(s, bar, outcome, grade, now)
<1>1. exited \in SessionShape /\ InMemory(exited)
  <2>1. CASE outcome.trade = {}
    BY <2>1
  <2>2. CASE outcome.trade # {}
    <3>1. (CHOOSE t \in outcome.trade : TRUE) \in outcome.trade
      BY <2>2
    <3>2. (CHOOSE t \in outcome.trade : TRUE) \in Closings
      BY <3>1 DEF Closings
    <3> QED  BY <2>2, <3>2, CloseTradeKeeps
  <2> QED  BY <2>1, <2>2
<1>2. decided \in SessionShape /\ InMemory(decided)
  BY <1>1, RecordErrorKeeps
<1>3. z = [decided EXCEPT !.watermark = bar, !.bars = @ + 1, !.lane = lane]
  BY <1>2 DEF ProcessBar, SessionShape
<1> HIDE DEF exited, decided
<1> DEFINE bars == decided.bars + 1
<1>b. bars \in Nat /\ z = [decided EXCEPT !.watermark = bar, !.bars = bars, !.lane = lane]
  BY <1>2, <1>3 DEF SessionShape
<1>4. lane \in Lanes /\ lane.lastBar = bar
  <2>1. /\ decided.lane.status \in {"NO_DATA", "OK", "ERROR"}
        /\ decided.lane.source \in {"none", "live_refresh", "historical_replay"}
        /\ decided.lane.grade \in GateGrades
    BY <1>2 DEF SessionShape, Lanes
  <2> QED  BY <2>1, LaneIs DEF SyncMarket
<1> HIDE DEF lane, z, bars
<1>5. /\ z \in SessionShape /\ z.watermark = bar /\ z.lane = lane
      /\ z.log = decided.log /\ z.trades = decided.trades /\ z.table = decided.table
      /\ z.closed = decided.closed
      /\ z.failed = decided.failed /\ z.errors = decided.errors
  BY <1>2, <1>b, <1>4 DEF SessionShape
<1>6. InMemory(z)
  <2>1. TroubleLogged(z)
    BY <1>2, <1>5 DEF InMemory, Kept, TroubleLogged
  <2> QED  BY <1>2, <1>5, <2>1, SamePartsSameConsistency
<1>7. LaneBehind(z)
  BY <1>4, <1>5 DEF LaneBehind
<1> QED  BY <1>5, <1>6, <1>7 DEF z

\* A failed refresh is an error, and the lane keeps its bar
\* (refresh_market_data).
LEMMA RefreshFailedKeeps ==
  ASSUME NEW s \in SessionShape, InMemory(s), NEW now
  PROVE  LET z == RefreshFailed(s, now)
         IN  /\ z \in SessionShape /\ InMemory(z)
             /\ LaneBehind(s) => LaneBehind(z)
<1> DEFINE e == RecordError(s)
           lane == Lane("ERROR", e.lane.source, e.lane.lastBar, e.lane.grade, now)
           z == RefreshFailed(s, now)
<1>1. e \in SessionShape /\ InMemory(e) /\ e.lane = s.lane /\ e.watermark = s.watermark
  BY RecordErrorKeeps
<1> HIDE DEF e
<1>2. lane \in Lanes /\ lane.lastBar = s.lane.lastBar
  BY <1>1, LaneIs DEF SessionShape, Lanes
<1> HIDE DEF lane
<1>3. z = [e EXCEPT !.lane = lane]
  BY <1>1 DEF RefreshFailed, SessionShape, e, lane
<1> HIDE DEF z
<1>4. /\ z \in SessionShape /\ z.watermark = e.watermark /\ z.lane = lane
      /\ z.log = e.log /\ z.trades = e.trades /\ z.table = e.table
      /\ z.closed = e.closed /\ z.failed = e.failed /\ z.errors = e.errors
  BY <1>1, <1>2, <1>3 DEF SessionShape
<1>5. InMemory(z)
  <2>1. TroubleLogged(z)
    BY <1>1, <1>4 DEF InMemory, Kept, TroubleLogged
  <2> QED  BY <1>1, <1>4, <2>1, SamePartsSameConsistency
<1>6. LaneBehind(s) => LaneBehind(z)
  BY <1>1, <1>2, <1>4 DEF LaneBehind
<1> QED  BY <1>4, <1>5, <1>6 DEF z

\* A refresh that succeeds moves the lane to its newest bar, which the session
\* may not have processed yet (refresh_market_data).
LEMMA RefreshedKeeps ==
  ASSUME NEW s \in SessionShape, InMemory(s), NEW bar \in Nat,
         NEW grade \in GateGrades, NEW now
  PROVE  LET z == Refreshed(s, bar, grade, now)
         IN  /\ z \in SessionShape /\ InMemory(z) /\ z.watermark = s.watermark
             /\ bar <= s.watermark => LaneBehind(z)
<1> DEFINE lane == Lane("OK", "live_refresh", bar, grade, now)
           z == Refreshed(s, bar, grade, now)
<1>1. lane \in Lanes /\ lane.lastBar = bar
  BY LaneIs
<1> HIDE DEF lane
<1>2. z = [s EXCEPT !.lane = lane]
  BY DEF Refreshed, lane
<1> HIDE DEF z
<1>3. /\ z \in SessionShape /\ z.watermark = s.watermark /\ z.lane = lane
      /\ z.log = s.log /\ z.trades = s.trades /\ z.table = s.table
      /\ z.closed = s.closed /\ z.failed = s.failed /\ z.errors = s.errors
  BY <1>1, <1>2 DEF SessionShape
<1>4. InMemory(z)
  <2>1. TroubleLogged(z)
    BY <1>3 DEF InMemory, Kept, TroubleLogged
  <2> QED  BY <1>3, <2>1, SamePartsSameConsistency
<1> QED  BY <1>1, <1>3, <1>4 DEF LaneBehind, z

\* What is written to the file has its log from the portfolio's trades, which
\* are at least those of the log (_serialise_state).
LEMMA SerialiseKeeps ==
  ASSUME NEW s \in SessionShape, InMemory(s)
  PROVE  LET z == Serialise(s)
         IN  /\ z \in SessionShape /\ Kept(z)
             /\ LaneBehind(s) => LaneBehind(z)
<1> DEFINE kept == LastOf(s.trades, MaxClosedTrades)
           log == [i \in DOMAIN kept |-> ToDict(kept[i])]
           z == Serialise(s)
<1>1. /\ s.trades \in Seq(Trades) /\ s.closed \in Seq(Closings) /\ s.log \in Seq(Records)
      /\ MaxClosedTrades \in Nat \ {0}
  BY SessionReportsAssumption DEF SessionShape
<1>2. /\ kept \in Seq(Trades)
      /\ Len(kept) = IF Len(s.trades) <= MaxClosedTrades THEN Len(s.trades)
                     ELSE MaxClosedTrades
      /\ EndsWith(s.closed, kept)
  <2>1. EndsWith(s.closed, s.trades)
    BY DEF InMemory
  <2> QED  BY <1>1, <2>1, LastOfIs, CutKeepsTail
<1> HIDE DEF kept
<1>3. /\ DOMAIN kept = 1 .. Len(kept) /\ Len(kept) \in Nat
      /\ \A i \in 1 .. Len(kept) : kept[i] \in Trades
  BY <1>2, LenProperties, ElementOfSeq
<1>4. \A i \in 1 .. Len(kept) :
         /\ ToDict(kept[i]) \in Records
         /\ ToDict(kept[i]).regime = kept[i].regime /\ ToDict(kept[i]).hasR = kept[i].hasR
  BY <1>3 DEF ToDict, Trades, Records
<1>5. /\ log \in Seq(Records) /\ Len(log) = Len(kept)
      /\ \A i \in 1 .. Len(kept) : log[i] = ToDict(kept[i])
  <2>1. log \in [1 .. Len(kept) -> Records]
    BY <1>3, <1>4
  <2>2. log \in Seq(Records)
    BY <1>3, <2>1, SeqDef
  <2> QED  BY <1>3, <2>1, <2>2, LenProperties
<1>6. \A i \in 1 .. Len(log) : SameTrade(log[i], kept[i])
  BY <1>4, <1>5 DEF SameTrade
<1> HIDE DEF log
<1>7. z = [s EXCEPT !.log = log, !.trades = <<>>]
  BY DEF Serialise, log, kept
<1> HIDE DEF z
<1>8. /\ z \in SessionShape /\ z.log = log /\ z.closed = s.closed /\ z.table = s.table
      /\ z.errors = s.errors /\ z.failed = s.failed
      /\ z.lane = s.lane /\ z.watermark = s.watermark
  <2>1. <<>> \in Seq(Trades)
    OBVIOUS
  <2> QED  BY <1>5, <1>7, <2>1 DEF SessionShape
<1>9. EndsWith(s.closed, log)
  BY <1>2, <1>5, <1>6 DEF EndsWith, SameTrade
<1>10. Len(log) = IF Len(s.closed) <= MaxClosedTrades THEN Len(s.closed)
                  ELSE MaxClosedTrades
  <2>1. /\ Len(s.log) = IF Len(s.closed) <= MaxClosedTrades THEN Len(s.closed)
                        ELSE MaxClosedTrades
        /\ Len(s.log) <= Len(s.trades) /\ Len(s.trades) <= Len(s.closed)
        /\ Len(s.log) \in Nat /\ Len(s.trades) \in Nat /\ Len(s.closed) \in Nat
    BY <1>1, LenProperties DEF InMemory, Kept, LogIsTail, EndsWith
  <2> QED  BY <2>1, <1>1, <1>2, <1>5
<1>11. LogIsTail(z)
  BY <1>8, <1>9, <1>10 DEF LogIsTail
<1>12. TableCounts(z) /\ TroubleLogged(z)
  BY <1>8 DEF InMemory, Kept, TableCounts, TroubleLogged
<1>13. LaneBehind(s) => LaneBehind(z)
  BY <1>8 DEF LaneBehind
<1> QED  BY <1>8, <1>11, <1>12, <1>13 DEF Kept, z

\* What is read back has the log's rows for trades (_restore_trades).
LEMMA RestoreKeeps ==
  ASSUME NEW p \in SessionShape, Kept(p)
  PROVE  LET z == Restore(p)
         IN  /\ z \in SessionShape /\ InMemory(z)
             /\ LaneBehind(p) => LaneBehind(z)
<1> DEFINE Back(row) == [regime |-> row.regime, hasR |-> row.hasR,
                         voters |-> row.voters, metas |-> row.metas]
           trades == [i \in DOMAIN p.log |-> Back(p.log[i])]
           z == Restore(p)
<1>1. /\ p.log \in Seq(Records) /\ DOMAIN p.log = 1 .. Len(p.log) /\ Len(p.log) \in Nat
      /\ \A i \in 1 .. Len(p.log) : p.log[i] \in Records
  <2>1. p.log \in Seq(Records)
    BY DEF SessionShape
  <2> QED  BY <2>1, LenProperties, ElementOfSeq
<1>2. \A i \in 1 .. Len(p.log) :
         Back(p.log[i]) \in Trades /\ SameTrade(Back(p.log[i]), p.log[i])
  BY <1>1 DEF Trades, Records, SameTrade
<1> HIDE DEF Back
<1>3. /\ trades \in Seq(Trades) /\ Len(trades) = Len(p.log)
      /\ \A i \in 1 .. Len(p.log) : trades[i] = Back(p.log[i])
  <2>1. trades \in [1 .. Len(p.log) -> Trades]
    BY <1>1, <1>2
  <2>2. trades \in Seq(Trades)
    BY <1>1, <2>1, SeqDef
  <2> QED  BY <1>1, <2>1, <2>2, LenProperties
<1> HIDE DEF trades
<1>4. z = [p EXCEPT !.trades = trades]
  BY DEF Restore, trades, Back
<1> HIDE DEF z
<1>5. /\ z \in SessionShape /\ z.trades = trades /\ z.log = p.log
      /\ z.closed = p.closed /\ z.table = p.table
      /\ z.errors = p.errors /\ z.failed = p.failed
      /\ z.lane = p.lane /\ z.watermark = p.watermark
  BY <1>3, <1>4 DEF SessionShape
<1>6. EndsWith(p.closed, trades)
  BY <1>2, <1>3 DEF EndsWith, SameTrade, Kept, LogIsTail
<1>7. InMemory(z)
  BY <1>1, <1>3, <1>5, <1>6
     DEF InMemory, Kept, LogIsTail, TableCounts, TroubleLogged
<1>8. LaneBehind(p) => LaneBehind(z)
  BY <1>5 DEF LaneBehind
<1> QED  BY <1>5, <1>7, <1>8 DEF z

\* Whatever the file holds, an engine over it starts consistent (load_state).
LEMMA LoadKeeps ==
  ASSUME NEW f \in Files, Kept(f.session), LaneBehind(f.session)
  PROVE  Load(f) \in SessionShape /\ InMemory(Load(f)) /\ LaneBehind(Load(f))
<1>1. CASE f.state = "whole"
  <2>1. f.session \in SessionShape
    BY DEF Files
  <2> QED  BY <1>1, <2>1, RestoreKeeps DEF Load
<1>2. CASE f.state = "absent"
  BY <1>2, BlankIsConsistent DEF Load
<1>3. CASE f.state \notin {"whole", "absent"}
  <2>1. LaneBehind(RecordError(BlankState))
    BY BlankIsConsistent, RecordErrorKeeps DEF LaneBehind
  <2> QED  BY <1>3, <2>1, BlankIsConsistent, RecordErrorKeeps DEF Load
<1> QED  BY <1>1, <1>2, <1>3

\* A file nobody can read is moved aside; the others stay (load_state).
LEMMA QuarantineKeeps ==
  ASSUME NEW f \in Files, Kept(f.session), LaneBehind(f.session)
  PROVE  /\ Quarantine(f) \in Files /\ Kept(Quarantine(f).session)
         /\ LaneBehind(Quarantine(f).session) /\ Quarantine(f).state # "torn"
<1>1. Absent \in Files /\ Absent.state = "absent" /\ Absent.session = BlankState
  BY BlankIsConsistent DEF Absent, Files
<1>2. Kept(BlankState) /\ LaneBehind(BlankState)
  BY BlankIsConsistent DEF InMemory
<1> QED  BY <1>1, <1>2 DEF Quarantine

-----------------------------------------------------------------------------
(* The steps.                                                                 *)

\* What stands in the place of a step names that step.
LEMMA StandingIs ==
  \A step \in Steps : Standing(step) \in Standings /\ Standing(step).step = step
  BY DEF Standing, Standings, GateGrades

\* A step of one writer leaves the others as they are.
LEMMA WriterSteps ==
  ASSUME WritersOK, NEW w \in Writers, NEW z \in SessionShape, NEW p \in Standings,
         InMemory(z), p.step = "replaying" \/ LaneBehind(z),
         mem' = [mem EXCEPT ![w] = z], proc' = [proc EXCEPT ![w] = p]
  PROVE  WritersOK'
<1>1. mem' \in [Writers -> SessionShape] /\ proc' \in [Writers -> Standings]
  BY DEF WritersOK
<1>2. ASSUME NEW v \in Writers
      PROVE  InMemory(mem'[v]) /\ (proc'[v].step = "replaying" \/ LaneBehind(mem'[v]))
  <2>1. CASE v = w
    BY <2>1 DEF WritersOK
  <2>2. CASE v # w
    BY <2>2 DEF WritersOK, At
  <2> QED  BY <2>1, <2>2
<1> QED  BY <1>1, <1>2 DEF WritersOK, At

\* Every session is consistent when the program starts.
LEMMA InitIndInv == Init => IndInv
<1> SUFFICES ASSUME Init PROVE IndInv
  OBVIOUS
<1>1. mem = [w \in Writers |-> BlankState] /\ proc = [w \in Writers |-> Standing("down")]
  BY DEF Init
<1>2. Standing("down") \in Standings /\ Standing("down").step = "down"
  BY StandingIs DEF Steps
<1>3. WritersOK
  BY <1>1, <1>2, BlankIsConsistent DEF WritersOK
<1>4. FilesOK
  <2>1. Absent \in Files /\ Absent.session = BlankState
    BY BlankIsConsistent DEF Absent, Files
  <2> QED  BY <2>1, BlankIsConsistent DEF Init, FilesOK, IsKeptFile, InMemory
<1>5. RestOK
  <2>1. MaxClock \in Nat
    BY SessionReportsAssumption
  <2>2. clock \in Nat
    BY <2>1 DEF Init
  <2> QED  BY <2>2 DEF Init, RestOK, Handles
<1>6. SavesAreSafe
  BY <1>1, <1>2 DEF Init, SavesAreSafe, Saving, At, Absent
<1> QED  BY <1>3, <1>4, <1>5, <1>6 DEF IndInv

\* Each step of a writer, of the market or of the operator keeps every session
\* consistent, in memory and in the files.
LEMMA NextSessionsOK ==
  ASSUME IndInv, [Next]_vars
  PROVE  WritersOK' /\ FilesOK' /\ RestOK'
<1> USE DEF IndInv
<1>m. ASSUME NEW w \in Writers
      PROVE  /\ mem[w] \in SessionShape /\ InMemory(mem[w]) /\ proc[w] \in Standings
             /\ mem[w].watermark \in Nat
             /\ At(w, "replaying") \/ LaneBehind(mem[w])
  BY DEF WritersOK, SessionShape
<1>u. mem' = mem /\ proc' = proc => WritersOK'
  BY DEF WritersOK, At
<1>d. /\ \A step \in Steps : Standing(step) \in Standings
      /\ \A step \in Steps : Standing(step).step = step
  BY StandingIs
<1>f. tmp' = tmp /\ file' = file => FilesOK'
  BY DEF FilesOK, IsKeptFile
<1>g. \A f : IsKeptFile(f) => IsKeptFile(Quarantine(f))
  BY QuarantineKeeps DEF IsKeptFile
<1>k. \A f, state : IsKeptFile(f) /\ state \in {"absent", "torn", "whole", "damaged"}
                      => IsKeptFile([f EXCEPT !.state = state])
  BY DEF IsKeptFile, Files
<1>a. IsKeptFile(Absent)
  <2>1. Absent \in Files /\ Absent.session = BlankState
    BY BlankIsConsistent DEF Absent, Files
  <2> QED  BY <2>1, BlankIsConsistent DEF IsKeptFile, InMemory
<1>1. CASE Tick
  BY <1>1, <1>u, <1>f DEF Tick, RestOK
<1>2. CASE Look
  BY <1>2, <1>u, <1>g DEF Look, RestOK, FilesOK
<1>3. CASE Damage
  <2>1. WritersOK'
    BY <1>3, <1>u DEF Damage
  <2>2. IsKeptFile([file EXCEPT !.state = "damaged"])
    BY <1>k DEF FilesOK
  <2>3. FilesOK'
    BY <1>3, <2>2 DEF Damage, FilesOK
  <2>4. RestOK'
    BY <1>3 DEF Damage, RestOK
  <2> QED  BY <2>1, <2>3, <2>4
<1>4. ASSUME NEW w \in Writers, Start(w) PROVE WritersOK' /\ FilesOK' /\ RestOK'
  <2>1. Load(file) \in SessionShape /\ InMemory(Load(file)) /\ LaneBehind(Load(file))
    BY LoadKeeps DEF FilesOK, IsKeptFile
  <2>2. WritersOK'
    BY <1>4, <2>1, <1>d, WriterSteps DEF Start, Goto, Steps
  <2> QED  BY <1>4, <2>2, <1>g DEF Start, FilesOK, RestOK
<1>5. ASSUME NEW w \in Writers, OpenTmp(w) PROVE WritersOK' /\ FilesOK' /\ RestOK'
  <2>1. mem' = [mem EXCEPT ![w] = mem[w]]
    BY <1>5 DEF OpenTmp, WritersOK
  <2>2. LaneBehind(mem[w])
    BY <1>5, <1>m DEF OpenTmp, At
  <2>3. WritersOK'
    BY <1>5, <2>1, <2>2, <1>m, <1>d, WriterSteps DEF OpenTmp, Goto, Steps
  <2>4. FilesOK'
    BY <1>5, <1>k, <1>a DEF OpenTmp, FilesOK
  <2>5. RestOK'
    BY <1>5 DEF OpenTmp, RestOK, Handles
  <2> QED  BY <2>3, <2>4, <2>5
<1>6. ASSUME NEW w \in Writers, FillTmp(w) PROVE WritersOK' /\ FilesOK' /\ RestOK'
  <2>1. mem' = [mem EXCEPT ![w] = mem[w]]
    BY <1>6 DEF FillTmp, WritersOK
  <2>2. LaneBehind(mem[w])
    BY <1>6, <1>m DEF FillTmp, At
  <2>3. WritersOK'
    BY <1>6, <2>1, <2>2, <1>m, <1>d, WriterSteps DEF FillTmp, Goto, Steps
  <2>4. ASSUME NEW f, NEW g \in Written(f, mem[w]) PROVE IsKeptFile(g)
    <3>1. /\ Serialise(mem[w]) \in SessionShape /\ Kept(Serialise(mem[w]))
          /\ LaneBehind(Serialise(mem[w]))
      BY <2>2, <1>m, SerialiseKeeps
    <3>2. \E state \in {"whole", "torn"} :
             g = [state |-> state, session |-> Serialise(mem[w])]
      BY <2>4 DEF Written
    <3> QED  BY <3>1, <3>2 DEF IsKeptFile, Files
  <2>5. FilesOK'
    BY <1>6, <2>4 DEF FillTmp, FilesOK
  <2>6. RestOK'
    BY <1>6 DEF FillTmp, RestOK, Handles
  <2> QED  BY <2>3, <2>5, <2>6
<1>7. ASSUME NEW w \in Writers, ReplaceFile(w) PROVE WritersOK' /\ FilesOK' /\ RestOK'
  <2>1. mem' = [mem EXCEPT ![w] = mem[w]]
    BY <1>7 DEF ReplaceFile, WritersOK
  <2>2. LaneBehind(mem[w])
    BY <1>7, <1>m DEF ReplaceFile, At
  <2>3. WritersOK'
    BY <1>7, <2>1, <2>2, <1>m, <1>d, WriterSteps DEF ReplaceFile, Goto, Steps
  <2>4. FilesOK'
    BY <1>7, <1>a DEF ReplaceFile, FilesOK
  <2>5. RestOK'
    BY <1>7 DEF ReplaceFile, RestOK, Handles
  <2> QED  BY <2>3, <2>4, <2>5
<1>8. ASSUME NEW w \in Writers, RefreshFails(w) PROVE WritersOK' /\ FilesOK' /\ RestOK'
  <2> DEFINE z == RefreshFailed(mem[w], clock)
  <2>1. LaneBehind(mem[w])
    BY <1>8, <1>m DEF RefreshFails, Command, At
  <2>2. z \in SessionShape /\ InMemory(z) /\ LaneBehind(z)
    BY <2>1, <1>m, RefreshFailedKeeps
  <2>3. mem' = [mem EXCEPT ![w] = z] /\ proc' = [proc EXCEPT ![w] = Standing("opening")]
    BY <1>8 DEF RefreshFails, Goto
  <2> HIDE DEF z
  <2>4. WritersOK'
    BY <2>2, <2>3, <1>d, WriterSteps DEF Steps
  <2>5. RestOK'
    BY <1>8 DEF RefreshFails, Command, RestOK
  <2> QED  BY <1>8, <2>4, <2>5, <1>f DEF RefreshFails
<1>9. ASSUME NEW w \in Writers, Stop(w) \/ Crash(w) PROVE WritersOK' /\ FilesOK' /\ RestOK'
  <2>1. mem' = [mem EXCEPT ![w] = BlankState] /\ proc' = [proc EXCEPT ![w] = Standing("down")]
    BY <1>9 DEF Stop, Crash, Down, Goto
  <2>2. WritersOK'
    BY <2>1, <1>d, BlankIsConsistent, WriterSteps DEF Steps
  <2>3. RestOK'
    BY <1>9 DEF Stop, Crash, Down, RestOK, Handles
  <2> QED  BY <1>9, <2>2, <2>3, <1>f DEF Stop, Crash, Down
<1>10. ASSUME NEW w \in Writers, NEW e \in 1 .. clock - 1,
              NEW grade \in Grades \ {"FAIL"}, BeginReplay(w, e, grade)
       PROVE  WritersOK' /\ FilesOK' /\ RestOK'
  <2> DEFINE p == [step |-> "replaying", to |-> e, grade |-> grade]
  <2>1. e \in Nat
    BY DEF RestOK
  <2>2. p \in Standings /\ p.step = "replaying"
    BY <2>1 DEF Standings, Steps, GateGrades
  <2>3. mem' = [mem EXCEPT ![w] = mem[w]] /\ proc' = [proc EXCEPT ![w] = p]
    BY <1>10 DEF BeginReplay, CatchUp, WritersOK
  <2> HIDE DEF p
  <2>4. WritersOK'
    BY <2>2, <2>3, <1>m, WriterSteps
  <2>5. RestOK'
    BY <1>10 DEF BeginReplay, Command, RestOK
  <2> QED  BY <1>10, <2>4, <2>5, <1>f DEF BeginReplay
<1>11. ASSUME NEW w \in Writers, NEW e \in 1 .. clock - 1, NEW grade \in Grades,
              BeginLive(w, e, grade)
       PROVE  WritersOK' /\ FilesOK' /\ RestOK'
  <2> DEFINE z == Refreshed(mem[w], e, grade, clock)
             p == IF e > mem[w].watermark
                  THEN [step |-> "replaying", to |-> e, grade |-> grade]
                  ELSE Standing("opening")
  <2>1. e \in Nat /\ grade \in GateGrades
    BY DEF RestOK, GateGrades
  <2>2. /\ z \in SessionShape /\ InMemory(z)
        /\ e <= mem[w].watermark => LaneBehind(z)
    BY <2>1, <1>m, RefreshedKeeps
  <2>3. p \in Standings /\ (p.step = "replaying" \/ LaneBehind(z))
    <3>1. CASE e > mem[w].watermark
      BY <3>1, <2>1 DEF Standings, Steps
    <3>2. CASE ~(e > mem[w].watermark)
      <4>1. LaneBehind(z)
        BY <3>2, <2>1, <2>2, <1>m
      <4> QED  BY <3>2, <4>1, <1>d DEF Steps
    <3> QED  BY <3>1, <3>2
  <2>4. mem' = [mem EXCEPT ![w] = z] /\ proc' = [proc EXCEPT ![w] = p]
    BY <1>11 DEF BeginLive, CatchUp, Goto
  <2> HIDE DEF p, z
  <2>5. WritersOK'
    BY <2>2, <2>3, <2>4, WriterSteps
  <2>6. RestOK'
    BY <1>11 DEF BeginLive, Command, RestOK
  <2> QED  BY <1>11, <2>5, <2>6, <1>f DEF BeginLive
<1>12. ASSUME NEW w \in Writers, NEW outcome \in Outcomes, ProcessNext(w, outcome)
       PROVE  WritersOK' /\ FilesOK' /\ RestOK'
  <2> DEFINE bar == mem[w].watermark + 1
             z == ProcessBar(mem[w], bar, outcome, proc[w].grade, clock)
             p == IF bar = proc[w].to THEN Standing("opening") ELSE proc[w]
  <2>1. bar \in Nat /\ proc[w].grade \in GateGrades
    BY <1>m DEF Standings
  <2>2. z \in SessionShape /\ InMemory(z) /\ LaneBehind(z)
    BY <2>1, <1>m, ProcessBarKeeps
  <2>3. p \in Standings
    BY <1>m, <1>d DEF Steps
  <2>4. mem' = [mem EXCEPT ![w] = z]
    BY <1>12 DEF ProcessNext
  <2>5. proc' = [proc EXCEPT ![w] = p]
    BY <1>12 DEF ProcessNext, Goto, WritersOK
  <2> HIDE DEF p, z
  <2>6. WritersOK'
    BY <2>2, <2>3, <2>4, <2>5, WriterSteps
  <2> QED  BY <1>12, <2>6, <1>f DEF ProcessNext, RestOK
<1>13. CASE UNCHANGED vars
  BY <1>13, <1>u, <1>f DEF vars, RestOK
<1> QED  BY <1>1, <1>2, <1>3, <1>4, <1>5, <1>6, <1>7, <1>8, <1>9, <1>10, <1>11,
            <1>12, <1>13 DEF Next

\* Saves stay apart until two writers are in one at once (_persist).
LEMMA NextSavesAreSafe ==
  ASSUME IndInv, [Next]_vars
  PROVE  SavesAreSafe'
<1> USE DEF IndInv
<1>t. /\ proc \in [Writers -> Standings] /\ handle \in [Writers -> Handles]
      /\ raced \in BOOLEAN
  BY DEF WritersOK, RestOK
<1>d. \A step \in Steps : Standing(step) \in Standings /\ Standing(step).step = step
  BY StandingIs
<1>a. Absent.state = "absent" /\ [Absent EXCEPT !.state = "torn"].state = "torn"
  BY DEF Absent
<1>f. file \in [state : {"absent", "torn", "whole", "damaged"}, session : SessionShape]
  BY DEF FilesOK, IsKeptFile, Files
<1>r. CASE raced
  <2>1. raced'
    BY <1>r DEF Next, vars, Tick, Look, Damage, Start, OpenTmp, FillTmp, ReplaceFile,
                RefreshFails, Stop, Crash, Down, BeginReplay, BeginLive, ProcessNext
  <2> QED  BY <2>1 DEF SavesAreSafe
<1>n. CASE ~raced
  <2>n. /\ \A w, v \in Writers : Saving(w) /\ Saving(v) => w = v
        /\ \A w \in Writers : At(w, "filling") => handle[w] = "tmp" /\ tmp.state = "torn"
        /\ \A w \in Writers : At(w, "swapping") => tmp.state = "whole"
        /\ file.state # "torn"
    BY <1>n DEF SavesAreSafe
  <2> USE DEF At, Saving, SavesAreSafe, Goto
  <2>1. CASE Tick \/ UNCHANGED vars
    BY <2>1, <2>n DEF Tick, vars
  <2>2. CASE Look \/ Damage
    <3>1. file'.state # "torn"
      BY <2>2, <2>n, <1>a, <1>f DEF Look, Damage, Quarantine
    <3> QED  BY <2>2, <2>n, <3>1 DEF Look, Damage
  <2>3. ASSUME NEW w \in Writers,
               NEW p \in Standings, p.step \in Steps \ {"filling", "swapping"},
               proc' = [proc EXCEPT ![w] = p], tmp' = tmp, raced' = raced,
               \A v \in Writers \ {w} : handle'[v] = handle[v], file'.state # "torn"
        PROVE  SavesAreSafe'
    BY <2>3, <2>n, <1>t
  <2>4. ASSUME NEW w \in Writers,
               \/ Start(w) \/ RefreshFails(w) \/ Stop(w) \/ Crash(w)
               \/ \E e \in 1 .. clock - 1 : \E grade \in Grades :
                     BeginReplay(w, e, grade) \/ BeginLive(w, e, grade)
               \/ \E outcome \in Outcomes : ProcessNext(w, outcome)
        PROVE  SavesAreSafe'
    <3>1. /\ tmp' = tmp /\ raced' = raced
          /\ \A v \in Writers \ {w} : handle'[v] = handle[v]
      BY <2>4, <1>t DEF Start, RefreshFails, Stop, Crash, Down, BeginReplay, BeginLive,
                        ProcessNext
    <3>2. file'.state # "torn"
      BY <2>4, <2>n, <1>a DEF Start, RefreshFails, Stop, Crash, Down, BeginReplay,
                              BeginLive, ProcessNext, Quarantine
    <3>3. \E p \in Standings : /\ p.step \in Steps \ {"filling", "swapping"}
                               /\ proc' = [proc EXCEPT ![w] = p]
      BY <2>4, <1>d, <1>t DEF Start, RefreshFails, Stop, Crash, Down, BeginReplay,
                              BeginLive, ProcessNext, CatchUp, Steps, Standings,
                              RestOK, GateGrades, Command
    <3> QED  BY <3>1, <3>2, <3>3, <2>3
  <2>5. ASSUME NEW w \in Writers, OpenTmp(w) PROVE SavesAreSafe'
    <3>1. CASE \E v \in Writers \ {w} : Saving(v)
      BY <3>1, <2>5 DEF OpenTmp
    <3>2. CASE \A v \in Writers \ {w} : ~Saving(v)
      <4>1. proc' = [proc EXCEPT ![w] = Standing("filling")] /\ tmp'.state = "torn"
            /\ handle' = [handle EXCEPT ![w] = "tmp"] /\ file' = file
        BY <2>5, <1>a DEF OpenTmp
      <4> QED  BY <4>1, <3>2, <2>n, <1>t, <1>d DEF Steps
    <3> QED  BY <3>1, <3>2
  <2>6. ASSUME NEW w \in Writers, FillTmp(w) PROVE SavesAreSafe'
    <3>1. At(w, "filling") /\ handle[w] = "tmp" /\ tmp.state = "torn"
      BY <2>6, <2>n DEF FillTmp
    <3>2. tmp' \in Written(tmp, mem[w]) /\ file' = file
      BY <2>6, <3>1 DEF FillTmp
    <3>3. tmp'.state = "whole"
      BY <3>1, <3>2 DEF Written
    <3>4. proc' = [proc EXCEPT ![w] = Standing("swapping")]
      BY <2>6 DEF FillTmp
    <3>5. \A v \in Writers \ {w} : ~Saving(v)
      BY <3>1, <2>n
    <3> QED  BY <3>2, <3>3, <3>4, <3>5, <2>n, <1>t, <1>d DEF Steps
  <2>7. ASSUME NEW w \in Writers, ReplaceFile(w) PROVE SavesAreSafe'
    <3>1. At(w, "swapping") /\ tmp.state = "whole"
      BY <2>7, <2>n DEF ReplaceFile
    <3>2. proc' = [proc EXCEPT ![w] = Standing("idle")] /\ file' = tmp
      BY <2>7, <3>1 DEF ReplaceFile
    <3>3. \A v \in Writers \ {w} : ~Saving(v)
      BY <3>1, <2>n
    <3>4. \A v \in Writers : ~Saving(v)'
      BY <3>2, <3>3, <1>t, <1>d DEF Steps
    <3> QED  BY <3>1, <3>2, <3>4
  <2> QED  BY <2>1, <2>2, <2>4, <2>5, <2>6, <2>7 DEF Next
<1> QED  BY <1>r, <1>n, <1>t

-----------------------------------------------------------------------------
(* The results.                                                               *)

\* In every reachable state each session is consistent, wherever it is kept, and
\* saves that do not overlap leave complete files.
THEOREM SessionsStayConsistent == Spec => []IndInv
<1>1. Init => IndInv
  BY InitIndInv
<1>2. IndInv /\ [Next]_vars => IndInv'
  BY NextSessionsOK, NextSavesAreSafe DEF IndInv
<1> QED  BY <1>1, <1>2, PTL DEF Spec

\* A session the properties speak of is consistent: it is in memory, or it is
\* what an engine over the file starts with.
LEMMA SessionsAreInMemory ==
  ASSUME IndInv, NEW s \in Sessions
  PROVE  s \in SessionShape /\ InMemory(s)
<1>1. ASSUME NEW w \in Writers, s = mem[w] PROVE s \in SessionShape /\ InMemory(s)
  BY <1>1 DEF IndInv, WritersOK
<1>2. Shown \in SessionShape /\ InMemory(Shown)
  BY LoadKeeps DEF IndInv, FilesOK, IsKeptFile, Shown
<1> QED  BY <1>1, <1>2 DEF Sessions

\* The log the statistics are made of is always the last MaxClosedTrades trades
\* of the session, one record each and in order, through any number of saves,
\* reloads and crashes (_process_exits, _serialise_state, _restore_trades).
THEOREM LogIsAlwaysTheTail == Spec => []RecordsAreTail
<1>1. IndInv => RecordsAreTail
  <2> SUFFICES ASSUME IndInv, NEW s \in Sessions
               PROVE  LET tail == LastOf(s.closed, MaxClosedTrades)
                      IN  /\ Len(s.log) = Len(tail)
                          /\ \A i \in DOMAIN tail : s.log[i].regime = tail[i].regime
                                                    /\ s.log[i].hasR = tail[i].hasR
    BY DEF RecordsAreTail
  <2> DEFINE tail == LastOf(s.closed, MaxClosedTrades)
  <2>1. /\ s.closed \in Seq(Closings) /\ s.log \in Seq(Records)
        /\ MaxClosedTrades \in Nat \ {0} /\ LogIsTail(s)
    BY SessionsAreInMemory, SessionReportsAssumption DEF SessionShape, InMemory, Kept
  <2>2. /\ tail \in Seq(Closings)
        /\ Len(tail) = IF Len(s.closed) <= MaxClosedTrades THEN Len(s.closed)
                       ELSE MaxClosedTrades
        /\ \A i \in 1 .. Len(tail) : tail[i] = s.closed[Len(s.closed) - Len(tail) + i]
    BY <2>1, LastOfIs
  <2> HIDE DEF tail
  <2>3. Len(s.log) = Len(tail) /\ DOMAIN tail = 1 .. Len(tail)
    BY <2>1, <2>2, LenProperties DEF LogIsTail
  <2>4. \A i \in 1 .. Len(tail) : SameTrade(s.log[i], tail[i])
    BY <2>1, <2>2, <2>3 DEF LogIsTail, EndsWith
  <2>5. \A i \in DOMAIN tail : s.log[i].regime = tail[i].regime
                               /\ s.log[i].hasR = tail[i].hasR
    BY <2>3, <2>4 DEF SameTrade
  <2> QED  BY <2>3, <2>5 DEF tail
<1> QED  BY <1>1, SessionsStayConsistent, PTL

\* A regime moves a weight exactly if enough of all its trades had an R, and
\* what the page calls sufficient always does, although the page counts the log
\* and the selector its own table (build_performance, RegimePerformanceTracker).
THEOREM EvidenceAlwaysAgrees == Spec => []EvidenceAgrees
<1>1. IndInv => EvidenceAgrees
  <2> SUFFICES ASSUME IndInv, NEW s \in Sessions, NEW r \in Regimes
               PROVE  LET view == PerformanceView(s)
                      IN  /\ view.sufficient[r] => view.influencesWeight[r]
                          /\ view.influencesWeight[r] <=> Sufficient(s.closed, r)
    BY DEF EvidenceAgrees
  <2> DEFINE A == Cardinality(Samples(s.log, r))
             B == Cardinality(Samples(s.closed, r))
  <2>1. /\ s.closed \in Seq(Closings) /\ s.log \in Seq(Records)
        /\ EndsWith(s.closed, s.log) /\ s.table[r] = B
    BY SessionsAreInMemory DEF SessionShape, InMemory, Kept, LogIsTail, TableCounts
  <2>2. A \in Nat /\ B \in Nat /\ A <= B /\ MinSamples \in Nat
    BY <2>1, SamplesFinite, TailHasFewerSamples, SessionReportsAssumption
  <2>3. /\ PerformanceView(s).sufficient[r] = (A >= MinSamples)
        /\ PerformanceView(s).influencesWeight[r] = (s.table[r] >= MinSamples)
    BY DEF PerformanceView, Sufficient
  <2>4. Sufficient(s.closed, r) = (B >= MinSamples)
    BY DEF Sufficient
  <2> HIDE DEF A, B
  <2>5. A >= MinSamples => s.table[r] >= MinSamples
    BY <2>1, <2>2
  <2>6. PerformanceView(s).sufficient[r] => PerformanceView(s).influencesWeight[r]
    BY <2>3, <2>5
  <2>7. PerformanceView(s).influencesWeight[r] = Sufficient(s.closed, r)
    BY <2>1, <2>3, <2>4
  <2> QED  BY <2>6, <2>7
<1> QED  BY <1>1, SessionsStayConsistent, PTL

\* A reader of the file finds a complete state, through crashes at any step of a
\* save, unless two runners save at the same time, and it shows the price and
\* the age of a bar its session has processed (_persist, run_live_tick).
THEOREM VisibleFileAlwaysComplete == Spec => []VisibleFileComplete
<1>1. IndInv => VisibleFileComplete
  <2> SUFFICES ASSUME IndInv PROVE VisibleFileComplete
    OBVIOUS
  <2>1. file.state = "torn" => raced
    BY DEF IndInv, SavesAreSafe
  <2>2. LaneBehind(Shown)
    BY LoadKeeps DEF IndInv, FilesOK, IsKeptFile, Shown
  <2> QED  BY <2>1, <2>2 DEF VisibleFileComplete, LaneBehind
<1> QED  BY <1>1, SessionsStayConsistent, PTL

-----------------------------------------------------------------------------
(* Trouble.  While one runner at a time extends the session, what the file     *)
(* told once it tells until it is moved aside.                                 *)

\* What is written, and what is read back, failed if the session did; no bar and
\* no refresh takes a failure back.
LEMMA FailuresStay ==
  ASSUME NEW s \in SessionShape
  PROVE  /\ Serialise(s).failed = s.failed /\ Restore(s).failed = s.failed
         /\ \A now : RefreshFailed(s, now).failed
         /\ \A bar, grade, now : Refreshed(s, bar, grade, now).failed = s.failed
         /\ \A bar, outcome, grade, now :
              s.failed => ProcessBar(s, bar, outcome, grade, now).failed
<1>d. DOMAIN s = {"lane", "errors", "bars", "watermark", "ambiguous", "log", "trades", "table",
                  "closed", "failed"}
  BY DEF SessionShape
<1>1. Serialise(s).failed = s.failed /\ Restore(s).failed = s.failed
  BY <1>d DEF Serialise, Restore
<1>2. /\ DOMAIN RecordError(s) = DOMAIN s /\ RecordError(s).failed
      /\ \A now : RefreshFailed(s, now).failed
  BY <1>d DEF RecordError, RefreshFailed
<1>3. \A bar, grade, now : Refreshed(s, bar, grade, now).failed = s.failed
  BY <1>d DEF Refreshed
<1>4. ASSUME NEW bar, NEW outcome, NEW grade, NEW now, s.failed
      PROVE  ProcessBar(s, bar, outcome, grade, now).failed
  <2> DEFINE t == CHOOSE t \in outcome.trade : TRUE
             exited == IF outcome.trade = {} THEN s ELSE CloseTrade(s, t)
             decided == IF outcome.fails THEN RecordError(exited) ELSE exited
  <2>1. DOMAIN CloseTrade(s, t) = DOMAIN s /\ CloseTrade(s, t).failed = s.failed
    BY <1>d DEF CloseTrade
  <2>2. DOMAIN exited = DOMAIN s /\ exited.failed
    BY <1>4, <2>1
  <2> HIDE DEF exited
  <2>3. DOMAIN decided = DOMAIN s /\ decided.failed
    BY <1>d, <2>2 DEF RecordError
  <2>4. ProcessBar(s, bar, outcome, grade, now)
          = [decided EXCEPT !.watermark = bar, !.bars = @ + 1,
                            !.lane = SyncMarket(@, bar, grade, now)]
    BY DEF ProcessBar, decided, exited
  <2> HIDE DEF decided
  <2> QED  BY <1>d, <2>3, <2>4
<1> QED  BY <1>1, <1>2, <1>3, <1>4

OneRunner == \A v, w \in Writers : Up(v) /\ Up(w) => v = w

\* A lone runner moves into place what it has in memory.
SavesItsSession ==
  \A w \in Writers :
     /\ At(w, "filling") => handle[w] = "tmp" /\ tmp.state = "torn"
     /\ At(w, "swapping") => tmp.state = "whole" /\ tmp.session.failed = mem[w].failed

\* Trouble a lone runner must tell of stands in the file or makes it unreadable,
\* and is known to the runner.
TroubleKept ==
  /\ Unreadable(file) \/ TellsOfTrouble(file)
  /\ \A w \in Writers : Up(w) => mem[w].failed

HistoryOK ==
  /\ troubled \in BOOLEAN /\ aside \in BOOLEAN /\ overlapped \in BOOLEAN
  /\ TellsOfTrouble(file) => troubled /\ ~aside
  /\ ~overlapped => OneRunner /\ SavesItsSession
  /\ troubled /\ ~aside /\ ~overlapped => TroubleKept

\* What the history variables observe of a step.
LEMMA Observed ==
  ASSUME HistoryOK, Observe
  PROVE  /\ troubled' \in BOOLEAN /\ aside' \in BOOLEAN /\ overlapped' \in BOOLEAN
         /\ TellsOfTrouble(file') => troubled' /\ ~aside'
         /\ ~overlapped' => ~overlapped /\ OneRunner'
         /\ ~TellsOfTrouble(file') /\ MovedAside => aside'
         /\ troubled' /\ ~MovedAside /\ ~TellsOfTrouble(file') => troubled
         /\ ~aside' /\ ~TellsOfTrouble(file') => ~aside
<1>1. /\ troubled' \in BOOLEAN /\ aside' \in BOOLEAN /\ overlapped' \in BOOLEAN
      /\ troubled' <=> (\/ troubled \/ TellsOfTrouble(file')
                        \/ MovedAside /\ \A w \in Writers : ~Up(w))
      /\ aside' <=> (aside \/ MovedAside) /\ ~TellsOfTrouble(file')
      /\ overlapped' <=> (overlapped \/ \E v, w \in Writers : v # w /\ Up(v)' /\ Up(w)')
  BY DEF Observe
<1>2. ~overlapped' => OneRunner'
  BY <1>1 DEF OneRunner
<1> QED  BY <1>1, <1>2

StepOf(w) ==
  \/ Start(w) \/ OpenTmp(w) \/ FillTmp(w) \/ ReplaceFile(w)
  \/ RefreshFails(w) \/ Stop(w) \/ Crash(w)
  \/ \E e \in 1 .. clock - 1 : \E grade \in Grades : BeginReplay(w, e, grade) \/ BeginLive(w, e, grade)
  \/ \E outcome \in Outcomes : ProcessNext(w, outcome)

\* While one runner is up, the others neither step nor come up.
LEMMA OthersAreDown ==
  ASSUME IndInv, OneRunner, OneRunner', NEW w \in Writers, StepOf(w)
  PROVE  \A v \in Writers \ {w} : ~Up(v) /\ ~Up(v)'
<1>t. proc \in [Writers -> Standings]
  BY DEF IndInv, WritersOK
<1>1. Up(w) \/ Up(w)'
  <2>1. CASE Start(w)
    <3>1. proc'[w] = Standing("idle")
      BY <2>1, <1>t DEF Start, Goto
    <3> QED  BY <3>1 DEF Up, At, Standing
  <2>2. CASE ~Start(w)
    BY <2>2 DEF StepOf, OpenTmp, FillTmp, ReplaceFile, RefreshFails, Command, Stop, Crash, BeginReplay,
               BeginLive, ProcessNext, Up, At
  <2> QED  BY <2>1, <2>2
<1>2. \A v \in Writers \ {w} : proc'[v] = proc[v]
  BY <1>t DEF StepOf, Start, OpenTmp, FillTmp, ReplaceFile, RefreshFails, Stop, Crash, Down, BeginReplay,
             BeginLive, ProcessNext, Goto, CatchUp
<1>3. \A v \in Writers \ {w} : Up(v)' = Up(v)
  BY <1>2 DEF Up, At
<1> QED  BY <1>1, <1>3 DEF OneRunner

\* The steps of a lone runner that leave the state file alone, and forget no failure.
LEMMA QuietStep ==
  ASSUME IndInv, SavesItsSession, NEW w \in Writers, StepOf(w), ~Start(w), ~ReplaceFile(w),
         \A v \in Writers \ {w} : ~Up(v) /\ ~Up(v)'
  PROVE  /\ file' = file /\ Up(w)
         /\ Up(w)' => (mem[w].failed => mem'[w].failed)
         /\ SavesItsSession'
<1>t. /\ proc \in [Writers -> Standings] /\ mem \in [Writers -> SessionShape]
      /\ handle \in [Writers -> Handles] /\ mem[w] \in SessionShape
  BY DEF IndInv, WritersOK, RestOK
<1>d. \A step \in Steps : Standing(step).step = step
  BY StandingIs
<1>o. ASSUME NEW v \in Writers \ {w} PROVE ~At(v, "filling")' /\ ~At(v, "swapping")'
  BY DEF Up, At
<1>1. ASSUME ~OpenTmp(w), ~FillTmp(w)
      PROVE  /\ file' = file /\ Up(w)
             /\ Up(w)' => (mem[w].failed => mem'[w].failed)
             /\ ~At(w, "filling")' /\ ~At(w, "swapping")'
  <2>1. CASE RefreshFails(w)
    <3>1. /\ At(w, "idle") /\ mem' = [mem EXCEPT ![w] = RefreshFailed(mem[w], clock)] /\ file' = file
          /\ proc' = [proc EXCEPT ![w] = Standing("opening")]
      BY <2>1 DEF RefreshFails, Command, Goto
    <3>2. mem'[w].failed /\ proc'[w].step = "opening"
      BY <1>t, <1>d, <3>1, FailuresStay DEF Steps
    <3> QED  BY <3>1, <3>2 DEF At, Up
  <2>2. CASE Stop(w) \/ Crash(w)
    <3>1. ~At(w, "down") /\ file' = file /\ proc' = [proc EXCEPT ![w] = Standing("down")]
      BY <2>2 DEF Stop, Crash, Down, Goto, At
    <3>2. proc'[w].step = "down"
      BY <1>t, <1>d, <3>1 DEF Steps
    <3> QED  BY <3>1, <3>2 DEF At, Up
  <2>3. ASSUME NEW e, NEW grade, BeginReplay(w, e, grade)
        PROVE  /\ file' = file /\ Up(w) /\ mem' = mem
               /\ ~At(w, "filling")' /\ ~At(w, "swapping")'
    <3>1. At(w, "idle") /\ file' = file /\ mem' = mem /\ proc'[w].step = "replaying"
      BY <1>t, <2>3 DEF BeginReplay, Command, CatchUp
    <3> QED  BY <3>1 DEF At, Up
  <2>4. ASSUME NEW e, NEW grade, BeginLive(w, e, grade)
        PROVE  /\ file' = file /\ Up(w) /\ mem'[w].failed = mem[w].failed
               /\ ~At(w, "filling")' /\ ~At(w, "swapping")'
    <3>1. At(w, "idle") /\ file' = file /\ mem' = [mem EXCEPT ![w] = Refreshed(mem[w], e, grade, clock)]
      BY <2>4 DEF BeginLive, Command
    <3>2. proc'[w].step \in {"replaying", "opening"}
      BY <1>t, <1>d, <2>4 DEF BeginLive, CatchUp, Goto, Steps
    <3>3. mem'[w].failed = mem[w].failed
      BY <1>t, <3>1, FailuresStay
    <3> QED  BY <3>1, <3>2, <3>3 DEF At, Up
  <2>5. ASSUME NEW outcome, ProcessNext(w, outcome)
        PROVE  /\ file' = file /\ Up(w) /\ (mem[w].failed => mem'[w].failed)
               /\ ~At(w, "filling")' /\ ~At(w, "swapping")'
    <3>1. /\ At(w, "replaying") /\ file' = file
          /\ mem' = [mem EXCEPT ![w] = ProcessBar(mem[w], mem[w].watermark + 1, outcome, proc[w].grade, clock)]
      BY <2>5 DEF ProcessNext
    <3>2. proc'[w].step \in {"replaying", "opening"}
      BY <1>t, <1>d, <2>5 DEF ProcessNext, Goto, Steps, At
    <3>3. mem[w].failed => mem'[w].failed
      BY <1>t, <3>1, FailuresStay
    <3> QED  BY <3>1, <3>2, <3>3 DEF At, Up
  <2> QED  BY <1>1, <2>1, <2>2, <2>3, <2>4, <2>5 DEF StepOf
<1>2. CASE OpenTmp(w)
  <2>1. /\ At(w, "opening") /\ file' = file /\ mem' = mem /\ tmp' = [Absent EXCEPT !.state = "torn"]
        /\ handle' = [handle EXCEPT ![w] = "tmp"] /\ proc' = [proc EXCEPT ![w] = Standing("filling")]
    BY <1>2 DEF OpenTmp, Goto
  <2>2. tmp'.state = "torn" /\ handle'[w] = "tmp" /\ proc'[w].step = "filling"
    BY <1>t, <1>d, <2>1 DEF Absent, Steps
  <2> QED  BY <1>o, <2>1, <2>2 DEF At, Up, SavesItsSession
<1>3. CASE FillTmp(w)
  <2>1. At(w, "filling") /\ handle[w] = "tmp" /\ tmp.state = "torn"
    BY <1>3 DEF FillTmp, SavesItsSession
  <2>2. /\ tmp' \in Written(tmp, mem[w]) /\ file' = file /\ mem' = mem
        /\ proc' = [proc EXCEPT ![w] = Standing("swapping")]
    BY <1>3, <2>1 DEF FillTmp, Goto
  <2>3. tmp'.state = "whole" /\ tmp'.session = Serialise(mem[w])
    BY <2>1, <2>2 DEF Written
  <2>4. tmp'.session.failed = mem'[w].failed /\ proc'[w].step = "swapping"
    BY <1>t, <1>d, <2>2, <2>3, FailuresStay DEF Steps
  <2> QED  BY <1>o, <2>1, <2>2, <2>3, <2>4 DEF At, Up, SavesItsSession
<1> QED  BY <1>1, <1>2, <1>3, <1>o DEF SavesItsSession

\* What the file tells, and what is known of it, is kept by every step.
LEMMA HistoryStaysOK ==
  ASSUME IndInv, HistoryOK, HNext
  PROVE  HistoryOK'
<1>h. Next /\ Observe
  BY DEF HNext
<1>o. /\ troubled' \in BOOLEAN /\ aside' \in BOOLEAN /\ overlapped' \in BOOLEAN
      /\ TellsOfTrouble(file') => troubled' /\ ~aside'
      /\ ~overlapped' => ~overlapped /\ OneRunner'
      /\ ~TellsOfTrouble(file') /\ MovedAside => aside'
      /\ troubled' /\ ~MovedAside /\ ~TellsOfTrouble(file') => troubled
      /\ ~aside' /\ ~TellsOfTrouble(file') => ~aside
  BY <1>h, Observed
<1>n. TellsOfTrouble(file)' = TellsOfTrouble(file')
  BY DEF TellsOfTrouble
<1> SUFFICES ASSUME ~overlapped'
             PROVE  SavesItsSession' /\ (troubled' /\ ~aside' => TroubleKept')
  BY <1>o, <1>n DEF HistoryOK
<1>k. /\ OneRunner /\ OneRunner' /\ SavesItsSession
      /\ TellsOfTrouble(file) => troubled /\ ~aside
      /\ troubled /\ ~aside => TroubleKept
  BY <1>o DEF HistoryOK
<1>t. /\ proc \in [Writers -> Standings] /\ mem \in [Writers -> SessionShape] /\ file \in Files
  BY DEF IndInv, WritersOK, FilesOK, IsKeptFile
<1>a. ~Unreadable(Absent) /\ ~TellsOfTrouble(Absent) /\ Absent.state = "absent"
  BY DEF Unreadable, TellsOfTrouble, Absent
\* with the same file, the hypothesis of the conclusion is the same
<1>f. file' = file => (troubled' /\ ~aside' => TroubleKept)
  <2>1. file' = file => ~MovedAside
    BY DEF MovedAside, Unreadable
  <2> QED  BY <1>o, <1>k, <2>1
<1>1. CASE Tick
  <2>1. mem' = mem /\ proc' = proc /\ handle' = handle /\ tmp' = tmp /\ file' = file
    BY <1>1 DEF Tick
  <2> QED  BY <1>k, <1>f, <2>1 DEF SavesItsSession, TroubleKept, Up, At, Unreadable, TellsOfTrouble
<1>2. CASE Look
  <2>1. /\ mem' = mem /\ proc' = proc /\ handle' = handle /\ tmp' = tmp
        /\ Unreadable(file) /\ file' = Absent
    BY <1>2 DEF Look, Unreadable, Quarantine
  <2>2. MovedAside /\ ~TellsOfTrouble(file')
    BY <1>a, <2>1 DEF MovedAside
  <2> QED  BY <1>o, <1>k, <2>1, <2>2 DEF SavesItsSession, At
<1>3. CASE Damage
  <2>1. /\ mem' = mem /\ proc' = proc /\ handle' = handle /\ tmp' = tmp
        /\ file' = [file EXCEPT !.state = "damaged"] /\ file.state = "whole"
    BY <1>3 DEF Damage
  <2>2. file'.state = "damaged"
    BY <1>t, <2>1 DEF Files
  <2>3. Unreadable(file') /\ ~TellsOfTrouble(file') /\ ~MovedAside
    BY <2>2 DEF Unreadable, TellsOfTrouble, MovedAside
  <2>4. SavesItsSession'
    BY <1>k, <2>1 DEF SavesItsSession, At
  <2>5. troubled' /\ ~aside' => TroubleKept
    BY <1>o, <1>k, <2>3
  <2>6. TroubleKept => TroubleKept'
    BY <2>1, <2>3 DEF TroubleKept, Up, At, Unreadable
  <2> QED  BY <2>4, <2>5, <2>6
<1>4. ASSUME NEW w \in Writers, StepOf(w)
      PROVE  SavesItsSession' /\ (troubled' /\ ~aside' => TroubleKept')
  <2>d. \A v \in Writers \ {w} : ~Up(v) /\ ~Up(v)'
    BY <1>4, <1>k, OthersAreDown
  <2>1. CASE Start(w)
    <3>1. /\ proc' = [proc EXCEPT ![w] = Standing("idle")] /\ file' = Quarantine(file)
          /\ mem' = [mem EXCEPT ![w] = Load(file)]
      BY <2>1 DEF Start, Goto
    <3>2. proc'[w].step = "idle" /\ mem'[w] = Load(file)
      BY <1>t, <3>1, StandingIs DEF Steps
    <3>3. SavesItsSession'
      BY <2>d, <3>2 DEF SavesItsSession, Up, At
    <3>4. CASE Unreadable(file)
      <4>1. file' = Absent
        BY <3>1, <3>4 DEF Quarantine, Unreadable
      <4>2. MovedAside /\ ~TellsOfTrouble(file')
        BY <1>a, <3>4, <4>1 DEF MovedAside
      <4> QED  BY <1>o, <3>3, <4>2
    <3>5. CASE ~Unreadable(file)
      <4>1. file' = file
        BY <3>1, <3>5 DEF Quarantine, Unreadable
      <4>2. troubled' /\ ~aside' => TellsOfTrouble(file)
        BY <1>f, <3>5, <4>1 DEF TroubleKept
      <4>3. TellsOfTrouble(file) => mem'[w].failed
        <5>1. file.session \in SessionShape
          BY <1>t DEF Files
        <5> QED  BY <3>2, <5>1, FailuresStay DEF TellsOfTrouble, Load
      <4>4. troubled' /\ ~aside' => TroubleKept'
        BY <1>n, <2>d, <4>1, <4>2, <4>3 DEF TroubleKept
      <4> QED  BY <3>3, <4>4
    <3> QED  BY <3>4, <3>5
  <2>2. CASE ReplaceFile(w)
    <3>1. At(w, "swapping") /\ tmp.state = "whole" /\ tmp.session.failed = mem[w].failed
      BY <1>k, <2>2 DEF ReplaceFile, SavesItsSession
    <3>2. proc' = [proc EXCEPT ![w] = Standing("idle")] /\ file' = tmp /\ mem' = mem
      BY <2>2, <3>1 DEF ReplaceFile, Goto
    <3>3. proc'[w].step = "idle"
      BY <1>t, <3>2, StandingIs DEF Steps
    <3>4. SavesItsSession'
      BY <2>d, <3>3 DEF SavesItsSession, Up, At
    <3>5. TellsOfTrouble(file') = mem[w].failed /\ ~MovedAside
      <4>1. mem[w].failed \in BOOLEAN
        BY <1>t DEF SessionShape
      <4> QED  BY <3>1, <3>2, <4>1 DEF TellsOfTrouble, MovedAside
    <3>6. troubled' /\ ~aside' => mem[w].failed
      <4>1. TroubleKept => mem[w].failed
        BY <3>1 DEF TroubleKept, Up, At
      <4> QED  BY <1>o, <1>k, <3>5, <4>1
    <3>7. troubled' /\ ~aside' => TroubleKept'
      BY <1>n, <2>d, <3>2, <3>5, <3>6 DEF TroubleKept
    <3> QED  BY <3>4, <3>7
  <2>3. CASE ~Start(w) /\ ~ReplaceFile(w)
    <3>1. /\ file' = file /\ Up(w) /\ (Up(w)' => (mem[w].failed => mem'[w].failed))
          /\ SavesItsSession'
      BY <1>4, <1>k, <2>d, <2>3, QuietStep
    <3>2. TroubleKept => TroubleKept'
      BY <2>d, <3>1 DEF TroubleKept, Unreadable, TellsOfTrouble
    <3> QED  BY <1>f, <3>1, <3>2
  <2> QED  BY <2>1, <2>2, <2>3
<1>5. Tick \/ Look \/ Damage \/ \E w \in Writers : StepOf(w)
  BY <1>h DEF Next, StepOf
<1> QED  BY <1>1, <1>2, <1>3, <1>4, <1>5

\* No reader is told that a session is healthy which saw a failure, and nobody who
\* loads the file after a failed session was saved in it, or after it could not be
\* read, through later good bars, refreshes, stops, crashes and restarts -- as long
\* as one runner at a time extends the session and nobody has moved an unreadable
\* file aside without saving one that says so (_record_error, load_state).
THEOREM TroubleIsAlwaysShown == HSpec => []TroubleIsShown
<1>1. HInit => IndInv /\ HistoryOK
  <2> SUFFICES ASSUME HInit PROVE IndInv /\ HistoryOK
    OBVIOUS
  <2>1. \A w \in Writers : ~Up(w) /\ ~At(w, "filling") /\ ~At(w, "swapping")
    BY DEF HInit, Init, Up, At, Standing
  <2>2. ~TellsOfTrouble(file)
    BY DEF HInit, Init, Absent, TellsOfTrouble
  <2>3. HistoryOK
    BY <2>1, <2>2 DEF HInit, HistoryOK, OneRunner, SavesItsSession
  <2> QED  BY <2>3, InitIndInv DEF HInit
<1>2. IndInv /\ HistoryOK /\ [HNext]_hvars => (IndInv /\ HistoryOK)'
  <2> SUFFICES ASSUME IndInv, HistoryOK, [HNext]_hvars PROVE IndInv' /\ HistoryOK'
    OBVIOUS
  <2>1. [Next]_vars
    BY DEF HNext, hvars
  <2>2. IndInv'
    BY <2>1, NextSessionsOK, NextSavesAreSafe DEF IndInv
  <2>3. CASE UNCHANGED hvars
    BY <2>2, <2>3 DEF hvars, vars, HistoryOK, OneRunner, SavesItsSession, TroubleKept, TellsOfTrouble,
                      Unreadable, Up, At
  <2> QED  BY <2>2, <2>3, HistoryStaysOK
<1>3. IndInv /\ HistoryOK => TroubleIsShown
  <2> SUFFICES ASSUME IndInv, HistoryOK PROVE TroubleIsShown
    OBVIOUS
  <2>1. ASSUME NEW s \in Sessions, s.failed PROVE SystemHealth(s) = "DEGRADED"
    <3>1. s.errors > 0
      BY <2>1, SessionsAreInMemory DEF InMemory, Kept, TroubleLogged
    <3>2. "DEGRADED" \in Findings(s)
      BY <3>1 DEF Findings
    <3> QED  BY <3>2 DEF SystemHealth
  <2>2. ASSUME troubled, ~aside, ~overlapped PROVE Shown.failed
    <3>1. Unreadable(file) \/ TellsOfTrouble(file)
      BY <2>2 DEF HistoryOK, TroubleKept
    <3>2. file.session \in SessionShape /\ BlankState \in SessionShape
      BY BlankIsConsistent DEF IndInv, FilesOK, IsKeptFile, Files
    <3>3. Unreadable(file) => Load(file).failed
      <4>1. RecordError(BlankState).failed
        BY DEF RecordError, BlankState
      <4> QED  BY <4>1 DEF Unreadable, Load
    <3>4. TellsOfTrouble(file) => Load(file).failed
      BY <3>2, FailuresStay DEF TellsOfTrouble, Load
    <3> QED  BY <3>1, <3>3, <3>4 DEF Shown
  <2>3. Shown \in Sessions
    BY DEF Sessions
  <2> QED  BY <2>1, <2>2, <2>3 DEF TroubleIsShown
<1> QED  BY <1>1, <1>2, <1>3, PTL DEF HSpec
=============================================================================
