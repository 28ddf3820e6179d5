------------------------- MODULE PaperTradingProofs -------------------------
(* Invariants of the paper-trading session for every feed, every execution   *)
(* and risk configuration, and any number of bars, processes and faults; and *)
(* with a history of what was computed, that restarts are invisible: the     *)
(* books are those of one run that never stopped.                            *)
EXTENDS PaperTradingHistory, BarLoopProofs

\* Each phase has its own kind of job.
LEMMA Phases ==
  /\ Down.phase = "down"
  /\ \A j \in IdleJobs : j.phase = "idle" /\ j.enabled \in Switch
  /\ \A j \in CatchUpJobs : j.phase = "catchup" /\ j.enabled \in Switch /\ j.hi \in Nat
  /\ \A j \in SavingJobs : /\ j.phase = "saving"
                           /\ j.back \in IdleJobs \/ j.back \in CatchUpJobs
  BY DEF Down, IdleJobs, CatchUpJobs, SavingJobs

\* A process that writes the file remembers what it goes back to.
LEMMA SavingIsSaving ==
  ASSUME NEW back, back \in IdleJobs \/ back \in CatchUpJobs, NEW torn \in BOOLEAN
  PROVE  /\ Saving(back, torn) \in SavingJobs
         /\ Saving(back, torn).phase = "saving" /\ Saving(back, torn).back = back
<1>1. back \in IdleJobs \cup CatchUpJobs /\ back.enabled \in Switch
  BY Phases
<1> QED  BY <1>1 DEF Saving, SavingJobs

\* A process that catches up is in the middle of a frame of published bars.
LEMMA CatchingUp ==
  ASSUME TypeOK, proc.phase = "catchup"
  PROVE  proc \in CatchUpJobs /\ proc.hi <= Len(feed)
<1>1. proc \in CatchUpJobs
  BY DEF TypeOK, ProcOK, Down, IdleJobs, SavingJobs
<1>2. proc.hi <= Len(feed)
  BY DEF TypeOK, ProcOK, FrameOK
<1> QED  BY <1>1, <1>2

\* What process_bar is applied to: a published bar past the watermark.
LEMMA NextBarIsNext ==
  ASSUME TypeOK, BarWaiting
  PROVE  /\ NextBar \in Nat \ {0} /\ book.watermark < NextBar /\ NextBar <= Len(feed)
         /\ feed[NextBar] \in Bars
         /\ proc \in CatchUpJobs
<1>1. proc \in CatchUpJobs /\ proc.hi <= Len(feed)
  BY CatchingUp DEF BarWaiting
<1>2. NextBar \in Nat \ {0} /\ book.watermark < NextBar
  BY <1>1 DEF TypeOK, BookOK, NextBar, Max2, CatchUpJobs, IsBook, IsBookAt
<1>3. NextBar <= Len(feed) /\ Len(feed) \in Nat
  BY <1>1, <1>2 DEF TypeOK, FeedOK, BarWaiting, CatchUpJobs
<1>4. feed[NextBar] \in Bars
  BY <1>2, <1>3 DEF TypeOK, FeedOK
<1> QED  BY <1>1, <1>2, <1>3, <1>4

\* A blank book fits any feed.
LEMMA BlankBookOK == FeedOK => BookOK(BlankBook)
<1>1. BlankBook.watermark = 0
  BY DEF BlankBook
<1> QED  BY <1>1, BlankBookIsBook DEF FeedOK, BookOK

\* The session starts in its shape.
LEMMA InitTypeOK == Init => TypeOK
<1> SUFFICES ASSUME Init PROVE TypeOK
  OBVIOUS
<1>1. FeedOK
  BY SessionAssumption DEF Init, FeedOK
<1>2. BookOK(book)
  BY <1>1, BlankBookOK DEF Init
<1>3. ProcOK
  BY DEF Init, ProcOK, Down, FrameOK
<1>4. FileOK
  BY DEF Init, FileOK, AbsentFile
<1> QED  BY <1>1, <1>2, <1>3, <1>4, SessionAssumption DEF Init, TypeOK

\* Each variable keeps its shape: one step per action, and under it one fact
\* for each part of TypeOK that the action can disturb.
LEMMA NextTypeOK ==
  ASSUME TypeOK, [Next]_vars
  PROVE  TypeOK'
<1> USE SessionAssumption
<1>f. FeedOK /\ feed' = feed => FeedOK'
  BY DEF FeedOK
<1>b. BookOK(book) /\ book' = book /\ feed' = feed => BookOK(book)'
  BY DEF BookOK
<1>p. ProcOK /\ proc' = proc /\ feed' = feed => ProcOK'
  BY DEF ProcOK, FrameOK
<1>s. FileOK /\ file' = file /\ tmp' = tmp /\ feed' = feed => FileOK'
  BY DEF FileOK, BookOK
<1>1. CASE Publish
  <2>1. FeedOK' /\ Len(feed') = Len(feed) + 1 /\ Len(feed) \in Nat
    BY <1>1 DEF TypeOK, FeedOK, Publish
  <2>2. \A n \in Int : n <= Len(feed) => n <= Len(feed')
    BY <2>1
  <2>3. \A b : IsBook(b) => b.watermark \in Int
    BY DEF IsBook, IsBookAt
  <2>4. BookOK(book)'
    BY <1>1, <2>2, <2>3 DEF TypeOK, BookOK, Publish
  <2>5. FileOK'
    BY <1>1, <2>2, <2>3 DEF TypeOK, FileOK, BookOK, Publish
  <2>6. \A j \in CatchUpJobs : j.hi \in Int
    BY DEF CatchUpJobs
  <2>7. proc.phase = "catchup" => proc.hi \in Int
    BY <2>6, CatchingUp
  <2>8. proc.phase = "saving" /\ proc.back.phase = "catchup" => proc.back.hi \in Int
    BY <2>6 DEF TypeOK, ProcOK, Down, IdleJobs, CatchUpJobs, SavingJobs
  <2>9. ProcOK'
    BY <1>1, <2>2, <2>7, <2>8 DEF TypeOK, ProcOK, FrameOK, Publish
  <2> QED  BY <1>1, <2>1, <2>4, <2>5, <2>9 DEF TypeOK, Publish
<1>2. CASE Start
  <2>1. feed' = feed /\ tmp' = tmp /\ faults' = faults /\ FeedOK'
    BY <1>2, <1>f DEF Start, TypeOK
  <2>2. proc' \in IdleJobs
    BY <1>2 DEF Start, Idle, IdleJobs
  <2>3. ProcOK'
    BY <2>2 DEF ProcOK, FrameOK, IdleJobs
  <2>4. CASE file.status = "complete"
    <3>1. BookOK(file.payload.book) /\ book' = Restore(file.payload) /\ file' = file
      BY <1>2, <2>4 DEF Start, TypeOK, FileOK
    <3>2. BookOK(book)'
      BY <2>1, <3>1, RestoreKeepsBook DEF BookOK
    <3> QED  BY <1>s, <2>1, <2>3, <3>1, <3>2 DEF TypeOK
  <2>5. CASE file.status # "complete"
    <3>1. book' = BlankBook /\ file' = AbsentFile
      BY <1>2, <2>5 DEF Start
    <3>2. BookOK(book)' /\ FileOK'
      BY <2>1, <3>1, BlankBookOK DEF TypeOK, BookOK, FileOK, AbsentFile
    <3> QED  BY <2>1, <2>3, <3>2 DEF TypeOK
  <2> QED  BY <2>4, <2>5
<1>3. CASE BeginReplay \/ BeginLive
  <2>1. proc \in IdleJobs /\ Len(feed) \in Nat \ {0}
    <3>1. proc.phase = "idle" /\ feed # <<>>
      BY <1>3 DEF BeginReplay, BeginLive
    <3>a. proc.phase # "down" /\ proc.phase # "catchup" /\ proc.phase # "saving"
      BY <3>1
    <3>2. proc = Down \/ proc \in IdleJobs \/ proc \in CatchUpJobs \/ proc \in SavingJobs
      BY DEF TypeOK, ProcOK
    <3>3. proc # Down /\ proc \notin CatchUpJobs /\ proc \notin SavingJobs
      <4>1. proc # Down
        BY <3>a, Phases
      <4>2. proc \notin CatchUpJobs
        BY <3>a, Phases
      <4>3. proc \notin SavingJobs
        BY <3>a, Phases
      <4> QED  BY <4>1, <4>2, <4>3
    <3> QED  BY <3>1, <3>2, <3>3 DEF TypeOK, FeedOK
  <2>2. proc' \in CatchUpJobs
    <3>1. CASE BeginReplay
      BY <2>1, <3>1 DEF BeginReplay, CatchUp, CatchUpJobs, IdleJobs
    <3>2. CASE BeginLive
      BY <2>1, <3>2 DEF BeginLive, CatchUp, CatchUpJobs, IdleJobs, Max2
    <3> QED  BY <1>3, <3>1, <3>2
  <2>3. proc'.hi = Len(feed)
    BY <1>3 DEF BeginReplay, BeginLive, CatchUp
  <2>4. /\ feed' = feed /\ book' = book /\ file' = file /\ tmp' = tmp /\ faults' = faults
    BY <1>3 DEF BeginReplay, BeginLive
  <2>5. ProcOK'
    BY <2>1, <2>2, <2>3, <2>4 DEF ProcOK, FrameOK, CatchUpJobs
  <2> QED  BY <2>4, <2>5, <1>f, <1>b, <1>s DEF TypeOK
<1>4. CASE RefreshFails
  <2>1. proc \in IdleJobs
    BY <1>4 DEF RefreshFails, TypeOK, ProcOK, Down, CatchUpJobs, SavingJobs
  <2>2. ProcOK'
    BY <1>4, <2>1 DEF RefreshFails, ProcOK, FrameOK, Saving, SavingJobs, IdleJobs
  <2> QED  BY <1>4, <2>2, <1>f, <1>b, <1>s DEF RefreshFails, TypeOK
<1>5. CASE ProcessNext
  <2>1. /\ NextBar \in Nat \ {0} /\ book.watermark < NextBar /\ NextBar <= Len(feed)
        /\ feed[NextBar] \in Bars /\ proc \in CatchUpJobs
    BY <1>5, NextBarIsNext DEF ProcessNext
  <2>2. proc.hi <= Len(feed)
    BY <1>5, CatchingUp DEF ProcessNext, BarWaiting
  <2>3. /\ feed' = feed /\ file' = file /\ tmp' = tmp /\ faults' = faults
    BY <1>5 DEF ProcessNext
  <2>4. BookOK(book)'
    <3>1. IsBook(book)
      BY DEF TypeOK, BookOK
    <3>2. PICK quality : book' = ProcessBar(book, feed[NextBar], NextBar, proc.enabled,
                                            quality, NextBar - proc.lo >= Warmup)
      BY <1>5 DEF ProcessNext
    <3>3. IsBook(book') /\ book'.watermark = NextBar
      BY <2>1, <3>1, <3>2, ProcessBarKeepsBook
    <3> QED  BY <2>1, <2>3, <3>3 DEF BookOK
  <2>5. ProcOK'
    <3> DEFINE done == [proc EXCEPT !.unsaved = @ + 1, !.outputs = TRUE]
               saved == [done EXCEPT !.unsaved = 0]
    <3>1. done \in CatchUpJobs /\ saved \in CatchUpJobs
      <4>1. proc.unsaved + 1 \in Nat
        BY <2>1 DEF CatchUpJobs
      <4>2. done \in CatchUpJobs
        BY <2>1, <4>1 DEF CatchUpJobs
      <4> QED  BY <4>2 DEF CatchUpJobs
    <3>2. done.hi = proc.hi /\ saved.hi = proc.hi
      BY <2>1 DEF CatchUpJobs
    <3>3. proc' = done \/ proc' = Saving(saved, FALSE)
      BY <1>5 DEF ProcessNext
    <3> HIDE DEF done, saved
    <3>4. CASE proc' = done
      BY <2>2, <2>3, <3>1, <3>2, <3>4 DEF ProcOK, FrameOK, CatchUpJobs
    <3>5. CASE proc' = Saving(saved, FALSE)
      BY <2>2, <2>3, <3>1, <3>2, <3>5, SavingIsSaving DEF ProcOK, FrameOK
    <3> QED  BY <3>3, <3>4, <3>5
  <2> QED  BY <2>3, <2>4, <2>5, <1>f, <1>s DEF TypeOK
<1>6. CASE EndCatchUp
  <2>1. proc \in CatchUpJobs
    BY <1>6, CatchingUp DEF EndCatchUp
  <2>2. Idle(proc.enabled) \in IdleJobs
    BY <2>1 DEF Idle, IdleJobs, CatchUpJobs
  <2>3. proc' = Saving(Idle(proc.enabled), FALSE) \/ proc' = Idle(proc.enabled)
    BY <1>6 DEF EndCatchUp
  <2>4. ProcOK'
    <3>1. CASE proc' = Saving(Idle(proc.enabled), FALSE)
      BY <2>2, <3>1, SavingIsSaving, Phases DEF ProcOK, FrameOK
    <3>2. CASE proc' = Idle(proc.enabled)
      BY <2>2, <3>2, Phases DEF ProcOK, FrameOK
    <3> QED  BY <2>3, <3>1, <3>2
  <2> QED  BY <1>6, <2>4, <1>f, <1>b, <1>s DEF EndCatchUp, TypeOK
<1>7. CASE OpenTmp \/ ReplaceFile
  <2>1. proc \in SavingJobs /\ FrameOK(proc.back)
    BY <1>7, Phases DEF OpenTmp, ReplaceFile, TypeOK, ProcOK
  <2>2. /\ feed' = feed /\ book' = book /\ faults' = faults
        /\ proc' = Saving(proc.back, TRUE) \/ proc' = proc.back
    BY <1>7 DEF OpenTmp, ReplaceFile
  <2>3. ProcOK'
    <3>1. proc.back \in IdleJobs \/ proc.back \in CatchUpJobs
      BY <2>1, Phases
    <3>2. CASE proc' = Saving(proc.back, TRUE)
      BY <2>1, <2>2, <3>1, <3>2, SavingIsSaving DEF ProcOK, FrameOK
    <3>3. CASE proc' = proc.back
      BY <2>1, <2>2, <3>1, <3>3, Phases DEF ProcOK, FrameOK
    <3> QED  BY <2>2, <3>2, <3>3
  <2>4. CASE OpenTmp
    <3>1. FileOK'
      BY <2>4 DEF OpenTmp, TypeOK, FileOK, BookOK
    <3> QED  BY <2>2, <2>3, <3>1, <1>f, <1>b DEF TypeOK
  <2>5. CASE ReplaceFile
    <3>1. file'.status = "complete" /\ file'.payload = Serialise(book, lastQuality)
      BY <2>5 DEF ReplaceFile, CompleteFile
    <3>2. IsBook(file'.payload.book) /\ file'.payload.book.watermark = book.watermark
      BY <3>1, SerialiseKeepsBook DEF TypeOK, BookOK
    <3>3. FileOK'
      BY <2>2, <2>5, <3>1, <3>2 DEF ReplaceFile, TypeOK, FileOK, BookOK
    <3> QED  BY <2>2, <2>3, <3>3, <1>f, <1>b DEF TypeOK
  <2> QED  BY <1>7, <2>4, <2>5
<1>8. CASE Stop \/ Crash
  <2>1. /\ feed' = feed /\ file' = file /\ tmp' = tmp
        /\ book' = BlankBook /\ proc' = Down /\ faults' \in 0 .. MaxFaults
    BY <1>8 DEF Stop, Crash, Lose, Fault, TypeOK
  <2>2. BookOK(book)' /\ ProcOK'
    BY <2>1, BlankBookOK DEF TypeOK, BookOK, ProcOK, FrameOK, Down
  <2> QED  BY <2>1, <2>2, <1>f, <1>s DEF TypeOK
<1>9. CASE Damage \/ Reset
  <2>1. /\ feed' = feed /\ book' = book /\ proc' = proc /\ tmp' = tmp
        /\ file' = DamagedFile \/ file' = AbsentFile
        /\ faults' \in 0 .. MaxFaults
    BY <1>9 DEF Damage, Reset, Fault, TypeOK
  <2>2. FileOK'
    BY <2>1 DEF TypeOK, FileOK, DamagedFile, AbsentFile
  <2> QED  BY <2>1, <2>2, <1>f, <1>b, <1>p DEF TypeOK
<1>10. CASE UNCHANGED vars
  BY <1>10, <1>f, <1>b, <1>p, <1>s DEF vars, TypeOK
<1> QED
  BY <1>1, <1>2, <1>3, <1>4, <1>5, <1>6, <1>7, <1>8, <1>9, <1>10 DEF Next

\* The session stays in its shape: in particular the books in memory and in the
\* file always speak of published bars and of the session's symbol only.
THEOREM TypeCorrect == Spec => []TypeOK
<1>1. Init => TypeOK
  BY InitTypeOK
<1>2. TypeOK /\ [Next]_vars => TypeOK'
  BY NextTypeOK
<1> QED  BY <1>1, <1>2, PTL DEF Spec

---------------------------------------------------------------------------
(* Stops and position limits *)

\* The two safety invariants, of one book.  WithinLimits says besides that the
\* two sets it counts are finite.
SafeBook(b) == WithinLimits(b) /\ \A p \in b.port.positions : NotThroughStop(p)

\* Neither invariant is inductive by itself: a restart takes its positions and its
\* queue from the file.
Safe == SafeBook(book) /\ (file.status = "complete" => SafeBook(file.payload.book))

\* A blank book holds nothing.
LEMMA BlankBookSafe == SafeBook(BlankBook)
  BY BlankBookWithinLimits DEF SafeBook, BlankBook, EmptyPortfolio

\* One bar keeps a book safe.
LEMMA ProcessBarSafe ==
  ASSUME NEW b, NEW bar \in Bars, NEW t \in Nat, IsBook(b), b.watermark < t,
         NEW enabled, NEW quality, NEW warm, SafeBook(b)
  PROVE  SafeBook(ProcessBar(b, bar, t, enabled, quality, warm))
<1>1. WithinLimits(ProcessBar(b, bar, t, enabled, quality, warm))
  BY ProcessBarWithinLimits DEF SafeBook
<1>2. \A p \in ProcessBar(b, bar, t, enabled, quality, warm).port.positions : NotThroughStop(p)
  BY ProcessBarHonoursStops DEF SafeBook
<1> QED  BY <1>1, <1>2 DEF SafeBook

\* Safety depends on the positions and the queue alone, and these go to the file
\* and come back unchanged.
LEMMA SameHoldingsSafe ==
  ASSUME NEW b, NEW c, SafeBook(b),
         c.pending = b.pending, c.port.positions = b.port.positions
  PROVE  SafeBook(c)
  BY DEF SafeBook, WithinLimits, Exposures

\* A step keeps both books safe: process_bar in memory, and what goes to the file
\* and comes back holds the same positions and the same queue.
LEMMA NextSafe ==
  ASSUME TypeOK, Safe, [Next]_vars
  PROVE  Safe'
<1>1. CASE Start
  <2>1. CASE file.status = "complete"
    <3>1. /\ IsBook(file.payload.book) /\ SafeBook(file.payload.book)
          /\ book' = Restore(file.payload) /\ file' = file
      BY <1>1, <2>1 DEF Start, TypeOK, FileOK, BookOK, Safe
    <3>2. SafeBook(book')
      BY <3>1, RestoreKeepsBook, SameHoldingsSafe
    <3> QED  BY <3>1, <3>2 DEF Safe
  <2>2. CASE file.status # "complete"
    <3>1. book' = BlankBook /\ file'.status = "absent"
      BY <1>1, <2>2 DEF Start, AbsentFile
    <3> QED  BY <3>1, BlankBookSafe DEF Safe
  <2> QED  BY <2>1, <2>2
<1>2. CASE ProcessNext
  <2>1. PICK quality : book' = ProcessBar(book, feed[NextBar], NextBar, proc.enabled,
                                          quality, NextBar - proc.lo >= Warmup)
    BY <1>2 DEF ProcessNext
  <2>2. NextBar \in Nat /\ book.watermark < NextBar /\ feed[NextBar] \in Bars
    BY <1>2, NextBarIsNext DEF ProcessNext
  <2>3. IsBook(book) /\ SafeBook(book)
    BY DEF TypeOK, BookOK, Safe
  <2>4. SafeBook(book')
    BY <2>1, <2>2, <2>3, ProcessBarSafe
  <2>5. file' = file
    BY <1>2 DEF ProcessNext
  <2> QED  BY <2>4, <2>5 DEF Safe
<1>3. CASE ReplaceFile
  <2>1. /\ book' = book /\ file'.status = "complete"
        /\ file'.payload = Serialise(book, lastQuality)
    BY <1>3 DEF ReplaceFile, CompleteFile
  <2>2. IsBook(book) /\ SafeBook(book)
    BY DEF TypeOK, BookOK, Safe
  <2>3. SafeBook(file'.payload.book)
    BY <2>1, <2>2, SerialiseKeepsBook, SameHoldingsSafe
  <2> QED  BY <2>1, <2>2, <2>3 DEF Safe
<1>4. CASE Stop \/ Crash
  <2>1. book' = BlankBook /\ file' = file
    BY <1>4 DEF Stop, Crash, Lose
  <2> QED  BY <2>1, BlankBookSafe DEF Safe
<1>5. CASE Damage \/ Reset
  <2>1. book' = book /\ file'.status # "complete"
    BY <1>5 DEF Damage, Reset, DamagedFile, AbsentFile
  <2> QED  BY <2>1 DEF Safe
<1>6. CASE \/ Publish \/ BeginReplay \/ BeginLive \/ RefreshFails \/ EndCatchUp \/ OpenTmp
          \/ UNCHANGED vars
  <2>1. book' = book /\ file' = file
    BY <1>6 DEF Publish, BeginReplay, BeginLive, RefreshFails, EndCatchUp, OpenTmp, vars
  <2> QED  BY <2>1 DEF Safe
<1> QED
  BY <1>1, <1>2, <1>3, <1>4, <1>5, <1>6 DEF Next

\* Both hold forever, in memory and in the file.
THEOREM AlwaysSafe == Spec => []Safe
<1>1. Init => Safe
  BY BlankBookSafe DEF Init, Safe, AbsentFile
<1>2. TypeOK /\ Safe /\ [Next]_vars => Safe'
  BY NextSafe
<1> QED  BY <1>1, <1>2, TypeCorrect, PTL DEF Spec

\* No position ever stays open once the price has traded through its stop, under
\* every fill, cost and risk configuration, and across every restart
\* (_stop_still_valid, _process_exits, _restore_positions of the paper engine).
THEOREM StopsAlwaysHonoured == Spec => []StopsHonoured
<1>1. Safe => StopsHonoured
  BY DEF Safe, SafeBook, StopsHonoured
<1> QED  BY <1>1, AlwaysSafe, PTL

\* Open positions and the queued order together never exceed the position limits
\* of the risk configuration (the two counting gates of RiskEngine.evaluate).
THEOREM PositionLimitHolds == Spec => []PositionLimit
<1>1. Safe => PositionLimit
  BY DEF Safe, SafeBook, WithinLimits, PositionLimit
<1> QED  BY <1>1, AlwaysSafe, PTL

---------------------------------------------------------------------------
(* Queueing *)

\* Only process_bar adds to the queue, and only with permission: the risk engine is
\* handed the grade of the frame or, in its absence, the last one recorded.
LEMMA StepQueuesWhenPermitted ==
  ASSUME TypeOK, [Next]_vars, proc.phase = "catchup", book'.pending \ book.pending # {}
  PROVE  /\ proc.enabled /\ QualityAccepted(SizingGrade)
         /\ Risk.requireKnown => SizingGrade \in KnownGrades
<1>1. ProcessNext
  <2>1. ~(Start \/ BeginReplay \/ BeginLive \/ RefreshFails \/ OpenTmp \/ ReplaceFile \/ Stop)
    BY DEF Start, Down, BeginReplay, BeginLive, RefreshFails, OpenTmp, ReplaceFile, Stop
  <2>2. ~(Publish \/ EndCatchUp \/ Damage \/ Reset \/ UNCHANGED vars)
    BY DEF Publish, EndCatchUp, Damage, Reset, vars
  <2>3. ~Crash
    BY DEF Crash, Lose, BlankBook
  <2> QED  BY <2>1, <2>2, <2>3 DEF Next
<1>2. book' = ProcessBar(book, feed[NextBar], NextBar, proc.enabled, SizingGrade,
                         NextBar - proc.lo >= Warmup)
  BY <1>1 DEF ProcessNext, SizingGrade
<1>3. /\ NextBar \in Nat /\ book.watermark < NextBar /\ feed[NextBar] \in Bars
      /\ IsBook(book)
  BY <1>1, NextBarIsNext DEF ProcessNext, TypeOK, BookOK
<1>4. QueuePermitted(book', proc.enabled, SizingGrade)
  BY <1>2, <1>3, ProcessBarKeepsBook
<1>5. proc.enabled /\ QualityAccepted(SizingGrade)
  BY <1>4 DEF QueuePermitted
<1> QED  BY <1>5 DEF QualityAccepted

\* For every configuration of the risk engine and whichever callers leave the grade out:
\* an order is queued only with the kill switch on and on a grade the risk engine
\* accepts, whatever was in the queue or in the file before (RiskEngine.evaluate's
\* first gates); where it insists on a known grade, a session that was never given
\* one queues nothing.
THEOREM QueueingPermitted == Spec => QueuesOnlyWhenPermitted
<1>1. TypeOK /\ [Next]_vars =>
        [proc.phase = "catchup" /\ book'.pending \ book.pending # {} =>
           /\ proc.enabled /\ QualityAccepted(SizingGrade)
           /\ Risk.requireKnown => SizingGrade \in KnownGrades]_vars
  BY StepQueuesWhenPermitted
<1> QED  BY <1>1, TypeCorrect, PTL DEF Spec, QueuesOnlyWhenPermitted

---------------------------------------------------------------------------
(* The account *)

\* The book in memory and the one in the file agree with their trades.
BothReconciled ==
  Reconciled(book) /\ (file.status = "complete" => Reconciled(file.payload.book))

\* As long as the closed trades fit into the file, a write keeps all of them, and
\* so every step keeps both books reconciled.
LEMMA NextReconciled ==
  ASSUME TypeOK, TradesFit(book), BothReconciled, [Next]_vars
  PROVE  BothReconciled'
<1>1. CASE Start
  <2>1. CASE file.status = "complete"
    <3>1. /\ IsBook(file.payload.book) /\ Reconciled(file.payload.book)
          /\ book' = Restore(file.payload) /\ file' = file
      BY <1>1, <2>1 DEF Start, TypeOK, FileOK, BookOK, BothReconciled
    <3>2. Reconciled(book')
      BY <3>1, RestoreReconciled
    <3> QED  BY <3>1, <3>2 DEF BothReconciled
  <2>2. CASE file.status # "complete"
    <3>1. book' = BlankBook /\ file'.status = "absent"
      BY <1>1, <2>2 DEF Start, AbsentFile
    <3> QED  BY <3>1, BlankBookReconciled DEF BothReconciled
  <2> QED  BY <2>1, <2>2
<1>2. CASE ProcessNext
  <2>1. PICK quality : book' = ProcessBar(book, feed[NextBar], NextBar, proc.enabled,
                                          quality, NextBar - proc.lo >= Warmup)
    BY <1>2 DEF ProcessNext
  <2>2. NextBar \in Nat /\ book.watermark < NextBar /\ feed[NextBar] \in Bars
    BY <1>2, NextBarIsNext DEF ProcessNext
  <2>3. IsBook(book) /\ Reconciled(book)
    BY DEF TypeOK, BookOK, BothReconciled
  <2>4. Reconciled(book')
    BY <2>1, <2>2, <2>3, ProcessBarReconciled
  <2>5. file' = file
    BY <1>2 DEF ProcessNext
  <2> QED  BY <2>4, <2>5 DEF BothReconciled
<1>3. CASE ReplaceFile
  <2>1. /\ book' = book /\ file'.status = "complete"
        /\ file'.payload = Serialise(book, lastQuality)
    BY <1>3 DEF ReplaceFile, CompleteFile
  <2>2. IsBook(book) /\ Reconciled(book)
    BY DEF TypeOK, BookOK, BothReconciled
  <2>3. Reconciled(file'.payload.book)
    BY <2>1, <2>2, SerialiseReconciled
  <2> QED  BY <2>1, <2>2, <2>3 DEF BothReconciled
<1>4. CASE Stop \/ Crash
  <2>1. book' = BlankBook /\ file' = file
    BY <1>4 DEF Stop, Crash, Lose
  <2> QED  BY <2>1, BlankBookReconciled DEF BothReconciled
<1>5. CASE Damage \/ Reset
  <2>1. book' = book /\ file'.status # "complete"
    BY <1>5 DEF Damage, Reset, DamagedFile, AbsentFile
  <2> QED  BY <2>1 DEF BothReconciled
<1>6. CASE \/ Publish \/ BeginReplay \/ BeginLive \/ RefreshFails \/ EndCatchUp \/ OpenTmp
          \/ UNCHANGED vars
  <2>1. book' = book /\ file' = file
    BY <1>6 DEF Publish, BeginReplay, BeginLive, RefreshFails, EndCatchUp, OpenTmp, vars
  <2> QED  BY <2>1 DEF BothReconciled
<1> QED
  BY <1>1, <1>2, <1>3, <1>4, <1>5, <1>6 DEF Next

\* Both books are reconciled forever.
LEMMA AlwaysReconciled == Spec /\ []TradesFit(book) => []BothReconciled
<1>1. Init => BothReconciled
  BY BlankBookReconciled DEF Init, BothReconciled, AbsentFile
<1>2. TypeOK /\ TradesFit(book) /\ BothReconciled /\ [Next]_vars => BothReconciled'
  BY NextReconciled
<1> QED  BY <1>1, <1>2, TypeCorrect, PTL DEF Spec

\* While the closed trades fit into the file, cash, realised P&L and costs equal
\* what the trades and the open positions add up to, and the curve ends with the
\* equity at the last close, however often the account went through the file
\* (open_position, close_position, record_snapshot, _restore_positions).
THEOREM BooksAlwaysReconcile == Spec /\ []TradesFit(book) => []BooksReconcile
<1>1. BothReconciled => BooksReconcile
  <2> SUFFICES ASSUME BothReconciled PROVE BooksReconcile
    OBVIOUS
  <2>1. Balanced(book.port, NoPast) /\ Marked(book)
    BY DEF BothReconciled, Reconciled, Accounted
  <2>2. /\ SumOver(book.port.trades, LAMBDA x : x.net) = SumFunction(Nets(book.port))
        /\ SumOver(book.port.trades, LAMBDA x : x.costs) = SumFunction(TradeCosts(book.port))
        /\ SumOver(book.port.trades, LAMBDA x : x.gross) = SumFunction(Grosses(book.port))
    BY DEF SumOver, Nets, TradeCosts, Grosses
  <2>3. /\ NoPast.realised = 0 /\ NoPast.costs = 0 /\ NoPast.cash = 0
        /\ InitialBalance \in Int
    BY BalanceAssumption DEF NoPast
  <2>4. /\ SumFunction(Nets(book.port)) \in Int /\ SumFunction(TradeCosts(book.port)) \in Int
        /\ SumFunction(EntryCosts(book.port.positions)) \in Int
        /\ SumFunction(Grosses(book.port)) \in Int
    BY AccountSums DEF BothReconciled, Reconciled, Accounted
  <2>5. /\ book.port.realised = SumFunction(Nets(book.port))
        /\ book.port.costs = SumFunction(TradeCosts(book.port))
                               + SumFunction(EntryCosts(book.port.positions))
        /\ book.port.cash = InitialBalance + SumFunction(Grosses(book.port)) - book.port.costs
    BY <2>1, <2>3, <2>4 DEF Balanced
  <2> QED  BY <2>1, <2>2, <2>5 DEF BooksReconcile, EntryCosts, Marked
<1> QED  BY <1>1, AlwaysReconciled, PTL

\* Under the same condition the selector's table holds exactly the samples of the
\* closed trades (_process_exits, _load_from_snapshot).
THEOREM PerformanceAlwaysMatches == Spec /\ []TradesFit(book) => []PerformanceMatchesTrades
<1>1. BothReconciled => PerformanceMatchesTrades
  BY DEF BothReconciled, Reconciled, PerformanceMatchesTrades
<1> QED  BY <1>1, AlwaysReconciled, PTL

---------------------------------------------------------------------------
(* Fills *)

\* Orders wait for the next bar only, and every entry happened on the bar after
\* the one its order was queued on.
Timely(b) ==
  /\ \A o \in b.pending : o.queuedOn = b.watermark
  /\ \A p \in b.port.positions : p.entryBar = p.queuedOn + 1
  /\ \A i \in DOMAIN b.port.trades : b.port.trades[i].entryBar = b.port.trades[i].queuedOn + 1

\* Every order filled on the bar after the one that queued it.
FillsOnNextBar ==
  /\ \A p \in book.port.positions : p.entryBar = p.queuedOn + 1
  /\ \A i \in DOMAIN book.port.trades :
       book.port.trades[i].entryBar = book.port.trades[i].queuedOn + 1

\* No frame starts past the bar that is due.
NoBarMissed == proc.phase = "catchup" => proc.lo <= book.watermark + 1

\* The amounts of a book are integers, whatever its trades add up to.
Numeric(b) ==
  /\ IsAccount(b.port) /\ IsCurve(b.port.curve)
  /\ \A o \in b.pending : IsTicket(o)

InTime(b) == Numeric(b) /\ Timely(b)

BothTimely == InTime(book) /\ (file.status = "complete" => InTime(file.payload.book))

\* Totals that differ from the listed trades are those of trades no longer listed.
LEMMA NumericHasPast ==
  ASSUME NEW b, Numeric(b)
  PROVE  \E past \in Pasts : Accounted(b, past)
<1> DEFINE pf == b.port
           past == [realised |-> pf.realised - SumFunction(Nets(pf)),
                    costs |-> pf.costs - SumFunction(TradeCosts(pf))
                                - SumFunction(EntryCosts(pf.positions)),
                    cash |-> pf.cash + pf.costs - InitialBalance - SumFunction(Grosses(pf))]
<1>1. /\ SumFunction(Nets(pf)) \in Int /\ SumFunction(TradeCosts(pf)) \in Int
      /\ SumFunction(EntryCosts(pf.positions)) \in Int /\ SumFunction(Grosses(pf)) \in Int
  BY AccountSums DEF Numeric
<1>2. pf.realised \in Int /\ pf.costs \in Int /\ pf.cash \in Int /\ InitialBalance \in Int
  BY BalanceAssumption DEF Numeric, IsAccount
<1> HIDE DEF pf
<1>3. past \in Pasts
  BY <1>1, <1>2 DEF Pasts
<1>4. Balanced(pf, past)
  BY <1>1, <1>2 DEF Balanced
<1> HIDE DEF past
<1>5. Accounted(b, past)
  BY <1>4 DEF Accounted, Numeric, pf
<1> QED  BY <1>3, <1>5

LEMMA BlankBookInTime == InTime(BlankBook)
<1>1. Timely(BlankBook)
  BY DEF Timely, BlankBook, EmptyPortfolio
<1>2. Numeric(BlankBook)
  BY BlankBookReconciled DEF Reconciled, Accounted, Numeric
<1> QED  BY <1>1, <1>2 DEF InTime

\* A book that holds what another one does, with fewer trades and a shorter curve
\* perhaps, and other baselines.
Abridges(c, b) ==
  /\ Numeric(c) /\ c.watermark = b.watermark /\ c.pending = b.pending
  /\ c.port.positions = b.port.positions
  /\ \A i \in DOMAIN c.port.trades : \E j \in DOMAIN b.port.trades :
       c.port.trades[i] = b.port.trades[j]
  /\ \A i \in DOMAIN c.port.curve : \E j \in DOMAIN b.port.curve :
       c.port.curve[i] = b.port.curve[j]

LEMMA SameAccountAbridges ==
  ASSUME NEW b, NEW c, Numeric(b), c.watermark = b.watermark, c.pending = b.pending,
         DOMAIN c.port = DOMAIN b.port, c.port.positions = b.port.positions,
         c.port.cash = b.port.cash, c.port.realised = b.port.realised,
         c.port.costs = b.port.costs, IsSeq(c.port.curve), IsSeq(c.port.trades),
         \A i \in DOMAIN c.port.trades : \E j \in DOMAIN b.port.trades :
           c.port.trades[i] = b.port.trades[j],
         \A i \in DOMAIN c.port.curve : \E j \in DOMAIN b.port.curve :
           c.port.curve[i] = b.port.curve[j]
  PROVE  Abridges(c, b)
<1>1. \A i \in DOMAIN c.port.trades : IsResult(c.port.trades[i])
  BY DEF Numeric, IsAccount
<1>2. IsAccount(c.port)
  BY <1>1 DEF Numeric, IsAccount
<1>3. IsCurve(c.port.curve)
  BY DEF Numeric, IsCurve
<1> QED  BY <1>2, <1>3 DEF Abridges, Numeric

\* The file keeps the last trades of a book and the last points of its curve.
LEMMA SerialiseAbridges ==
  ASSUME NEW b, NEW q, IsBook(b), Numeric(b)
  PROVE  Abridges(Serialise(b, q).book, b)
<1> DEFINE c == Serialise(b, q).book
           trades == LastN(b.port.trades, MaxClosedTrades)
           curve == LastN(b.port.curve, MaxEquityPoints)
<1>1. /\ c.port = SavedPortfolio(b.port)
      /\ c.pending = b.pending /\ c.watermark = b.watermark
  BY BookFieldsAre DEF Serialise, IsBook, IsBookAt
<1>2. LET port == SavedPortfolio(b.port)
      IN  /\ DOMAIN port = DOMAIN b.port /\ port.positions = b.port.positions
          /\ port.cash = b.port.cash /\ port.realised = b.port.realised
          /\ port.costs = b.port.costs /\ port.trades = trades /\ port.curve = curve
  BY BookFieldsAre DEF SavedPortfolio, IsBook, IsBookAt
<1> HIDE DEF c
<1>3. IsSeq(b.port.trades) /\ IsSeq(b.port.curve)
  BY DEF Numeric, IsAccount, IsCurve
<1>4. /\ IsSeq(trades)
      /\ \A i \in DOMAIN trades : \E j \in DOMAIN b.port.trades : trades[i] = b.port.trades[j]
  BY <1>3, LastNIsEnd, HistoryAssumption
<1>5. /\ IsSeq(curve)
      /\ \A i \in DOMAIN curve : \E j \in DOMAIN b.port.curve : curve[i] = b.port.curve[j]
  BY <1>3, LastNIsEnd, HistoryAssumption
<1> HIDE DEF trades, curve
<1>6. Abridges(c, b)
  BY <1>1, <1>2, <1>4, <1>5, SameAccountAbridges
<1> QED  BY <1>6 DEF c

LEMMA RestoreAbridges ==
  ASSUME NEW payload, IsBook(payload.book), Numeric(payload.book)
  PROVE  Abridges(Restore(payload), payload.book)
<1> DEFINE b == payload.book
           c == Restore(payload)
<1>1. /\ c.port = RestorePortfolio(b.port)
      /\ c.pending = b.pending /\ c.watermark = b.watermark
  BY BookFieldsAre DEF Restore, IsBook, IsBookAt
<1>2. {RestorePosition(p) : p \in b.port.positions} = b.port.positions
  BY RestoredPosition DEF IsBook, IsBookAt
<1>3. LET port == RestorePortfolio(b.port)
      IN  /\ DOMAIN port = DOMAIN b.port /\ port.positions = b.port.positions
          /\ port.cash = b.port.cash /\ port.realised = b.port.realised
          /\ port.costs = b.port.costs /\ port.trades = b.port.trades
          /\ port.curve = b.port.curve
  BY <1>2, BookFieldsAre DEF RestorePortfolio, IsBook, IsBookAt
<1> HIDE DEF c, b
<1>4. IsSeq(b.port.trades) /\ IsSeq(b.port.curve) /\ Numeric(b)
  BY DEF Numeric, IsAccount, IsCurve, b
<1>5. Abridges(c, b)
  BY <1>1, <1>3, <1>4, SameAccountAbridges
<1> QED  BY <1>5 DEF c, b

\* Such a book keeps its time.
LEMMA AbridgedInTime ==
  ASSUME NEW b, NEW c, InTime(b), Abridges(c, b)
  PROVE  InTime(c)
  BY DEF InTime, Timely, Abridges

\* On the bar that is due, a queued order is one bar old.
LEMMA ProcessBarTimely ==
  ASSUME NEW b, NEW bar \in Bars, IsBook(b), NEW t, t = b.watermark + 1,
         NEW enabled, NEW quality, NEW warm, InTime(b)
  PROVE  InTime(ProcessBar(b, bar, t, enabled, quality, warm))
<1> DEFINE c == ProcessBar(b, bar, t, enabled, quality, warm)
<1>1. t \in Nat /\ b.watermark < t /\ b.watermark \in Nat
  BY DEF IsBook, IsBookAt
<1>p. PICK past \in Pasts : Accounted(b, past)
  BY NumericHasPast DEF InTime
<1>2. AfterBar(b, c, bar, t, past) /\ Descends(b, c, t)
  BY <1>1, <1>p, ProcessBarAccounted
<1>3. c.watermark = t
  BY <1>1, ProcessBarKeepsBook
<1> HIDE DEF c
<1>4. JustifiedQueue(c, t)
  BY <1>2 DEF AfterBar
<1>5. \A o \in c.pending : o.queuedOn = c.watermark
  BY <1>3, <1>4 DEF JustifiedQueue
<1>6. \A x : EnteredNow(x, b, t) => x.entryBar = x.queuedOn + 1
  BY DEF EnteredNow, Timely, InTime
<1>7. \A x : \A q \in b.port.positions : EnteredAs(x, q) => x.entryBar = x.queuedOn + 1
  BY DEF EnteredAs, Timely, InTime
<1>8. \A p \in c.port.positions : p.entryBar = p.queuedOn + 1
  BY <1>2, <1>6, <1>7 DEF Descends
<1>9. \A i \in DOMAIN c.port.trades : c.port.trades[i].entryBar = c.port.trades[i].queuedOn + 1
  BY <1>2, <1>6, <1>7 DEF Descends, Timely, InTime
<1>10. Numeric(c)
  BY <1>2 DEF AfterBar, Accounted, Numeric
<1> QED  BY <1>5, <1>8, <1>9, <1>10 DEF Timely, InTime, c

LEMMA NextTimely ==
  ASSUME TypeOK, NoBarMissed, BothTimely, [Next]_vars
  PROVE  BothTimely'
<1>1. CASE Start
  <2>1. CASE file.status = "complete"
    <3>1. /\ IsBook(file.payload.book) /\ InTime(file.payload.book)
          /\ book' = Restore(file.payload) /\ file' = file
      BY <1>1, <2>1 DEF Start, TypeOK, FileOK, BookOK, BothTimely
    <3>2. Abridges(book', file.payload.book)
      BY <3>1, RestoreAbridges DEF InTime
    <3>3. InTime(book')
      BY <3>1, <3>2, AbridgedInTime
    <3> QED  BY <3>1, <3>3 DEF BothTimely
  <2>2. CASE file.status # "complete"
    <3>1. book' = BlankBook /\ file'.status = "absent"
      BY <1>1, <2>2 DEF Start, AbsentFile
    <3> QED  BY <3>1, BlankBookInTime DEF BothTimely
  <2> QED  BY <2>1, <2>2
<1>2. CASE ProcessNext
  <2>1. PICK quality : book' = ProcessBar(book, feed[NextBar], NextBar, proc.enabled,
                                          quality, NextBar - proc.lo >= Warmup)
    BY <1>2 DEF ProcessNext
  <2>2. feed[NextBar] \in Bars
    BY <1>2, NextBarIsNext DEF ProcessNext
  <2>3. IsBook(book) /\ InTime(book)
    BY DEF TypeOK, BookOK, BothTimely
  <2>4. NextBar = book.watermark + 1
    <3>1. proc.lo \in Nat /\ book.watermark \in Nat /\ proc.phase = "catchup"
      BY <1>2, <2>3, NextBarIsNext DEF ProcessNext, BarWaiting, CatchUpJobs, IsBook, IsBookAt
    <3>2. proc.lo <= book.watermark + 1
      BY <3>1 DEF NoBarMissed
    <3> QED  BY <3>1, <3>2 DEF NextBar, Max2
  <2>5. InTime(book')
    BY <2>1, <2>2, <2>3, <2>4, ProcessBarTimely
  <2>6. file' = file
    BY <1>2 DEF ProcessNext
  <2> QED  BY <2>5, <2>6 DEF BothTimely
<1>3. CASE ReplaceFile
  <2>1. /\ book' = book /\ file'.status = "complete"
        /\ file'.payload = Serialise(book, lastQuality)
    BY <1>3 DEF ReplaceFile, CompleteFile
  <2>2. IsBook(book) /\ InTime(book)
    BY DEF TypeOK, BookOK, BothTimely
  <2>3. Abridges(file'.payload.book, book)
    BY <2>1, <2>2, SerialiseAbridges DEF InTime
  <2>4. InTime(file'.payload.book)
    BY <2>2, <2>3, AbridgedInTime
  <2> QED  BY <2>1, <2>2, <2>4 DEF BothTimely
<1>4. CASE Stop \/ Crash
  <2>1. book' = BlankBook /\ file' = file
    BY <1>4 DEF Stop, Crash, Lose
  <2> QED  BY <2>1, BlankBookInTime DEF BothTimely
<1>5. CASE Damage \/ Reset
  <2>1. book' = book /\ file'.status # "complete"
    BY <1>5 DEF Damage, Reset, DamagedFile, AbsentFile
  <2> QED  BY <2>1 DEF BothTimely
<1>6. CASE \/ Publish \/ BeginReplay \/ BeginLive \/ RefreshFails \/ EndCatchUp \/ OpenTmp
          \/ UNCHANGED vars
  <2>1. book' = book /\ file' = file
    BY <1>6 DEF Publish, BeginReplay, BeginLive, RefreshFails, EndCatchUp, OpenTmp, vars
  <2> QED  BY <2>1 DEF BothTimely
<1> QED
  BY <1>1, <1>2, <1>3, <1>4, <1>5, <1>6 DEF Next

\* An order fills at the open right after the bar that queued it, or not at all, as
\* long as no frame leaves out the bar that is due: not after a restart, not from
\* the file (_fill_pending_orders).  A live window shorter than an outage is such
\* a frame, and there the order fills late.
THEOREM FillsAlwaysOnNextBar ==
  Spec /\ []NoBarMissed => []FillsOnNextBar
<1>1. Init => BothTimely
  BY BlankBookInTime DEF Init, BothTimely, AbsentFile
<1>2. TypeOK /\ NoBarMissed /\ BothTimely /\ [Next]_vars
        => BothTimely'
  BY NextTimely
<1>3. BothTimely => FillsOnNextBar
  BY DEF BothTimely, InTime, Timely, FillsOnNextBar
<1> QED  BY <1>1, <1>2, <1>3, TypeCorrect, PTL DEF Spec

\* An entry no later than t, on the first bar of the curve after its order.
HadItsTurn(x, curve, t) ==
  x.entryBar \in Int /\ x.entryBar <= t /\ FilledAtOnce(x, curve)

\* The points of the curve, the positions and the trades of a book that fills every
\* order on the first bar it processes after the order.
InTurn(b) ==
  /\ Numeric(b)
  /\ \A o \in b.pending : o.queuedOn = b.watermark
  /\ \A i \in DOMAIN b.port.curve : b.port.curve[i].bar \in Int
                                    /\ b.port.curve[i].bar <= b.watermark
  /\ \A p \in b.port.positions : HadItsTurn(p, b.port.curve, b.watermark)
  /\ \A i \in DOMAIN b.port.trades :
       HadItsTurn(b.port.trades[i], b.port.curve, b.watermark)

BothInTurn == InTurn(book) /\ (file.status = "complete" => InTurn(file.payload.book))

LEMMA BlankBookInTurn == InTurn(BlankBook)
<1>1. /\ BlankBook.pending = {} /\ BlankBook.port.positions = {}
      /\ BlankBook.port.trades = <<>> /\ BlankBook.port.curve = <<>>
  BY DEF BlankBook, EmptyPortfolio
<1>2. Numeric(BlankBook)
  BY BlankBookInTime DEF InTime
<1> QED  BY <1>1, <1>2 DEF InTurn

\* With fewer points before it, an entry is still the first after its order.
LEMMA TurnKept ==
  ASSUME NEW x, NEW old, NEW new, NEW t, HadItsTurn(x, old, t),
         \A i \in DOMAIN new : \E j \in DOMAIN old : new[i] = old[j]
  PROVE  HadItsTurn(x, new, t)
  BY DEF HadItsTurn, FilledAtOnce

\* A book keeps its turns with fewer trades and a shorter curve, and other baselines.
LEMMA AbridgedInTurn ==
  ASSUME NEW b, NEW c, InTurn(b), Abridges(c, b)
  PROVE  InTurn(c)
<1>1. \A i \in DOMAIN c.port.curve : c.port.curve[i].bar \in Int
                                    /\ c.port.curve[i].bar <= c.watermark
  BY DEF InTurn, Abridges
<1>2. \A x : HadItsTurn(x, b.port.curve, b.watermark)
               => HadItsTurn(x, c.port.curve, c.watermark)
  BY TurnKept DEF Abridges
<1>3. \A p \in c.port.positions : HadItsTurn(p, c.port.curve, c.watermark)
  BY <1>2 DEF InTurn, Abridges
<1>4. \A i \in DOMAIN c.port.trades :
        HadItsTurn(c.port.trades[i], c.port.curve, c.watermark)
  BY <1>2 DEF InTurn, Abridges
<1> QED  BY <1>1, <1>3, <1>4 DEF InTurn, Abridges

\* The next bar processed, however many were left out, is the turn of the queue.
LEMMA ProcessBarInTurn ==
  ASSUME NEW b, NEW bar \in Bars, IsBook(b), NEW t \in Nat, b.watermark < t,
         NEW enabled, NEW quality, NEW warm, InTurn(b)
  PROVE  InTurn(ProcessBar(b, bar, t, enabled, quality, warm))
<1> DEFINE c == ProcessBar(b, bar, t, enabled, quality, warm)
           old == b.port.curve
           new == c.port.curve
<1>1. b.watermark \in Nat
  BY DEF IsBook, IsBookAt
<1>p. PICK past \in Pasts : Accounted(b, past)
  BY NumericHasPast DEF InTurn
<1>2. AfterBar(b, c, bar, t, past) /\ Descends(b, c, t)
  BY <1>p, ProcessBarAccounted
<1>3. c.watermark = t
  BY ProcessBarKeepsBook
<1> HIDE DEF c
<1>4. \A o \in c.pending : o.queuedOn = c.watermark
  BY <1>2, <1>3 DEF AfterBar, JustifiedQueue
<1>5. \A i \in DOMAIN new : new[i].bar = t \/ \E j \in DOMAIN old : new[i] = old[j]
  BY <1>2 DEF AfterBar, AddsPointsOf
<1>6. \A j \in DOMAIN old : old[j].bar \in Int /\ old[j].bar <= b.watermark
  BY DEF InTurn
<1>7. \A i \in DOMAIN new : new[i].bar \in Int /\ new[i].bar <= c.watermark
  BY <1>1, <1>3, <1>5, <1>6
<1>8. ASSUME NEW x, HadItsTurn(x, old, b.watermark)
      PROVE  HadItsTurn(x, new, t)
  <2>1. x.entryBar \in Int /\ x.entryBar <= t /\ x.queuedOn < x.entryBar
    BY <1>1, <1>8 DEF HadItsTurn, FilledAtOnce
  <2>2. \A i \in DOMAIN new : new[i].bar <= x.queuedOn \/ x.entryBar <= new[i].bar
    BY <1>5, <1>8, <2>1 DEF HadItsTurn, FilledAtOnce
  <2> QED  BY <2>1, <2>2 DEF HadItsTurn, FilledAtOnce
<1>9. ASSUME NEW x, EnteredNow(x, b, t)
      PROVE  HadItsTurn(x, new, t)
  <2>1. x.entryBar = t /\ x.queuedOn = b.watermark
    BY <1>9 DEF EnteredNow, InTurn
  <2>2. \A i \in DOMAIN new : new[i].bar <= x.queuedOn \/ x.entryBar <= new[i].bar
    BY <1>5, <1>6, <2>1
  <2> QED  BY <1>1, <2>1, <2>2 DEF HadItsTurn, FilledAtOnce
<1>10. \A x : \A q \in b.port.positions : EnteredAs(x, q) => HadItsTurn(x, old, b.watermark)
  BY DEF EnteredAs, InTurn, HadItsTurn, FilledAtOnce
<1>11. \A p \in c.port.positions : HadItsTurn(p, new, t)
  BY <1>2, <1>8, <1>9, <1>10 DEF Descends
<1>12. \A i \in DOMAIN c.port.trades : HadItsTurn(c.port.trades[i], new, t)
  BY <1>2, <1>8, <1>9, <1>10 DEF Descends, InTurn
<1>13. Numeric(c)
  BY <1>2 DEF AfterBar, Accounted, Numeric
<1>14. InTurn(c)
  BY <1>3, <1>4, <1>7, <1>11, <1>12, <1>13 DEF InTurn
<1> QED  BY <1>14 DEF c

LEMMA NextInTurn ==
  ASSUME TypeOK, BothInTurn, [Next]_vars
  PROVE  BothInTurn'
<1>1. CASE Start
  <2>1. CASE file.status = "complete"
    <3>1. /\ IsBook(file.payload.book) /\ InTurn(file.payload.book)
          /\ book' = Restore(file.payload) /\ file' = file
      BY <1>1, <2>1 DEF Start, TypeOK, FileOK, BookOK, BothInTurn
    <3>2. Abridges(book', file.payload.book)
      BY <3>1, RestoreAbridges DEF InTurn
    <3>3. InTurn(book')
      BY <3>1, <3>2, AbridgedInTurn
    <3> QED  BY <3>1, <3>3 DEF BothInTurn
  <2>2. CASE file.status # "complete"
    <3>1. book' = BlankBook /\ file'.status = "absent"
      BY <1>1, <2>2 DEF Start, AbsentFile
    <3> QED  BY <3>1, BlankBookInTurn DEF BothInTurn
  <2> QED  BY <2>1, <2>2
<1>2. CASE ProcessNext
  <2>1. PICK quality : book' = ProcessBar(book, feed[NextBar], NextBar, proc.enabled,
                                          quality, NextBar - proc.lo >= Warmup)
    BY <1>2 DEF ProcessNext
  <2>2. NextBar \in Nat /\ book.watermark < NextBar /\ feed[NextBar] \in Bars
    BY <1>2, NextBarIsNext DEF ProcessNext
  <2>3. IsBook(book) /\ InTurn(book)
    BY DEF TypeOK, BookOK, BothInTurn
  <2>4. InTurn(book')
    BY <2>1, <2>2, <2>3, ProcessBarInTurn
  <2>5. file' = file
    BY <1>2 DEF ProcessNext
  <2> QED  BY <2>4, <2>5 DEF BothInTurn
<1>3. CASE ReplaceFile
  <2>1. /\ book' = book /\ file'.status = "complete"
        /\ file'.payload = Serialise(book, lastQuality)
    BY <1>3 DEF ReplaceFile, CompleteFile
  <2>2. IsBook(book) /\ InTurn(book)
    BY DEF TypeOK, BookOK, BothInTurn
  <2>3. Abridges(file'.payload.book, book)
    BY <2>1, <2>2, SerialiseAbridges DEF InTurn
  <2>4. InTurn(file'.payload.book)
    BY <2>2, <2>3, AbridgedInTurn
  <2> QED  BY <2>1, <2>2, <2>4 DEF BothInTurn
<1>4. CASE Stop \/ Crash
  <2>1. book' = BlankBook /\ file' = file
    BY <1>4 DEF Stop, Crash, Lose
  <2> QED  BY <2>1, BlankBookInTurn DEF BothInTurn
<1>5. CASE Damage \/ Reset
  <2>1. book' = book /\ file'.status # "complete"
    BY <1>5 DEF Damage, Reset, DamagedFile, AbsentFile
  <2> QED  BY <2>1 DEF BothInTurn
<1>6. CASE \/ Publish \/ BeginReplay \/ BeginLive \/ RefreshFails \/ EndCatchUp \/ OpenTmp
          \/ UNCHANGED vars
  <2>1. book' = book /\ file' = file
    BY <1>6 DEF Publish, BeginReplay, BeginLive, RefreshFails, EndCatchUp, OpenTmp, vars
  <2> QED  BY <2>1 DEF BothInTurn
<1> QED
  BY <1>1, <1>2, <1>3, <1>4, <1>5, <1>6 DEF Next

\* An order fills at the first bar the session processes after the one that queued it,
\* or not at all: not after a restart, not from the file, and not on a second bar,
\* whichever bars the frames leave out (_fill_pending_orders empties the queue).
THEOREM FillsAlwaysOnNextProcessedBar == Spec => []FillsOnNextProcessedBar
<1>1. Init => BothInTurn
  BY BlankBookInTurn DEF Init, BothInTurn, AbsentFile
<1>2. TypeOK /\ BothInTurn /\ [Next]_vars => BothInTurn'
  BY NextInTurn
<1>3. BothInTurn => FillsOnNextProcessedBar
  BY DEF BothInTurn, InTurn, HadItsTurn, FillsOnNextProcessedBar
<1> QED  BY <1>1, <1>2, <1>3, TypeCorrect, PTL DEF Spec

---------------------------------------------------------------------------
(* Baselines *)

\* The baselines of a book and its queue are those of its equity curve, whose
\* points follow each other bar by bar, the last one on the current day.
OnCurve(b) ==
  LET curve == b.port.curve
  IN  /\ \A i \in DOMAIN curve : curve[i].bar \in 1 .. b.watermark
      /\ \A i, j \in DOMAIN curve : i < j => curve[i].bar < curve[j].bar
      /\ b.port.day = IF curve = <<>> THEN 0 ELSE Day(Last(curve).bar)
DayStartOK(port) ==
  port.dayStart = IF EarlierDays(port) = {} THEN InitialBalance
                  ELSE port.curve[Max(EarlierDays(port))].equity
Historical(b) ==
  /\ OnCurve(b) /\ b.port.peak = HistoricalPeak(b.port) /\ DayStartOK(b.port)
  /\ JustifiedQueue(b, b.watermark)

\* Later bars are on later days, or on the same one.
LEMMA LaterDay ==
  ASSUME NEW s \in Nat \ {0}, NEW t \in Nat \ {0}, s <= t
  PROVE  Day(s) \in Nat \ {0} /\ Day(t) \in Nat \ {0} /\ Day(s) <= Day(t)
<1>1. PICK k \in Nat \ {0} : k = BarsPerDay
  BY DayAssumption
<1>2. PICK a \in Nat, b \in Nat : a = s - 1 /\ b = t - 1 /\ a <= b
  OBVIOUS
<1>3. PICK p \in Nat : p = a \div k /\ p * k <= a
  <2>1. a \div k \in Nat /\ (a \div k) * k <= a
    OBVIOUS
  <2> QED  BY <2>1
<1>4. PICK q \in Nat : q = b \div k /\ b < (q + 1) * k
  <2>1. b \div k \in Nat /\ b < (b \div k + 1) * k
    OBVIOUS
  <2> QED  BY <2>1
<1>5. p <= q
  <2>1. SUFFICES ASSUME q + 1 <= p PROVE FALSE
    OBVIOUS
  <2>2. (q + 1) * k <= p * k
    BY <2>1
  <2>3. PICK u \in Int, v \in Int : u = (q + 1) * k /\ v = p * k
    OBVIOUS
  <2>4. u <= v /\ v <= a /\ b < u
    BY <1>3, <1>4, <2>2, <2>3
  <2> QED  BY <1>2, <2>4
<1>6. Day(s) = p + 1 /\ Day(t) = q + 1
  BY <1>1, <1>2, <1>3, <1>4 DEF Day
<1> QED  BY <1>5, <1>6

\* The greatest element of a finite set of integers.
LEMMA MaxIsGreatest ==
  ASSUME NEW S, IsFiniteSet(S), S # {}, \A x \in S : x \in Int
  PROVE  Max(S) \in S /\ \A y \in S : Max(S) >= y
<1>1. \E x \in S : \A y \in S : x >= y
  BY Extremes
<1> QED  BY <1>1 DEF Max

LEMMA MaxIs ==
  ASSUME NEW S, \A x \in S : x \in Int, NEW x \in S, \A y \in S : x >= y
  PROVE  Max(S) = x
<1>1. Max(S) \in S /\ \A y \in S : Max(S) >= y
  BY DEF Max
<1>2. Max(S) >= x /\ x >= Max(S) /\ Max(S) \in Int /\ x \in Int
  BY <1>1
<1> QED  BY <1>2

\* A curve is a finite list of points.
LEMMA CurvePoints ==
  ASSUME NEW curve, IsCurve(curve)
  PROVE  /\ Len(curve) \in Nat /\ DOMAIN curve = 1 .. Len(curve)
         /\ IsFiniteSet({curve[i].equity : i \in DOMAIN curve})
         /\ curve = <<>> <=> Len(curve) = 0
<1> DEFINE X == {curve[i] : i \in DOMAIN curve}
<1>1. curve \in Seq(X)
  BY DEF IsCurve, IsSeq
<1> HIDE DEF X
<1>2. Len(curve) \in Nat /\ DOMAIN curve = 1 .. Len(curve) /\ (curve = <<>> <=> Len(curve) = 0)
  BY <1>1
<1>3. IsFiniteSet(DOMAIN curve)
  BY <1>2, FS_Interval
<1>4. IsFiniteSet({curve[i].equity : i \in DOMAIN curve})
  <2> DEFINE m == [i \in DOMAIN curve |-> curve[i].equity]
  <2>1. m \in Surjection(DOMAIN curve, {curve[i].equity : i \in DOMAIN curve})
    BY DEF Surjection
  <2> QED  BY <1>3, <2>1, FS_Surjection
<1> QED  BY <1>2, <1>4

\* A curve with one point more.
OnePointMore(a, x, c, n) ==
  /\ n \in Nat /\ DOMAIN a = 1 .. n /\ DOMAIN c = 1 .. n + 1
  /\ \A i \in 1 .. n : c[i] = a[i]
  /\ c[n + 1] = x /\ c # <<>> /\ Last(c) = x
  /\ (n # 0 => Last(a) = a[n]) /\ (a = <<>> <=> n = 0)

LEMMA PointAdded ==
  ASSUME NEW a, IsCurve(a), NEW x
  PROVE  OnePointMore(a, x, Append(a, x), Len(a))
<1> DEFINE X == {a[i] : i \in DOMAIN a} \cup {x}
           c == Append(a, x)
<1>1. a \in Seq(X) /\ x \in X
  BY DEF IsCurve, IsSeq
<1> HIDE DEF X
<1>2. PICK n \in Nat : n = Len(a)
  BY <1>1
<1>3. DOMAIN a = 1 .. n /\ (a = <<>> <=> n = 0)
  BY <1>1, <1>2
<1>4. c \in Seq(X) /\ Len(c) = n + 1 /\ DOMAIN c = 1 .. n + 1
  BY <1>1, <1>2
<1>5. \A i \in 1 .. n : c[i] = a[i]
  BY <1>1, <1>2
<1>6. c[n + 1] = x
  BY <1>1, <1>2
<1>7. c # <<>>
  BY <1>4
<1>8. Last(c) = x /\ (n # 0 => Last(a) = a[n])
  BY <1>2, <1>4, <1>6 DEF Last
<1> HIDE DEF c
<1> QED  BY <1>2, <1>3, <1>4, <1>5, <1>6, <1>7, <1>8 DEF OnePointMore, c

\* The peak of a curve with one point more.
LEMMA PeakGrows ==
  ASSUME NEW b, NEW c, IsCurve(b.curve), NEW x, x.equity \in Int,
         c.curve = Append(b.curve, x)
  PROVE  HistoricalPeak(c) = Max2(HistoricalPeak(b), x.equity)
<1> DEFINE S == {InitialBalance} \cup {b.curve[i].equity : i \in DOMAIN b.curve}
           T == {InitialBalance} \cup {c.curve[i].equity : i \in DOMAIN c.curve}
<1>1. PICK n : OnePointMore(b.curve, x, c.curve, n)
  BY PointAdded
<1>2. T = S \cup {x.equity}
  <2>1. n \in Nat /\ DOMAIN b.curve = 1 .. n /\ DOMAIN c.curve = 1 .. n + 1
        /\ \A i \in 1 .. n : c.curve[i] = b.curve[i]
        /\ c.curve[n + 1] = x
    BY <1>1 DEF OnePointMore
  <2>2. \A i : i \in 1 .. n + 1 <=> i \in 1 .. n \/ i = n + 1
    BY <2>1
  <2> QED  BY <2>1, <2>2
<1>3. IsFiniteSet(S) /\ S # {} /\ \A y \in S : y \in Int
  <2>1. IsFiniteSet({b.curve[i].equity : i \in DOMAIN b.curve})
    BY CurvePoints
  <2>2. IsFiniteSet({InitialBalance})
    BY FS_Singleton
  <2>3. IsFiniteSet(S)
    BY <2>1, <2>2, FS_Union
  <2> QED  BY <2>3, BalanceAssumption DEF IsCurve
<1>4. HistoricalPeak(c) = Max(T) /\ HistoricalPeak(b) = Max(S)
  BY DEF HistoricalPeak
<1> HIDE DEF S, T
<1>5. Max(S) \in S /\ \A y \in S : Max(S) >= y
  BY <1>3, MaxIsGreatest
<1>6. \A y \in T : y \in Int
  BY <1>2, <1>3
<1>7. PICK m \in Int, e \in Int : m = Max(S) /\ e = x.equity
  BY <1>3, <1>5
<1>8. Max2(m, e) \in T /\ \A y \in T : Max2(m, e) >= y
  <2>1. CASE m >= e
    <3>1. Max2(m, e) = m
      BY <2>1 DEF Max2
    <3> QED  BY <1>2, <1>3, <1>5, <1>7, <2>1, <3>1
  <2>2. CASE ~ (m >= e)
    <3>1. Max2(m, e) = e
      BY <2>2 DEF Max2
    <3>2. \A y \in S : e >= y
      BY <1>3, <1>5, <1>7, <2>2
    <3> QED  BY <1>2, <1>7, <3>1, <3>2
  <2> QED  BY <2>1, <2>2
<1>9. Max(T) = Max2(m, e)
  BY <1>6, <1>8, MaxIs
<1> QED  BY <1>4, <1>7, <1>9

\* The bars of the curve lie before a bar past the watermark.
LEMMA CurveIsPast ==
  ASSUME NEW b, IsBook(b), OnCurve(b), NEW t \in Nat, b.watermark < t
  PROVE  \A i \in DOMAIN b.port.curve : /\ b.port.curve[i].bar \in Nat \ {0}
                                       /\ b.port.curve[i].bar \in 1 .. t
                                       /\ b.port.curve[i].bar < t
<1>1. PICK w \in Nat : w = b.watermark /\ w < t
  BY DEF IsBook, IsBookAt
<1>2. \A i \in DOMAIN b.port.curve : b.port.curve[i].bar \in 1 .. w
  BY <1>1 DEF OnCurve
<1>3. \A k \in 1 .. w : k \in Nat \ {0} /\ k \in 1 .. t /\ k < t
  BY <1>1
<1> QED  BY <1>2, <1>3

\* How one bar moves the curve, the day and the baseline of the day.
MovesTo(b, c, x, t) ==
  /\ c.curve = Append(b.curve, x) /\ x.bar = t /\ c.day = Day(t)
  /\ c.dayStart = IF b.day = 0 \/ b.day = Day(t) THEN b.dayStart
                  ELSE IF b.curve = <<>> THEN c.dayStart ELSE Last(b.curve).equity

\* The baseline of the day is that of the curve: the first bar of a later day
\* takes the equity of the last point, and all points so far are on earlier days.
LEMMA DayStartMoves ==
  ASSUME NEW b, NEW t \in Nat \ {0}, IsBook(b), b.watermark < t, IsCurve(b.port.curve),
         OnCurve(b), DayStartOK(b.port), NEW c, NEW x, MovesTo(b.port, c, x, t)
  PROVE  DayStartOK(c)
<1> DEFINE old == b.port.curve
           new == c.curve
<1>1. PICK n : OnePointMore(old, x, new, n)
  BY PointAdded DEF MovesTo
<1>2. /\ n \in Nat /\ DOMAIN old = 1 .. n /\ DOMAIN new = 1 .. n + 1
      /\ \A i \in 1 .. n : new[i] = old[i]
      /\ new[n + 1] = x /\ (n # 0 => Last(old) = old[n]) /\ (old = <<>> <=> n = 0)
  BY <1>1 DEF OnePointMore
<1>3. \A i \in 1 .. n : old[i].bar \in Nat \ {0} /\ old[i].bar < t
  BY <1>2, CurveIsPast
<1>4. Day(t) \in Nat \ {0}
  BY LaterDay
<1>5. EarlierDays(c) = {i \in 1 .. n : Day(old[i].bar) < Day(t)}
  <2>1. EarlierDays(c) = {i \in 1 .. n + 1 : Day(new[i].bar) < Day(t)}
    BY <1>2 DEF EarlierDays, MovesTo
  <2>2. ~ (Day(new[n + 1].bar) < Day(t))
    BY <1>2, <1>4 DEF MovesTo
  <2>3. \A i \in 1 .. n + 1 : i \in 1 .. n \/ i = n + 1
    BY <1>2
  <2>4. \A i \in 1 .. n : i \in 1 .. n + 1 /\ new[i] = old[i]
    BY <1>2
  <2> QED  BY <2>1, <2>2, <2>3, <2>4
<1>6. CASE n = 0
  <2>1. EarlierDays(c) = {}
    BY <1>5, <1>6
  <2>2. EarlierDays(b.port) = {}
    BY <1>2, <1>6 DEF EarlierDays
  <2>3. b.port.day = 0
    BY <1>2, <1>6 DEF OnCurve
  <2> QED  BY <2>1, <2>2, <2>3 DEF DayStartOK, MovesTo
<1>7. CASE n # 0 /\ b.port.day = Day(t)
  <2>1. EarlierDays(b.port) = EarlierDays(c)
    BY <1>2, <1>5, <1>7 DEF EarlierDays
  <2>2. EarlierDays(c) # {} => Max(EarlierDays(c)) \in EarlierDays(c)
    <3>1. IsFiniteSet(1 .. n)
      BY <1>2, FS_Interval
    <3>2. EarlierDays(c) \subseteq 1 .. n
      BY <1>5
    <3>3. IsFiniteSet(EarlierDays(c))
      BY <3>1, <3>2, FS_Subset
    <3>4. \A i \in EarlierDays(c) : i \in Int
      BY <1>2, <3>2
    <3> QED  BY <3>3, <3>4, MaxIsGreatest
  <2>3. EarlierDays(c) # {} => new[Max(EarlierDays(c))] = old[Max(EarlierDays(c))]
    BY <1>2, <1>5, <2>2
  <2>4. c.dayStart = b.port.dayStart
    BY <1>7 DEF MovesTo
  <2> QED  BY <2>1, <2>3, <2>4 DEF DayStartOK
<1>8. CASE n # 0 /\ b.port.day # Day(t)
  <2>0. n \in 1 .. n /\ n \in Nat
    BY <1>2, <1>8
  <2>1. b.port.day = Day(old[n].bar)
    BY <1>2, <1>8 DEF OnCurve
  <2>2. old[n].bar \in Nat \ {0} /\ old[n].bar < t
    BY <1>3, <2>0
  <2>3. b.port.day \in Nat \ {0} /\ b.port.day < Day(t)
    <3>1. old[n].bar <= t
      BY <2>2
    <3>2. Day(old[n].bar) \in Nat \ {0} /\ Day(old[n].bar) <= Day(t)
      BY <2>2, <3>1, LaterDay
    <3> QED  BY <1>4, <1>8, <2>1, <3>2
  <2>4. ASSUME NEW i \in 1 .. n PROVE Day(old[i].bar) < Day(t)
    <3>1. i = n \/ old[i].bar < old[n].bar
      BY <1>2, <2>0 DEF OnCurve
    <3>2. old[i].bar \in Nat \ {0} /\ old[i].bar <= old[n].bar
      BY <1>3, <2>2, <3>1
    <3>3. Day(old[i].bar) \in Nat \ {0} /\ Day(old[i].bar) <= Day(old[n].bar)
      BY <2>2, <3>2, LaterDay
    <3> QED  BY <1>4, <2>1, <2>3, <3>3
  <2>5. EarlierDays(c) = 1 .. n
    BY <1>5, <2>4
  <2>6. Max(1 .. n) = n
    <3>1. (\A i \in 1 .. n : i \in Int) /\ \A i \in 1 .. n : n >= i
      BY <2>0
    <3> QED  BY <2>0, <3>1, MaxIs
  <2>7. c.dayStart = old[n].equity
    BY <1>2, <1>8, <2>3 DEF MovesTo
  <2> QED  BY <1>2, <2>0, <2>5, <2>6, <2>7 DEF DayStartOK
<1> QED  BY <1>6, <1>7, <1>8

\* The curve of the book after a bar ends with this bar.
LEMMA CurveMoves ==
  ASSUME NEW b, NEW t \in Nat \ {0}, IsBook(b), b.watermark < t, IsCurve(b.port.curve),
         OnCurve(b), NEW c, NEW x, MovesTo(b.port, c.port, x, t), c.watermark = t
  PROVE  OnCurve(c)
<1> DEFINE old == b.port.curve
           new == c.port.curve
<1>1. PICK n : OnePointMore(old, x, new, n)
  BY PointAdded DEF MovesTo
<1>2. /\ n \in Nat /\ DOMAIN old = 1 .. n /\ DOMAIN new = 1 .. n + 1
      /\ \A i \in 1 .. n : new[i] = old[i]
      /\ new[n + 1] = x /\ x.bar = t /\ new # <<>> /\ Last(new) = x
  BY <1>1 DEF OnePointMore, MovesTo
<1>3. \A i \in 1 .. n + 1 : i \in 1 .. n \/ i = n + 1
  BY <1>2
<1>6. \A i \in 1 .. n : new[i].bar \in 1 .. t /\ new[i].bar < t
  BY <1>2, CurveIsPast
<1>7. \A i \in 1 .. n + 1 : new[i].bar \in 1 .. t
  BY <1>2, <1>3, <1>6
<1>8. ASSUME NEW i \in 1 .. n + 1, NEW j \in 1 .. n + 1, i < j
      PROVE  new[i].bar < new[j].bar
  <2>1. i \in 1 .. n
    BY <1>2, <1>8
  <2>2. CASE j \in 1 .. n
    BY <1>2, <1>8, <2>1, <2>2 DEF OnCurve
  <2>3. CASE j = n + 1
    BY <1>2, <1>6, <2>1, <2>3
  <2> QED  BY <1>3, <2>2, <2>3
<1>9. c.port.day = Day(Last(new).bar)
  BY <1>2 DEF MovesTo
<1> QED  BY <1>2, <1>7, <1>8, <1>9 DEF OnCurve

\* One bar keeps the baselines those of the curve, if the curve fits into the file.
LEMMA ProcessBarHistorical ==
  ASSUME NEW b, NEW bar \in Bars, NEW t \in Nat, IsBook(b), b.watermark < t,
         NEW enabled, NEW quality, NEW warm, Accounted(b, NoPast), Recoverable(b), Historical(b)
  PROVE  Historical(ProcessBar(b, bar, t, enabled, quality, warm))
<1> DEFINE c == ProcessBar(b, bar, t, enabled, quality, warm)
           x == PointOf(c.port, t, bar.close)
<1>1. AfterBar(b, c, bar, t, NoPast)
  BY ProcessBarAccounted, NoPastIsPast
<1>2. c.watermark = t
  BY ProcessBarKeepsBook
<1>3. t \in Nat \ {0}
  BY DEF IsBook, IsBookAt
<1> HIDE DEF c
<1>4. IsCurve(b.port.curve) /\ OnCurve(b) /\ DayStartOK(b.port)
  BY DEF Accounted, Historical
<1>5. x.bar = t /\ x.equity = Equity(c.port, bar.close)
  BY DEF PointOf
<1>6. x.equity \in Int
  <2>1. IsAccount(c.port)
    BY <1>1 DEF AfterBar, Accounted
  <2>2. bar.close \in Int
    BY BarIsRecord
  <2> QED  BY <1>5, <2>1, <2>2, EquityIsInt
<1>7. c.port.curve = Append(b.port.curve, x) /\ c.port.day = Day(t)
  BY <1>1 DEF AfterBar, Recoverable
<1>8. c.port.dayStart = IF b.port.day = 0 \/ b.port.day = Day(t) THEN b.port.dayStart
                        ELSE IF b.port.curve = <<>> THEN c.port.dayStart
                             ELSE Last(b.port.curve).equity
  BY <1>1 DEF AfterBar
<1>9. c.port.peak = Max2(b.port.peak, x.equity)
  BY <1>1, <1>5 DEF AfterBar
<1>10. JustifiedQueue(c, t)
  BY <1>1 DEF AfterBar
<1> HIDE DEF x
<1>11. MovesTo(b.port, c.port, x, t)
  BY <1>5, <1>7, <1>8 DEF MovesTo
<1>12. OnCurve(c)
  BY <1>2, <1>3, <1>4, <1>11, CurveMoves
<1>13. DayStartOK(c.port)
  BY <1>3, <1>4, <1>11, DayStartMoves
<1>14. c.port.peak = HistoricalPeak(c.port)
  <2>1. HistoricalPeak(c.port) = Max2(HistoricalPeak(b.port), x.equity)
    BY <1>4, <1>6, <1>7, PeakGrows
  <2> QED  BY <1>9, <2>1 DEF Historical
<1> QED  BY <1>2, <1>10, <1>12, <1>13, <1>14 DEF Historical, c

LEMMA BlankBookHistorical == Historical(BlankBook)
<1>1. /\ BlankBook.port = EmptyPortfolio /\ BlankBook.pending = {}
      /\ EmptyPortfolio.curve = <<>> /\ EmptyPortfolio.day = 0
      /\ EmptyPortfolio.peak = InitialBalance /\ EmptyPortfolio.dayStart = InitialBalance
  BY DEF BlankBook, EmptyPortfolio
<1>2. OnCurve(BlankBook)
  BY <1>1 DEF OnCurve
<1>3. DayStartOK(EmptyPortfolio)
  BY <1>1 DEF DayStartOK, EarlierDays
<1>4. HistoricalPeak(EmptyPortfolio) = InitialBalance
  <2> DEFINE S == {InitialBalance} \cup {EmptyPortfolio.curve[i].equity :
                                           i \in DOMAIN EmptyPortfolio.curve}
  <2>1. S = {InitialBalance}
    BY <1>1
  <2>2. Max({InitialBalance}) = InitialBalance
    <3>1. \A y \in {InitialBalance} : y \in Int /\ InitialBalance >= y
      BY BalanceAssumption
    <3> QED  BY <3>1, MaxIs
  <2> QED  BY <2>1, <2>2 DEF HistoricalPeak
<1>5. JustifiedQueue(BlankBook, BlankBook.watermark)
  BY <1>1 DEF JustifiedQueue
<1> QED  BY <1>1, <1>2, <1>3, <1>4, <1>5 DEF Historical

\* A reload gives back a book that can be reloaded.
LEMMA Reloaded ==
  ASSUME NEW payload, IsBook(payload.book), Recoverable(payload.book)
  PROVE  Restore(payload) = payload.book
<1>1. PICK q : q = payload.lastQuality
  OBVIOUS
<1>2. /\ Serialise(payload.book, q).book = payload.book
      /\ Restore(Serialise(payload.book, q)) = payload.book
  BY RoundTrip
<1> QED  BY <1>2 DEF Restore

\* The inductive invariant: what the file holds can be reloaded.
BothHistorical ==
  /\ Reconciled(book) /\ Historical(book)
  /\ file.status = "complete" =>
       /\ Reconciled(file.payload.book) /\ Historical(file.payload.book)
       /\ Recoverable(file.payload.book)

LEMMA NextHistorical ==
  ASSUME TypeOK, Recoverable(book), BothHistorical, [Next]_vars
  PROVE  BothHistorical'
<1>1. CASE Start
  <2>1. CASE file.status = "complete"
    <3>1. /\ IsBook(file.payload.book) /\ Recoverable(file.payload.book)
          /\ Reconciled(file.payload.book) /\ Historical(file.payload.book)
          /\ book' = Restore(file.payload) /\ file' = file
      BY <1>1, <2>1 DEF Start, TypeOK, FileOK, BookOK, BothHistorical
    <3>2. book' = file.payload.book
      BY <3>1, Reloaded
    <3> QED  BY <3>1, <3>2 DEF BothHistorical
  <2>2. CASE file.status # "complete"
    <3>1. book' = BlankBook /\ file'.status = "absent"
      BY <1>1, <2>2 DEF Start, AbsentFile
    <3> QED  BY <3>1, BlankBookReconciled, BlankBookHistorical DEF BothHistorical
  <2> QED  BY <2>1, <2>2
<1>2. CASE ProcessNext
  <2>1. PICK quality : book' = ProcessBar(book, feed[NextBar], NextBar, proc.enabled,
                                          quality, NextBar - proc.lo >= Warmup)
    BY <1>2 DEF ProcessNext
  <2>2. NextBar \in Nat /\ book.watermark < NextBar /\ feed[NextBar] \in Bars
    BY <1>2, NextBarIsNext DEF ProcessNext
  <2>3. IsBook(book) /\ Reconciled(book) /\ Historical(book) /\ Accounted(book, NoPast)
    BY DEF TypeOK, BookOK, BothHistorical, Reconciled
  <2>4. Reconciled(book') /\ Historical(book')
    BY <2>1, <2>2, <2>3, ProcessBarReconciled, ProcessBarHistorical
  <2>5. file' = file
    BY <1>2 DEF ProcessNext
  <2> QED  BY <2>4, <2>5 DEF BothHistorical
<1>3. CASE ReplaceFile
  <2>1. /\ book' = book /\ file'.status = "complete"
        /\ file'.payload = Serialise(book, lastQuality)
    BY <1>3 DEF ReplaceFile, CompleteFile
  <2>2. IsBook(book) /\ Reconciled(book) /\ Historical(book)
    BY DEF TypeOK, BookOK, BothHistorical
  <2>3. file'.payload.book = book
    BY <2>1, <2>2, RoundTrip
  <2> QED  BY <2>1, <2>2, <2>3 DEF BothHistorical
<1>4. CASE Stop \/ Crash
  <2>1. book' = BlankBook /\ file' = file
    BY <1>4 DEF Stop, Crash, Lose
  <2> QED  BY <2>1, BlankBookReconciled, BlankBookHistorical DEF BothHistorical
<1>5. CASE Damage \/ Reset
  <2>1. book' = book /\ file'.status # "complete"
    BY <1>5 DEF Damage, Reset, DamagedFile, AbsentFile
  <2> QED  BY <2>1 DEF BothHistorical
<1>6. CASE \/ Publish \/ BeginReplay \/ BeginLive \/ RefreshFails \/ EndCatchUp \/ OpenTmp
          \/ UNCHANGED vars
  <2>1. book' = book /\ file' = file
    BY <1>6 DEF Publish, BeginReplay, BeginLive, RefreshFails, EndCatchUp, OpenTmp, vars
  <2> QED  BY <2>1 DEF BothHistorical
<1> QED
  BY <1>1, <1>2, <1>3, <1>4, <1>5, <1>6 DEF Next

\* As long as every book can be reloaded, both books stay historical.
LEMMA AlwaysHistorical == Spec /\ []Recoverable(book) => []BothHistorical
<1>1. Init => BothHistorical
  BY BlankBookReconciled, BlankBookHistorical DEF Init, BothHistorical, AbsentFile
<1>2. TypeOK /\ Recoverable(book) /\ BothHistorical /\ [Next]_vars => BothHistorical'
  BY NextHistorical
<1> QED  BY <1>1, <1>2, TypeCorrect, PTL DEF Spec

\* As long as every book can be reloaded -- its baselines positive, its histories
\* within the limits of the file -- the drawdown peak and the daily-loss baseline are
\* those of the whole equity curve, after any number of crashes and reloads
\* (record_snapshot, _roll_day, restore_risk_baselines).
THEOREM BaselinesAlwaysMatch == Spec /\ []Recoverable(book) => []BaselinesMatchHistory
<1>1. BothHistorical => BaselinesMatchHistory
  BY DEF BothHistorical, Historical, DayStartOK, BaselinesMatchHistory
<1> QED  BY <1>1, AlwaysHistorical, PTL

\* Under the same condition a queued order -- also one that waited in the file for
\* the next process -- was sized on the last bar processed within the portfolio
\* risk budget, and not in a drawdown beyond the limit (_decide_on_bar,
\* RiskEngine.evaluate).
THEOREM QueuedOrderAlwaysJustified == Spec /\ []Recoverable(book) => []QueuedOrderJustified
<1>1. BothHistorical => QueuedOrderJustified
  BY DEF BothHistorical, Historical, JustifiedQueue, DrawdownReaches, QueuedOrderJustified
<1> QED  BY <1>1, AlwaysHistorical, PTL

---------------------------------------------------------------------------
(* Durable history *)

\* The list t continues the list s, and the book c the book b.
Continues(t, s) == \A i \in DOMAIN s : i \in DOMAIN t /\ t[i] = s[i]
Carries(c, b) ==
  /\ b.watermark <= c.watermark
  /\ Continues(c.port.trades, b.port.trades) /\ Continues(c.port.curve, b.port.curve)

\* What is in memory goes on from what is in the file.
MemoryCarriesFile ==
  proc # Down /\ file.status = "complete" => Carries(book, file.payload.book)

LEMMA ContinuesIsPrefix ==
  ASSUME NEW s, IsSeq(s), NEW t, IsSeq(t), Continues(t, s)
  PROVE  IsPrefix(s, t)
<1>1. PICK m \in Nat, n \in Nat : /\ m = Len(s) /\ DOMAIN s = 1 .. m
                                  /\ n = Len(t) /\ DOMAIN t = 1 .. n
  BY DEF IsSeq
<1>2. m <= n
  <2>1. CASE m = 0
    BY <2>1
  <2>2. CASE m # 0
    <3>1. m \in 1 .. m
      BY <2>2
    <3>2. m \in 1 .. n
      BY <1>1, <3>1 DEF Continues
    <3> QED  BY <3>2
  <2> QED  BY <2>1, <2>2
<1>3. SubSeq(s, 1, m) = [i \in 1 .. m |-> s[i]] /\ SubSeq(t, 1, m) = [i \in 1 .. m |-> t[i]]
  OBVIOUS
<1>4. \A i \in 1 .. m : t[i] = s[i]
  BY <1>1 DEF Continues
<1>5. SubSeq(s, 1, m) = SubSeq(t, 1, m)
  BY <1>3, <1>4
<1> QED  BY <1>1, <1>2, <1>5 DEF IsPrefix

LEMMA CarriesItself ==
  ASSUME NEW b, IsBook(b)
  PROVE  Carries(b, b)
<1>1. b.watermark <= b.watermark
  BY DEF IsBook, IsBookAt
<1> QED  BY <1>1 DEF Carries, Continues

\* One bar continues both histories.
LEMMA ProcessBarCarries ==
  ASSUME NEW b, NEW bar \in Bars, NEW t \in Nat, IsBook(b), b.watermark < t,
         NEW enabled, NEW quality, NEW warm, Accounted(b, NoPast), Recoverable(b),
         NEW a, IsBook(a), Carries(b, a)
  PROVE  Carries(ProcessBar(b, bar, t, enabled, quality, warm), a)
<1> DEFINE c == ProcessBar(b, bar, t, enabled, quality, warm)
           closed == SubSeq(c.port.trades, Len(b.port.trades) + 1, Len(c.port.trades))
           x == PointOf(c.port, t, bar.close)
<1>1. AfterBar(b, c, bar, t, NoPast)
  BY ProcessBarAccounted, NoPastIsPast
<1>2. c.watermark = t
  BY ProcessBarKeepsBook
<1> HIDE DEF c
<1>3. a.watermark <= c.watermark
  BY <1>2 DEF Carries, IsBook, IsBookAt
<1>4. c.port.trades = b.port.trades \o closed /\ c.port.curve = Append(b.port.curve, x)
  BY <1>1 DEF AfterBar, Recoverable
<1>5. IsSeq(b.port.trades) /\ IsSeq(c.port.trades) /\ IsCurve(b.port.curve)
  BY <1>1 DEF AfterBar, Accounted, IsAccount
<1>6. Len(b.port.trades) \in Nat
  BY <1>5 DEF IsSeq
<1>7. PICK n : IsList(closed, n)
  BY <1>5, <1>6, PartIsList
<1> HIDE DEF closed, x
<1>8. Continues(c.port.trades, b.port.trades)
  <2>1. Joined(b.port.trades, closed, n, c.port.trades)
    BY <1>4, <1>5, <1>7, Appended
  <2>2. PICK m \in Nat : /\ DOMAIN b.port.trades = 1 .. m /\ DOMAIN c.port.trades = 1 .. m + n
                         /\ \A i \in 1 .. m : c.port.trades[i] = b.port.trades[i]
    BY <2>1 DEF Joined
  <2>3. \A i \in 1 .. m : i \in 1 .. m + n
    BY <1>7 DEF IsList
  <2> QED  BY <2>2, <2>3 DEF Continues
<1>9. Continues(c.port.curve, b.port.curve)
  <2>1. PICK m : OnePointMore(b.port.curve, x, c.port.curve, m)
    BY <1>4, <1>5, PointAdded
  <2>2. \A i \in 1 .. m : i \in 1 .. m + 1
    BY <2>1 DEF OnePointMore
  <2> QED  BY <2>1, <2>2 DEF OnePointMore, Continues
<1>10. Carries(c, a)
  BY <1>3, <1>8, <1>9 DEF Carries, Continues
<1> QED  BY <1>10 DEF c

LEMMA NextCarries ==
  ASSUME TypeOK, Recoverable(book), BothHistorical, MemoryCarriesFile, [Next]_vars
  PROVE  MemoryCarriesFile'
<1>1. CASE Start
  <2>1. CASE file.status = "complete"
    <3>1. /\ IsBook(file.payload.book) /\ Recoverable(file.payload.book)
          /\ book' = Restore(file.payload) /\ file' = file
      BY <1>1, <2>1 DEF Start, TypeOK, FileOK, BookOK, BothHistorical
    <3>2. book' = file'.payload.book /\ IsBook(book')
      BY <3>1, Reloaded
    <3> QED  BY <3>2, CarriesItself DEF MemoryCarriesFile
  <2>2. CASE file.status # "complete"
    BY <1>1, <2>2 DEF Start, AbsentFile, MemoryCarriesFile
  <2> QED  BY <2>1, <2>2
<1>2. CASE ProcessNext
  <2>1. PICK quality : book' = ProcessBar(book, feed[NextBar], NextBar, proc.enabled,
                                          quality, NextBar - proc.lo >= Warmup)
    BY <1>2 DEF ProcessNext
  <2>2. NextBar \in Nat /\ book.watermark < NextBar /\ feed[NextBar] \in Bars
    BY <1>2, NextBarIsNext DEF ProcessNext
  <2>3. IsBook(book) /\ Accounted(book, NoPast)
    BY DEF TypeOK, BookOK, BothHistorical, Reconciled
  <2>4. file' = file /\ proc # Down
    BY <1>2, Phases DEF ProcessNext, BarWaiting
  <2>5. ASSUME file.status = "complete" PROVE Carries(book', file.payload.book)
    <3>1. IsBook(file.payload.book) /\ Carries(book, file.payload.book)
      BY <2>4, <2>5 DEF TypeOK, FileOK, BookOK, MemoryCarriesFile
    <3> QED  BY <2>1, <2>2, <2>3, <3>1, ProcessBarCarries
  <2> QED  BY <2>4, <2>5 DEF MemoryCarriesFile
<1>3. CASE ReplaceFile
  <2>1. book' = book /\ file'.payload = Serialise(book, lastQuality)
    BY <1>3 DEF ReplaceFile, CompleteFile
  <2>2. IsBook(book)
    BY DEF TypeOK, BookOK
  <2>3. file'.payload.book = book
    BY <2>1, <2>2, RoundTrip
  <2> QED  BY <2>1, <2>2, <2>3, CarriesItself DEF MemoryCarriesFile
<1>4. CASE Stop \/ Crash
  BY <1>4 DEF Stop, Crash, Lose, MemoryCarriesFile
<1>5. CASE Damage \/ Reset
  BY <1>5 DEF Damage, Reset, DamagedFile, AbsentFile, MemoryCarriesFile
<1>6. CASE \/ Publish \/ BeginReplay \/ BeginLive \/ RefreshFails \/ EndCatchUp \/ OpenTmp
          \/ UNCHANGED vars
  <2>1. book' = book /\ file' = file
    BY <1>6 DEF Publish, BeginReplay, BeginLive, RefreshFails, EndCatchUp, OpenTmp, vars
  <2>2. proc = Down => proc' = Down
    BY <1>6, Phases DEF Publish, BeginReplay, BeginLive, RefreshFails, EndCatchUp, OpenTmp, vars
  <2> QED  BY <2>1, <2>2 DEF MemoryCarriesFile
<1> QED
  BY <1>1, <1>2, <1>3, <1>4, <1>5, <1>6 DEF Next

\* A step that leaves a file where there was one writes the history on.
LEMMA StepCarriesFile ==
  ASSUME TypeOK, Recoverable(book), BothHistorical, BothHistorical', MemoryCarriesFile,
         [Next]_vars, file.status = "complete", file'.status = "complete"
  PROVE  LET old == file.payload.book
             new == file'.payload.book
         IN  /\ old.watermark <= new.watermark
             /\ IsPrefix(old.port.trades, new.port.trades)
             /\ IsPrefix(old.port.curve, new.port.curve)
<1> DEFINE old == file.payload.book
           new == file'.payload.book
<1>1. IsBook(old)
  BY DEF TypeOK, FileOK, BookOK
<1>2. Carries(new, old)
  <2>1. CASE ReplaceFile
    <3>1. file'.payload = Serialise(book, lastQuality) /\ proc # Down
      BY <2>1, Phases DEF ReplaceFile, CompleteFile
    <3>2. IsBook(book)
      BY DEF TypeOK, BookOK
    <3>3. new = book
      BY <3>1, <3>2, RoundTrip
    <3> QED  BY <3>1, <3>3 DEF MemoryCarriesFile
  <2>2. CASE ~ReplaceFile
    <3>1. ~(Damage \/ Reset)
      BY DEF Damage, Reset, DamagedFile, AbsentFile
    <3>2. CASE Start
      BY <1>1, <3>2, CarriesItself DEF Start
    <3>3. CASE \/ Publish \/ BeginReplay \/ BeginLive \/ RefreshFails \/ ProcessNext
              \/ EndCatchUp \/ OpenTmp \/ Stop \/ Crash \/ UNCHANGED vars
      <4>1. file' = file
        BY <3>3 DEF Publish, BeginReplay, BeginLive, RefreshFails, ProcessNext,
                    EndCatchUp, OpenTmp, Stop, Crash, vars
      <4> QED  BY <1>1, <4>1, CarriesItself
    <3> QED  BY <2>2, <3>1, <3>2, <3>3 DEF Next
  <2> QED  BY <2>1, <2>2
<1>3. /\ IsSeq(old.port.trades) /\ IsSeq(old.port.curve)
      /\ IsSeq(new.port.trades) /\ IsSeq(new.port.curve)
  BY DEF BothHistorical, Reconciled, Accounted, IsAccount, IsCurve
<1> HIDE DEF old, new
<1>4. /\ IsPrefix(old.port.trades, new.port.trades)
      /\ IsPrefix(old.port.curve, new.port.curve)
  BY <1>2, <1>3, ContinuesIsPrefix DEF Carries
<1>5. old.watermark <= new.watermark
  BY <1>2 DEF Carries
<1> QED  BY <1>4, <1>5 DEF old, new

\* As long as every book can be reloaded, no write takes back what the file holds:
\* the watermark never moves back, and the trades and the equity curve only grow at
\* their end, whatever process writes and wherever the one before it died
\* (_persist, _serialise_state, _load_from_snapshot).
THEOREM DurableHistoryAlwaysGrows ==
  Spec /\ []Recoverable(book) => DurableHistoryGrows
<1>1. Init => MemoryCarriesFile
  BY DEF Init, MemoryCarriesFile
<1>2. TypeOK /\ Recoverable(book) /\ BothHistorical /\ MemoryCarriesFile /\ [Next]_vars
        => MemoryCarriesFile'
  BY NextCarries
<1>3. TypeOK /\ Recoverable(book) /\ BothHistorical /\ BothHistorical' /\ MemoryCarriesFile
        /\ [Next]_vars =>
        [file.status = "complete" /\ file'.status = "complete" =>
              LET old == file.payload.book
                  new == file'.payload.book
              IN  /\ old.watermark <= new.watermark
                  /\ IsPrefix(old.port.trades, new.port.trades)
                  /\ IsPrefix(old.port.curve, new.port.curve)]_vars
  <2>1. ASSUME TypeOK, Recoverable(book), BothHistorical, BothHistorical', MemoryCarriesFile,
               [Next]_vars, file.status = "complete", file'.status = "complete"
        PROVE  /\ file.payload.book.watermark <= file'.payload.book.watermark
               /\ IsPrefix(file.payload.book.port.trades, file'.payload.book.port.trades)
               /\ IsPrefix(file.payload.book.port.curve, file'.payload.book.port.curve)
    BY <2>1, StepCarriesFile
  <2> QED  BY <2>1
<1> QED
  BY <1>1, <1>2, <1>3, TypeCorrect, AlwaysHistorical, PTL DEF Spec, DurableHistoryGrows

---------------------------------------------------------------------------
(* Restarts are invisible.                                                    *)
(*                                                                            *)
(* The conditions.  Each is needed: another setting of the switch or another  *)
(* grade decides a bar differently the second time, and a live frame that     *)
(* begins after the first bar counts its warm-up from there.                  *)

Steady ==
  /\ \A a, b \in Switch : a = b
  /\ \A a, b \in Grades : a = b
  /\ OmitGrade \subseteq {FALSE}
  /\ MaxBars <= Window

AllRecoverable == \A t \in DOMAIN ledger : Recoverable(ledger[t])

---------------------------------------------------------------------------
(* The inductive invariant. *)

\* Every pass takes the history from its first bar, with the grade of the feed.
WholeFrame(job) == job.phase = "catchup" => job.lo = 1 /\ job.grade \in Grades

WholeFrames == WholeFrame(proc) /\ (proc.phase = "saving" => WholeFrame(proc.back))

\* The book after bar number t, made of the book before it.
Follows(b, a, bar, t) ==
  \E enabled \in Switch, grade \in Grades :
    b = ProcessBar(a, bar, t, enabled, grade, t - 1 >= Warmup)

\* The ledger is one run over the bars published so far.
LedgerIsRun ==
  /\ \E n \in 0 .. Len(feed) : DOMAIN ledger = 0 .. n
  /\ ledger = [t \in DOMAIN ledger |-> ledger[t]]
  /\ ledger[0] = BlankBook
  /\ \A t \in DOMAIN ledger : IsBook(ledger[t]) /\ ledger[t].watermark = t
  /\ \A t \in DOMAIN ledger \ {0} : Follows(ledger[t], ledger[t - 1], feed[t], t)

InLedger(b) == b.watermark \in DOMAIN ledger /\ b = ledger[b.watermark]

BooksInLedger ==
  InLedger(book) /\ (file.status = "complete" => InLedger(file.payload.book))

HInv == WholeFrames /\ (AllRecoverable => LedgerIsRun /\ BooksInLedger)

---------------------------------------------------------------------------
(* The ledger. *)

\* What is recorded stays recorded.
LEMMA LedgerKeeps ==
  ASSUME RecordFirst
  PROVE  /\ DOMAIN ledger' = DOMAIN ledger \cup {book'.watermark}
         /\ \A t \in DOMAIN ledger : ledger'[t] = ledger[t]
         /\ ledger' = [t \in DOMAIN ledger' |-> ledger'[t]]
         /\ AllRecoverable' => AllRecoverable
<1>1. /\ DOMAIN ledger' = DOMAIN ledger \cup {book'.watermark}
      /\ \A t \in DOMAIN ledger : ledger'[t] = ledger[t]
      /\ ledger' = [t \in DOMAIN ledger' |-> ledger'[t]]
  BY DEF RecordFirst
<1>2. AllRecoverable' => AllRecoverable
  BY <1>1 DEF AllRecoverable
<1> QED  BY <1>1, <1>2

\* Nothing is recorded for a bar that has its book already.
LEMMA LedgerUnchanged ==
  ASSUME RecordFirst, LedgerIsRun, book'.watermark \in DOMAIN ledger
  PROVE  ledger' = ledger
  BY DEF RecordFirst, LedgerIsRun

\* A process that catches up takes the bar after the watermark, from the first
\* bar of the history on (catch_up).
LEMMA NextBarFollows ==
  ASSUME Steady, TypeOK, WholeFrames, ProcessNext
  PROVE  /\ NextBar = book.watermark + 1 /\ NextBar \in 1 .. Len(feed)
         /\ feed[NextBar] \in Bars
         /\ Follows(book', book, feed[NextBar], NextBar)
         /\ IsBook(book') /\ book'.watermark = NextBar
<1>1. /\ NextBar \in Nat \ {0} /\ book.watermark < NextBar /\ NextBar <= Len(feed)
      /\ feed[NextBar] \in Bars /\ proc \in CatchUpJobs
  BY NextBarIsNext DEF ProcessNext
<1>2. proc.phase = "catchup" /\ proc.lo = 1 /\ proc.grade \in Grades /\ proc.enabled \in Switch
  BY <1>1 DEF ProcessNext, BarWaiting, WholeFrames, WholeFrame, CatchUpJobs
<1>3. IsBook(book) /\ book.watermark \in Nat
  BY DEF TypeOK, BookOK, IsBook, IsBookAt
<1>4. NextBar = book.watermark + 1 /\ Len(feed) \in Nat
  BY <1>2, <1>3 DEF NextBar, Max2, TypeOK, FeedOK
<1>5. proc.grade \in KnownGrades /\ proc.grade # "NONE"
  BY <1>2, SessionAssumption DEF KnownGrades
<1>6. book' = ProcessBar(book, feed[NextBar], NextBar, proc.enabled, proc.grade,
                         NextBar - 1 >= Warmup)
  BY <1>2, <1>5 DEF ProcessNext
<1>7. IsBook(book') /\ book'.watermark = NextBar
  BY <1>1, <1>3, <1>6, ProcessBarKeepsBook
<1> QED  BY <1>1, <1>2, <1>4, <1>6, <1>7 DEF Follows

\* The bar is new to the ledger, or the book is the one recorded for it.
LEMMA BarIsLedgered ==
  ASSUME Steady, TypeOK, WholeFrames, LedgerIsRun, InLedger(book), ProcessNext, RecordFirst
  PROVE  /\ LedgerIsRun' /\ InLedger(book)'
         /\ \/ ledger' = ledger
            \/ /\ DOMAIN ledger = 0 .. NextBar - 1
               /\ book' = ledger'[NextBar]
               /\ ledger[NextBar - 1] = book
<1> DEFINE t == NextBar
<1>1. /\ t = book.watermark + 1 /\ t \in 1 .. Len(feed)
      /\ Follows(book', book, feed[t], t)
      /\ IsBook(book') /\ book'.watermark = t
  BY NextBarFollows
<1>2. feed' = feed
  BY DEF ProcessNext
<1>3. PICK n \in 0 .. Len(feed) : DOMAIN ledger = 0 .. n
  BY DEF LedgerIsRun
<1>4. /\ Len(feed) \in Nat /\ n \in Nat /\ t \in Nat
      /\ book.watermark \in 0 .. n /\ book = ledger[t - 1] /\ t - 1 \in DOMAIN ledger
  BY <1>1, <1>3 DEF TypeOK, FeedOK, InLedger
<1>5. /\ DOMAIN ledger' = DOMAIN ledger \cup {t}
      /\ \A s \in DOMAIN ledger : ledger'[s] = ledger[s]
      /\ ledger' = [s \in DOMAIN ledger' |-> ledger'[s]]
  BY <1>1, LedgerKeeps
<1> HIDE DEF t
<1>6. CASE t \in DOMAIN ledger
  <2>1. ledger' = ledger
    BY <1>1, <1>6, LedgerUnchanged
  <2>2. LedgerIsRun'
    BY <1>2, <2>1 DEF LedgerIsRun, Follows
  <2>3. Follows(ledger[t], book, feed[t], t)
    BY <1>1, <1>4, <1>6 DEF LedgerIsRun
  <2>4. book' = ledger[t]
    BY <1>1, <2>3 DEF Follows, Steady
  <2> QED  BY <1>1, <1>6, <2>1, <2>2, <2>4 DEF InLedger
<1>7. CASE t \notin DOMAIN ledger
  <2>1. t = n + 1
    BY <1>3, <1>4, <1>7
  <2>2. DOMAIN ledger' = 0 .. t /\ t \in 0 .. Len(feed')
    BY <1>1, <1>2, <1>3, <1>4, <1>5, <2>1
  <2>3. ledger'[t] = book'
    BY <1>1, <1>7, <2>2 DEF RecordFirst
  <2>4. \A s \in DOMAIN ledger' : IsBook(ledger'[s]) /\ ledger'[s].watermark = s
    BY <1>1, <1>5, <2>3 DEF LedgerIsRun
  <2>5. ASSUME NEW s \in DOMAIN ledger' \ {0}
        PROVE  Follows(ledger'[s], ledger'[s - 1], feed'[s], s)
    <3>1. CASE s = t
      BY <1>1, <1>2, <1>4, <1>5, <2>3, <3>1
    <3>2. CASE s # t
      <4>1. s \in DOMAIN ledger \ {0} /\ s - 1 \in DOMAIN ledger
        BY <1>3, <1>5, <3>2
      <4> QED  BY <1>2, <1>5, <4>1 DEF LedgerIsRun
    <3> QED  BY <3>1, <3>2
  <2>6. 0 \in DOMAIN ledger /\ ledger'[0] = BlankBook
    BY <1>3, <1>5 DEF LedgerIsRun
  <2>7. LedgerIsRun'
    BY <1>5, <2>2, <2>4, <2>5, <2>6 DEF LedgerIsRun
  <2>8. DOMAIN ledger = 0 .. t - 1
    BY <1>3, <1>4, <2>1
  <2>9. InLedger(book)'
    <3>1. t \in DOMAIN ledger' /\ book'.watermark = t
      BY <1>1, <1>5
    <3> QED  BY <3>1, <2>3 DEF InLedger
  <2> QED  BY <1>4, <2>3, <2>7, <2>8, <2>9 DEF t
<1> QED  BY <1>6, <1>7

---------------------------------------------------------------------------
(* The steps. *)

\* Where the bar a step leaves in memory has its book, nothing is recorded.
LEMMA StepWithoutBar ==
  ASSUME LedgerIsRun, RecordFirst, book'.watermark \in DOMAIN ledger,
         feed' = feed \/ (\E bar \in Bars : feed' = Append(feed, bar)), TypeOK
  PROVE  ledger' = ledger /\ LedgerIsRun'
<1>1. ledger' = ledger
  BY LedgerUnchanged
<1>2. Len(feed) \in Nat /\ feed \in Seq(Bars)
  BY DEF TypeOK, FeedOK
<1>3. PICK n \in 0 .. Len(feed) : DOMAIN ledger = 0 .. n
  BY DEF LedgerIsRun
<1>4. n \in 0 .. Len(feed') /\ \A t \in DOMAIN ledger \ {0} : feed'[t] = feed[t]
  <2>1. CASE feed' = feed
    BY <1>3, <2>1
  <2>2. CASE \E bar \in Bars : feed' = Append(feed, bar)
    BY <1>2, <1>3, <2>2
  <2> QED  BY <2>1, <2>2
<1>5. LedgerIsRun'
  BY <1>1, <1>3, <1>4 DEF LedgerIsRun, Follows
<1> QED  BY <1>1, <1>5

\* The blank book is the one before the first bar.
LEMMA BlankInLedger ==
  ASSUME LedgerIsRun
  PROVE  InLedger(BlankBook)
<1>1. BlankBook.watermark = 0 /\ 0 \in DOMAIN ledger
  BY DEF BlankBook, LedgerIsRun
<1> QED  BY <1>1 DEF InLedger, LedgerIsRun

\* Every pass begins at the first bar, with the one grade of the feed.
LEMMA NextWholeFrames ==
  ASSUME Steady, TypeOK, WholeFrames, [Next]_vars
  PROVE  WholeFrames'
<1>1. CASE Start \/ Stop \/ Crash
  BY <1>1 DEF Start, Stop, Crash, Lose, Idle, Down, WholeFrames, WholeFrame
<1>2. CASE BeginReplay
  <2>1. PICK grade \in Grades, every \in PersistEvery :
          proc' = CatchUp(proc.enabled, 1, Len(feed), grade, every, FALSE)
    BY <1>2 DEF BeginReplay, Steady
  <2> QED  BY <2>1 DEF CatchUp, WholeFrames, WholeFrame
<1>3. CASE BeginLive
  <2>1. Max2(1, Len(feed) - Window + 1) = 1
    BY SessionAssumption DEF Steady, Max2, TypeOK, FeedOK
  <2> QED  BY <1>3, <2>1 DEF BeginLive, CatchUp, WholeFrames, WholeFrame
<1>4. CASE RefreshFails
  BY <1>4 DEF RefreshFails, Saving, WholeFrames, WholeFrame
<1>5. CASE ProcessNext
  <2>1. proc \in CatchUpJobs /\ proc.phase = "catchup"
    BY <1>5, CatchingUp DEF ProcessNext, BarWaiting
  <2> DEFINE done == [proc EXCEPT !.unsaved = @ + 1, !.outputs = TRUE]
             saved == [done EXCEPT !.unsaved = 0]
  <2>2. /\ done.grade = proc.grade /\ saved.grade = proc.grade
        /\ done.lo = proc.lo /\ saved.lo = proc.lo /\ done.phase = "catchup"
    BY <2>1 DEF CatchUpJobs
  <2>3. proc' = done \/ proc' = Saving(saved, FALSE)
    BY <1>5 DEF ProcessNext
  <2> HIDE DEF done, saved
  <2> QED  BY <2>1, <2>2, <2>3 DEF Saving, WholeFrames, WholeFrame
<1>6. CASE EndCatchUp
  BY <1>6 DEF EndCatchUp, Saving, Idle, WholeFrames, WholeFrame
<1>7. CASE OpenTmp \/ ReplaceFile
  <2>1. proc.phase = "saving" /\ (proc' = Saving(proc.back, TRUE) \/ proc' = proc.back)
    BY <1>7 DEF OpenTmp, ReplaceFile
  <2>2. proc.back.phase # "saving"
    BY <2>1, Phases DEF TypeOK, ProcOK
  <2> QED  BY <2>1, <2>2 DEF Saving, WholeFrames, WholeFrame
<1>8. CASE Publish \/ Damage \/ Reset \/ UNCHANGED vars
  BY <1>8 DEF Publish, Damage, Reset, vars, WholeFrames, WholeFrame
<1> QED
  BY <1>1, <1>2, <1>3, <1>4, <1>5, <1>6, <1>7, <1>8 DEF Next

\* What a step may do to memory, file and ledger, while every book can be
\* reloaded: only process_bar adds to the ledger.
LEMMA StepKeepsLedger ==
  ASSUME Steady, TypeOK, WholeFrames, AllRecoverable, LedgerIsRun, BooksInLedger,
         Next, RecordFirst
  PROVE  /\ LedgerIsRun' /\ BooksInLedger'
         /\ ProcessNext \/ ledger' = ledger
<1> USE DEF BooksInLedger
<1>s. ASSUME InLedger(book'), feed' = feed \/ (\E bar \in Bars : feed' = Append(feed, bar))
      PROVE  ledger' = ledger /\ LedgerIsRun' /\ InLedger(book)'
  <2>1. ledger' = ledger /\ LedgerIsRun'
    BY <1>s, StepWithoutBar DEF InLedger
  <2> QED  BY <1>s, <2>1 DEF InLedger
<1>f. ledger' = ledger /\ file' = file =>
        (file.status = "complete" => InLedger(file.payload.book))'
  BY DEF InLedger
<1>1. CASE Start
  <2>1. CASE file.status = "complete"
    <3> DEFINE b == file.payload.book
    <3>1. InLedger(b) /\ IsBook(b) /\ Recoverable(b) /\ book' = Restore(file.payload)
      BY <1>1, <2>1 DEF Start, InLedger, AllRecoverable, LedgerIsRun
    <3>2. Restore(file.payload) = Restore(Serialise(b, "NONE"))
      BY <3>1, RoundTrip DEF Restore
    <3>3. book' = b
      BY <3>1, <3>2, RoundTrip
    <3>4. feed' = feed /\ file' = file
      BY <1>1, <2>1 DEF Start
    <3> QED  BY <3>1, <3>3, <3>4, <1>s, <1>f
  <2>2. CASE file.status # "complete"
    <3>1. book' = BlankBook /\ feed' = feed /\ file'.status = "absent"
      BY <1>1, <2>2 DEF Start, AbsentFile
    <3> QED  BY <3>1, <1>s, BlankInLedger
  <2> QED  BY <2>1, <2>2
<1>2. CASE ProcessNext
  <2>1. LedgerIsRun' /\ InLedger(book)'
    BY <1>2, BarIsLedgered
  <2>2. file' = file
    BY <1>2 DEF ProcessNext
  <2>3. file.status = "complete" => InLedger(file.payload.book)'
    BY <2>2, LedgerKeeps DEF InLedger
  <2> QED  BY <1>2, <2>1, <2>2, <2>3
<1>3. CASE ReplaceFile
  <2>1. /\ book' = book /\ feed' = feed /\ file'.payload = Serialise(book, lastQuality)
    BY <1>3 DEF ReplaceFile, CompleteFile
  <2>2. IsBook(book) /\ Recoverable(book)
    BY DEF InLedger, AllRecoverable, LedgerIsRun
  <2>3. file'.payload.book = book
    BY <2>1, <2>2, RoundTrip
  <2>4. ledger' = ledger /\ LedgerIsRun' /\ InLedger(book)'
    BY <2>1, <1>s
  <2> QED  BY <2>1, <2>3, <2>4 DEF InLedger
<1>4. CASE Stop \/ Crash
  <2>1. book' = BlankBook /\ file' = file /\ feed' = feed
    BY <1>4 DEF Stop, Crash, Lose
  <2> QED  BY <2>1, <1>s, <1>f, BlankInLedger
<1>5. CASE Damage \/ Reset
  <2>1. book' = book /\ file'.status # "complete" /\ feed' = feed
    BY <1>5 DEF Damage, Reset, DamagedFile, AbsentFile
  <2> QED  BY <2>1, <1>s
<1>6. CASE Publish \/ BeginReplay \/ BeginLive \/ RefreshFails \/ EndCatchUp \/ OpenTmp
  <2>1. book' = book /\ file' = file
    BY <1>6 DEF Publish, BeginReplay, BeginLive, RefreshFails, EndCatchUp, OpenTmp
  <2>2. feed' = feed \/ (\E bar \in Bars : feed' = Append(feed, bar))
    BY <1>6 DEF Publish, BeginReplay, BeginLive, RefreshFails, EndCatchUp, OpenTmp
  <2> QED  BY <2>1, <2>2, <1>s, <1>f
<1> QED
  BY <1>1, <1>2, <1>3, <1>4, <1>5, <1>6 DEF Next

\* Every step keeps what ties the session's books to its ledger.
LEMMA NextHInv ==
  ASSUME Steady, TypeOK, HInv, [HNext]_hvars
  PROVE  HInv'
<1>1. CASE HNext
  <2>1. WholeFrames'
    BY <1>1, NextWholeFrames DEF HNext, HInv
  <2>2. AllRecoverable' => LedgerIsRun' /\ BooksInLedger'
    BY <1>1, LedgerKeeps, StepKeepsLedger DEF HNext, HInv
  <2> QED  BY <2>1, <2>2 DEF HInv
<1>2. CASE UNCHANGED hvars
  <2>1. feed' = feed /\ book' = book /\ proc' = proc /\ file' = file /\ ledger' = ledger
    BY <1>2 DEF hvars, vars
  <2> QED  BY <2>1 DEF HInv, WholeFrames, WholeFrame, AllRecoverable, LedgerIsRun,
                       Follows, BooksInLedger, InLedger
<1> QED  BY <1>1, <1>2

\* It holds of a session that has not begun.
LEMMA InitHInv ==
  ASSUME Steady, HInit
  PROVE  HInv
<1>1. proc.phase = "down" /\ feed = <<>> /\ book = BlankBook /\ file.status = "absent"
  BY DEF HInit, Init, Down, AbsentFile
<1>2. WholeFrames
  BY <1>1 DEF WholeFrames, WholeFrame
<1>3. DOMAIN ledger = 0 .. 0 /\ ledger[0] = BlankBook /\ ledger = [t \in DOMAIN ledger |-> ledger[t]]
  BY DEF HInit
<1>4. IsBook(BlankBook) /\ BlankBook.watermark = 0
  BY BlankBookIsBook DEF BlankBook
<1>5. DOMAIN ledger = {0} /\ 0 \in 0 .. Len(feed)
  BY <1>1, <1>3
<1>6. LedgerIsRun
  BY <1>3, <1>4, <1>5 DEF LedgerIsRun
<1>7. BooksInLedger
  BY <1>1, <1>6, BlankInLedger DEF BooksInLedger
<1> QED  BY <1>2, <1>6, <1>7 DEF HInv

\* The history only watches: its specification is the session's.
LEMMA HistoryOnlyWatches == HSpec => Spec
<1>1. HInit => Init
  BY DEF HInit
<1>2. [HNext]_hvars => [Next]_vars
  BY DEF HNext, hvars
<1> QED  BY <1>1, <1>2, PTL DEF HSpec, Spec

\* So it always holds, together with the types of the session.
LEMMA HistoryInvariant ==
  ASSUME Steady
  PROVE  HSpec => []HInv
<1>1. HInit => HInv
  BY InitHInv
<1>2. TypeOK /\ HInv /\ [HNext]_hvars => HInv'
  BY NextHInv
<1> QED  BY <1>1, <1>2, HistoryOnlyWatches, TypeCorrect, PTL DEF HSpec

---------------------------------------------------------------------------
(* The theorems. *)

\* Stopped, crashed, damaged, reset and restarted at any point, the session holds
\* in memory and in its file the books an uninterrupted run computes, bar for
\* bar, as long as every one of them can be reloaded (docs/paper_trading.md 124-131).
THEOREM RestartsAreInvisible ==
  ASSUME Steady
  PROVE  HSpec => [](AllRecoverable => RestartEquivalence)
<1>1. HInv => (AllRecoverable => RestartEquivalence)
  BY DEF HInv, BooksInLedger, InLedger, AllRecoverable, RestartEquivalence
<1> QED  BY <1>1, HistoryInvariant, PTL

\* Every step of the session is a step of the run that never stops, or none.
LEMMA StepIsReplayStep ==
  ASSUME Steady, TypeOK, HInv, AllRecoverable, HNext
  PROVE  [Replay!Next]_(Replay!rvars)
<1>1. WholeFrames /\ LedgerIsRun /\ BooksInLedger /\ Next /\ RecordFirst
  BY DEF HInv, HNext
<1>2. ProcessNext \/ ledger' = ledger
  BY <1>1, StepKeepsLedger
<1>3. CASE ProcessNext /\ ledger' # ledger
  <2> DEFINE t == NextBar
  <2>1. /\ DOMAIN ledger = 0 .. t - 1
        /\ book' = ledger'[t]
        /\ ledger[t - 1] = book
    BY <1>1, <1>3, BarIsLedgered DEF BooksInLedger
  <2>2. /\ t = book.watermark + 1 /\ t \in 1 .. Len(feed)
        /\ Follows(book', book, feed[t], t) /\ book'.watermark = t
    BY <1>1, <1>3, NextBarFollows
  <2> HIDE DEF t
  <2>3. t \in Nat /\ t - 1 \in Nat /\ t - 1 \in DOMAIN ledger /\ t <= Len(feed)
    BY <2>1, <2>2 DEF TypeOK, FeedOK
  <2>4. ledger' = [s \in DOMAIN ledger \cup {t} |->
                     IF s \in DOMAIN ledger THEN ledger[s] ELSE book']
    BY <1>1, <2>2 DEF RecordFirst
  <2>5. PICK enabled \in Switch, grade \in Grades :
          book' = ProcessBar(ledger[t - 1], feed[t], t, enabled, grade, t - 1 >= Warmup)
    BY <2>1, <2>2 DEF Follows
  <2> DEFINE b == ProcessBar(ledger[t - 1], feed[t], t, enabled, grade, t - 1 >= Warmup)
  <2>6. book' = b
    BY <2>5
  <2> HIDE DEF b
  <2>7. DOMAIN ledger \cup {t} = 0 .. t /\ \A s \in 0 .. t : s \in DOMAIN ledger <=> s < t
    BY <2>1, <2>3
  <2>8. ledger' = [s \in 0 .. t |-> IF s < t THEN ledger[s] ELSE b]
    BY <2>4, <2>6, <2>7
  <2>9. feed' = feed
    BY <1>3 DEF ProcessNext
  <2>10. Replay!Process
    BY <2>1, <2>2, <2>8, <2>9 DEF b, Replay!Process
  <2> QED  BY <2>10 DEF Replay!Next
<1>4. CASE ledger' = ledger
  <2>1. feed' = feed \/ \E bar \in Bars : feed' = Append(feed, bar)
    BY <1>1 DEF Next, Publish, Start, BeginReplay, BeginLive, RefreshFails, ProcessNext,
                EndCatchUp, OpenTmp, ReplaceFile, Stop, Crash, Lose, Damage, Reset
  <2> QED  BY <1>4, <2>1 DEF Replay!Next, Replay!Publish, Replay!rvars
<1> QED  BY <1>2, <1>3, <1>4

\* The session implements the run that never stops: processes, crashes, batched
\* writes, damage and resets are invisible in what is first computed for each
\* bar, and no bar is traded twice.
THEOREM SessionImplementsReplay ==
  ASSUME Steady
  PROVE  HSpec /\ []AllRecoverable => ImplementsUninterruptedReplay
<1>1. HInit => Replay!Init
  BY DEF HInit, Init, Replay!Init
<1>2. TypeOK /\ HInv /\ AllRecoverable /\ [HNext]_hvars => [Replay!Next]_(Replay!rvars)
  <2>1. UNCHANGED hvars => UNCHANGED Replay!rvars
    BY DEF hvars, vars, Replay!rvars
  <2> QED  BY <2>1, StepIsReplayStep
<1> QED
  BY <1>1, <1>2, HistoryInvariant, HistoryOnlyWatches, TypeCorrect, PTL
  DEF HSpec, ImplementsUninterruptedReplay, Replay!Spec
=============================================================================
