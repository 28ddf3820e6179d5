----------------------------- MODULE MarketData -----------------------------
(* MarketDataService over one cached series: processes that request bars, the *)
(* payload and manifest files they share, and the vendor that keeps           *)
(* publishing.  A request runs in the steps between which another process, a  *)
(* crash or the clock can come: each read and write of a file, each attempt   *)
(* to download, and the delivery of the result.                               *)
EXTENDS DataQuality

CONSTANTS
  Process,      \* processes that share the cache directory
  Providers,    \* the loaders that may be configured, of {"yahoo", "csv"}
  Series,       \* what the vendor publishes: sequences of kinds, bar 0 first
  FileBars,     \* how many bars have closed at the start; the CSV file holds them
  Supported,    \* widths the configuration enables
  Native,       \* widths Yahoo serves
  Requests,     \* the requests a process may make
  Retention,    \* how many bars back Yahoo serves
  MaxRetries,   \* downloads repeated after the first
  MaxAge,       \* age, in bars, after which a manifest has expired
  MaxRequests,  \* bound: requests in a behaviour
  MaxFaults     \* bound: crashes, corruptions and clearings in a behaviour

Request ==
  [kind : {"historical"}, mode : {"cached", "refresh", "uncached"}, width : Nat,
   from : Nat \cup {Unbounded}, to : Nat \cup {Unbounded}, validate : BOOLEAN]
    \cup [kind : {"latest"}, width : Nat, bars : Nat \ {0}, validate : BOOLEAN]

ASSUME MarketDataAssumption ==
  /\ Providers \subseteq {"yahoo", "csv"} /\ Requests \subseteq Request
  /\ \A kinds \in Series : kinds \in Seq(Kinds) /\ Len(kinds) > FileBars
  /\ Native \subseteq Nat \ {0} /\ Supported \subseteq Nat \ {0}
  /\ \A req \in Requests :  \* one cached series: that of the source bars
       UsableSources(req.width, Native) # {} => BestSource(req.width, Native) = 1
  /\ {FileBars, Retention, MaxRetries, MaxAge, MaxRequests, MaxFaults} \subseteq Nat
  /\ FileBars > 0

VARIABLES
  provider,  \* the configured loader
  series,    \* the kinds of the vendor's bars
  clock,     \* the bar that is forming
  payload,   \* the payload file
  tmp,       \* the temporary file the payload is written to
  manifest,  \* the manifest file
  handle,    \* which of the files a process that is writing has open
  job,       \* the request each process is working on
  answer,    \* what the last step answered a request with, if it did
  requested, \* how many requests were made
  faults     \* how many faults happened

vars == <<provider, series, clock, payload, tmp, manifest, handle, job, answer,
          requested, faults>>

-----------------------------------------------------------------------------
LastBar == Len(series) - 1

(* Files.  A file that was damaged, or written by two processes at once, may  *)
(* be readable and hold rows nobody published.                                *)
Absent == [state |-> "absent", rows |-> {}]
Holding(rows) == [state |-> "whole", rows |-> rows]
Garbled ==
  [state |-> "garbled",
   rows |-> {[t |-> t, again |-> FALSE, closed |-> TRUE, kind |-> "garbage"] :
               t \in 0..LastBar}]
NoManifest == [state |-> "absent", sum |-> {}, at |-> 0]
TornManifest == [state |-> "torn", sum |-> {}, at |-> 0]

\* What an interrupted write leaves.
Partial(rows) == [state |-> "partial", rows |-> rows \ LastRows(rows, 1)]

\* frame_checksum: equal exactly when the rows are.
Checksum(rows) == rows

(* The vendor.  A bar that is reported twice is reported first while it forms. *)
RowsOfBar(t, now) ==
  LET row(again, closed) ==
        [t |-> t, again |-> again, closed |-> closed, kind |-> series[t + 1]]
  IN CASE series[t + 1] = "missing" -> {}
       [] series[t + 1] = "twice" -> {row(FALSE, FALSE), row(TRUE, t < now)}
       [] OTHER -> {row(FALSE, t < now)}
Published(from, to, now) ==
  {row \in UNION {RowsOfBar(t, now) : t \in 0..now} : WithinRequest(row.t, from, to)}

\* CsvProvider: a static file of closed bars.
FileRows(from, to) == {row \in Published(from, to, FileBars) : row.t < FileBars}

\* YahooProvider._check_retention
BeyondRetention(from) == from # Unbounded /\ clock - from > Retention

-----------------------------------------------------------------------------
(* Requests.                                                                  *)
None == [kind |-> "none"]
Idle == [pc |-> "idle", req |-> None, cached |-> {}, seen |-> NoManifest,
         raw |-> {}, source |-> "none", tries |-> 0, at |-> 0]

\* The cache is empty or holds what a session saved while the bar before was
\* forming.
EarlierRows == Coerce(Published(Unbounded, Unbounded, FileBars - 1))
CacheAtStart ==
  \/ payload = Absent /\ manifest = NoManifest
  \/ /\ EarlierRows # {}
     /\ payload = Holding(EarlierRows)
     /\ manifest = [state |-> "whole", sum |-> Checksum(EarlierRows), at |-> FileBars - 1]

Init ==
  /\ provider \in Providers
  /\ series \in Series
  /\ clock = FileBars
  /\ CacheAtStart /\ tmp = Absent
  /\ handle = [p \in Process |-> "none"]
  /\ job = [p \in Process |-> Idle] /\ answer = None
  /\ requested = 0 /\ faults = 0

Files == <<payload, tmp, manifest, handle>>
World == <<provider, series, clock, requested, faults>>

\* Progress of the job of p: the fields it changes.
With(old, changes) ==
  [field \in DOMAIN old |-> IF field \in DOMAIN changes THEN changes[field] ELSE old[field]]
Advance(p, changes) == /\ job' = [job EXCEPT ![p] = With(@, changes)]
                       /\ answer' = None
Finish(p, result) == /\ job' = [job EXCEPT ![p] = Idle]
                     /\ answer' = result

\* _resolve_source_timeframe: Yahoo's bars are resampled, a CSV file is not.
Serves(width) ==
  /\ width \in Supported
  /\ IF provider = "csv" THEN width = 1 ELSE UsableSources(width, Native) # {}
SourceOf(width) == IF provider = "csv" THEN width ELSE BestSource(width, Native)

\* get_historical_data and get_latest_data up to the first effect.
Start(p) ==
  /\ job[p].pc = "idle"
  /\ requested < MaxRequests
  /\ requested' = requested + 1
  /\ \E req \in Requests :
       IF ~Serves(req.width)
       THEN Finish(p, [kind |-> "unavailable"])
       ELSE Advance(p, [req |-> req,
                        pc |-> IF req.kind = "historical" /\ req.mode = "cached"
                               THEN "manifest" ELSE "fetch"])
  /\ UNCHANGED <<provider, series, clock, faults, Files>>

Expired(at) == clock - at > MaxAge

\* MarketDataCache.load up to the expiry test
ReadManifest(p) ==
  /\ job[p].pc = "manifest"
  /\ IF manifest.state = "whole" /\ payload.state # "absent" /\ ~Expired(manifest.at)
     THEN Advance(p, [pc |-> "payload", seen |-> manifest])
     ELSE Advance(p, [pc |-> "fetch"])
  /\ UNCHANGED <<Files, World>>

\* _cache_covers
CacheCovers(rows, from, to) ==
  /\ rows # {}
  /\ from # Unbounded => \E row \in rows : row.t <= from
  /\ to # Unbounded => \E row \in rows : row.t >= to

\* The defect: the payload is trusted without its checksum.
IntactUnchecked(file, sum) == file.state # "absent"

\* The payload counts only when its checksum is the one of the manifest read.
Intact(file, sum) == file.state # "absent" /\ Checksum(file.rows) = sum

ReadPayload(p) ==
  /\ job[p].pc = "payload"
  /\ LET req == job[p].req IN
     IF ~Intact(payload, job[p].seen.sum)
     THEN Advance(p, [pc |-> "fetch", seen |-> NoManifest])
     ELSE IF CacheCovers(payload.rows, req.from, req.to)
     THEN Advance(p, [pc |-> "deliver", seen |-> NoManifest, raw |-> payload.rows,
                      source |-> "cache", at |-> clock])
     ELSE Advance(p, [pc |-> "fetch", seen |-> NoManifest, cached |-> payload.rows])
  /\ UNCHANGED <<Files, World>>

\* What is done with a frame the provider answered with.
Keeps(req) == req.kind = "historical" /\ req.mode # "uncached"
Received(p, rows) ==
  \E merged \in {IF job[p].cached = {} THEN rows ELSE Merge(job[p].cached, rows)} :
     Advance(p, [raw |-> merged, cached |-> {}, source |-> "vendor", at |-> clock,
                 pc |-> IF Keeps(job[p].req) /\ merged # {} THEN "open" ELSE "deliver"])

\* The latest bars are asked for with some to spare for resampling.
Asked(req) ==
  LET factor == Max({1, req.width \div SourceOf(req.width)})
  IN req.bars * factor + factor
Answered(req, all) ==
  IF req.kind = "latest" THEN LastRows(all, Asked(req)) ELSE all
From(req) == IF req.kind = "latest" THEN Unbounded ELSE req.from
To(req) == IF req.kind = "latest" THEN Unbounded ELSE req.to

ReadFile(p) ==
  /\ provider = "csv"
  /\ LET rows == Coerce(FileRows(From(job[p].req), To(job[p].req)))
     IN IF Coerce(FileRows(Unbounded, Unbounded)) = {}
        THEN Finish(p, [kind |-> "failed"])
        ELSE Received(p, Answered(job[p].req, rows))

\* The defect: the attempts start over instead of giving up.
DownloadForever(p) ==
  /\ provider = "yahoo"
  /\ \/ Received(p, Answered(job[p].req,
                     Coerce(Published(From(job[p].req), To(job[p].req), clock))))
     \/ Advance(p, [tries |-> (job[p].tries + 1) % (MaxRetries + 1)])

\* One attempt of YahooProvider._request: an answer, an error no retry helps
\* with, or one that is retried until the attempts are used up.
Download(p) ==
  /\ provider = "yahoo"
  /\ \/ /\ BeyondRetention(From(job[p].req))
        /\ Finish(p, [kind |-> "unavailable"])
     \/ /\ ~BeyondRetention(From(job[p].req))
        /\ \/ Received(p, Answered(job[p].req,
                        Coerce(Published(From(job[p].req), To(job[p].req), clock))))
           \/ Finish(p, [kind |-> "unavailable"])
           \/ /\ job[p].tries < MaxRetries
              /\ Advance(p, [tries |-> job[p].tries + 1])
           \/ /\ job[p].tries >= MaxRetries
              /\ Finish(p, [kind |-> "failed"])

Fetch(p) ==
  /\ job[p].pc = "fetch"
  /\ ReadFile(p) \/ Download(p)
  /\ UNCHANGED <<Files, World>>

-----------------------------------------------------------------------------
(* MarketDataCache.save                                                       *)

\* The temporary file has one name for all processes: opening it truncates
\* what another process may be writing.
OpenTmp(p) ==
  /\ job[p].pc = "open"
  /\ tmp' = Partial(job[p].raw)
  /\ handle' = [handle EXCEPT ![p] = "tmp"]
  /\ Advance(p, [pc |-> "fill"])
  /\ UNCHANGED <<payload, manifest, World>>

\* The end of the write goes to the file that was opened, whatever its name is
\* now.
Completed(file, rows) == IF file = Partial(rows) THEN Holding(rows) ELSE Garbled
FillTmp(p) ==
  /\ job[p].pc = "fill"
  /\ tmp' = IF handle[p] = "tmp" THEN Completed(tmp, job[p].raw) ELSE tmp
  /\ payload' = IF handle[p] = "payload" THEN Completed(payload, job[p].raw) ELSE payload
  /\ handle' = [handle EXCEPT ![p] = "none"]
  /\ Advance(p, [pc |-> "swap"])
  /\ UNCHANGED <<manifest, World>>

\* tmp.replace(path) fails when another process has moved the file.
SwapPayload(p) ==
  /\ job[p].pc = "swap"
  /\ IF tmp = Absent
     THEN /\ Finish(p, [kind |-> "failed"])
          /\ UNCHANGED <<payload, tmp, handle>>
     ELSE /\ payload' = tmp
          /\ tmp' = Absent
          /\ handle' = [q \in Process |-> CASE handle[q] = "tmp" -> "payload"
                                            [] OTHER -> "none"]
          /\ Advance(p, [pc |-> "open_manifest"])
  /\ UNCHANGED <<manifest, World>>

\* write_text truncates the manifest before it writes it.
OpenManifest(p) ==
  /\ job[p].pc = "open_manifest"
  /\ manifest' = TornManifest
  /\ Advance(p, [pc |-> "seal"])
  /\ UNCHANGED <<payload, tmp, handle, World>>

SealManifest(p) ==
  /\ job[p].pc = "seal"
  /\ manifest' = [state |-> "whole", sum |-> Checksum(job[p].raw), at |-> clock]
  /\ Advance(p, [pc |-> "deliver"])
  /\ UNCHANGED <<payload, tmp, handle, World>>

-----------------------------------------------------------------------------
(* Cleaning, resampling, clipping and grading of what was found.              *)
Bars(req, rows) == Resample(rows, req.width)
Clipped(req, bars, now) ==
  IF req.kind = "historical" THEN Slice(bars, req.from, req.to)
  ELSE LastBars(DropFormingBar(bars, req.width, now), req.bars)

\* The request is refused when the grade is FAIL and the policy forbids it.
Refused(req, grade) == req.validate /\ grade = Fail /\ Quality.failOnFail

Deliver(p) ==
  /\ job[p].pc = "deliver"
  /\ \E cleaning \in {CleanOhlcv(job[p].raw)} :
     \E bars \in {Clipped(job[p].req, Bars(job[p].req, cleaning.rows), clock)} :
     \E grade \in {Grade(InOrder(bars), job[p].req.width, cleaning, clock)} :
       Finish(p, IF Refused(job[p].req, grade)
                 THEN [kind |-> "refused"]
                 ELSE [kind |-> "served", req |-> job[p].req, bars |-> bars, grade |-> grade,
                       repaired |-> cleaning.repaired, source |-> job[p].source,
                       at |-> job[p].at, now |-> clock, rows |-> job[p].raw])
  /\ UNCHANGED <<Files, World>>

-----------------------------------------------------------------------------
(* The environment.                                                           *)
Tick ==
  /\ clock < LastBar
  /\ clock' = clock + 1
  /\ answer' = None
  /\ UNCHANGED <<provider, series, Files, job, requested, faults>>

\* A process that stops in the middle of a request; its files stay.
Crash(p) ==
  /\ job[p].pc # "idle"
  /\ Finish(p, None)
  /\ handle' = [handle EXCEPT ![p] = "none"]
  /\ UNCHANGED <<payload, tmp, manifest>>

\* A file damaged on disk.
Corrupt ==
  \/ /\ payload.state = "whole"
     /\ payload' = Garbled
     /\ UNCHANGED <<tmp, manifest, handle>>
  \/ /\ manifest.state = "whole"
     /\ manifest' = TornManifest
     /\ UNCHANGED <<payload, tmp, handle>>

\* MarketDataCache.clear; a handle to a removed file writes to nothing.
Clear ==
  /\ payload # Absent \/ manifest # NoManifest
  /\ payload' = Absent /\ manifest' = NoManifest
  /\ handle' = [p \in Process |-> IF handle[p] = "payload" THEN "none" ELSE handle[p]]
  /\ UNCHANGED tmp

Fault ==
  /\ faults < MaxFaults
  /\ faults' = faults + 1
  /\ \/ (Corrupt \/ Clear) /\ answer' = None /\ UNCHANGED job
     \/ \E p \in Process : Crash(p)
  /\ UNCHANGED <<provider, series, clock, requested>>

Step(p) ==
  \/ ReadManifest(p) \/ ReadPayload(p) \/ Fetch(p) \/ OpenTmp(p) \/ FillTmp(p)
  \/ SwapPayload(p) \/ OpenManifest(p) \/ SealManifest(p) \/ Deliver(p)

Next == Tick \/ Fault \/ \E p \in Process : Start(p) \/ Step(p)

\* A process that has a request runs on: the steps are those of one thread.
Spec == Init /\ [][Next]_vars /\ \A p \in Process : WF_vars(Step(p))

-----------------------------------------------------------------------------
(* Properties.                                                                *)
Served == answer.kind = "served"
Genuine(row) ==
  /\ row.t \in 0..clock
  /\ row.kind = series[row.t + 1]
  /\ row.closed => row.t < clock

\* Whatever crashes, corruptions and interleaved writers leave in the cache, a
\* frame that is served holds only rows the vendor published: a pair whose
\* payload is not the one the manifest was written for is a miss (load).
ServedIsGenuine ==
  Served => \A row \in answer.rows : Genuine(row)

\* A request that went to the vendor is answered with the vendor's bars: within
\* the requested window a cached copy of a bar never survives the download
\* (merge).
DownloadedBarsWin ==
  LET req == answer.req
      window(rows) == {row \in rows : WithinRequest(row.t, req.from, req.to)}
  IN Served /\ req.kind = "historical" /\ answer.source = "vendor" /\ provider = "yahoo" =>
       window(LastOfEach(answer.rows))
         = LastOfEach(Coerce(Published(req.from, req.to, answer.at)))

\* The latest bars contain none that is still forming, unless a bar closed
\* between the download and the check (get_latest_data, _drop_forming_bar).
FormingBarOnlyByRace ==
  Served /\ answer.req.kind = "latest" /\ answer.at = answer.now =>
    \A bar \in answer.bars : /\ WindowEnded(bar, answer.req.width, answer.now)
                              /\ \A row \in bar.parts : row.closed

\* Repairs stay visible: every bar that is served and was repaired is counted
\* in the report the grade came from, also when the bar comes out of the cache
\* (clean_ohlcv, _check_repairs).
RepairsReported ==
  Served =>
    LET served == UNION {bar.parts : bar \in answer.bars}
    IN Cardinality({row \in served : series[row.t + 1] = "wick"}) <= answer.repaired

\* What is served lies within the bounds asked for, each bar once, although
\* the cache holds more and resampling opens windows before the start; a frame
\* out of the cache spans the bounds.
AnswersRequest ==
  Served /\ answer.req.kind = "historical" =>
    /\ \A bar \in answer.bars :
         /\ WithinRequest(bar.open, answer.req.from, answer.req.to)
         /\ \A other \in answer.bars : other.open = bar.open => other = bar
    /\ answer.source = "cache" => CacheCovers(answer.rows, answer.req.from, answer.req.to)

\* Every request ends: with bars, a refusal or an error.  A vendor that keeps
\* failing is given up after the configured attempts (_request).
RequestsEnd == \A p \in Process : job[p].pc # "idle" ~> job[p].pc = "idle"
=============================================================================
