-------------------------- MODULE ValidationStudy --------------------------
(* Validation studies (app/research/study.py) run by several processes over   *)
(* one ledger of sealed windows (holdout.py), one experiment store            *)
(* (experiments.py) and one directory of reports (report.py, context.py).     *)
(* Each step of ValidationStudy.run is an action; the ledger's separate       *)
(* connections are separate actions, so that two studies may interleave       *)
(* between them.  A fault is a crash, an unreachable store or a failed write. *)
EXTENDS Feedback

CONSTANTS Sessions,   \* processes running studies
          Plans,      \* the studies that may be asked for
          Settings,   \* name of a research configuration -> its values
          Histories,  \* name of a data set -> its bars, one for each world
          Blank,      \* a bar to put where a decision must not have looked
          MaxStudies, \* bound on the studies started
          MaxFaults   \* bound on the faults

ASSUME StudyAssumption == MaxStudies \in Nat /\ MaxFaults \in Nat

\* the symbol of a study is that of the data set it runs on
ASSUME InstrumentAssumption == \A p, q \in Plans : p.data = q.data => p.symbol = q.symbol

\* a configuration names its strategies, with weights that are not negative
ASSUME PlanAssumption ==
  \A p \in Plans : /\ p.spec \in DOMAIN Settings /\ FeatureWarmup(p.cfg) \in Nat
                   /\ {"enabled", "weight"} \subseteq DOMAIN p.cfg
                   /\ \A x \in DOMAIN p.cfg.weight : p.cfg.weight[x] \in Nat

\* what the models of app/config/models.py refuse to be without
ASSUME SettingsAssumption ==
  \A x \in DOMAIN Settings : LET o == Settings[x] IN
     /\ o.embargo \in Nat /\ \A i \in 1 .. 3 : o.fractions[i] \in Nat
     /\ o.fractions[1] + o.fractions[2] + o.fractions[3] > 0
     /\ IsFiniteSet(o.parameters) /\ o.points \in Nat
     /\ \A w \in o.walkForward : /\ {w.train, w.test, w.step, w.folds, w.percent} \subseteq Nat
                                 /\ w.anchored \in BOOLEAN

ASSUME HistoriesAssumption == \A h \in Histories : \A d \in DOMAIN h : h[d] \in Seq(Range(h[d]))

VARIABLES history,  \* name of a data set -> its bars
          seals,    \* holdout id -> the bars sealed under it
          accesses, \* holdout_accesses, in order of access_id
          rows,     \* experiments: experiment id -> verdict
          trials,   \* trials: [data, cfg]
          reports,  \* the report files, newest first
          run,      \* what each session is doing
          searched, \* configurations tried while the store was listening
          published,\* reports completely written, in order
          started, faults

vars == <<history, seals, accesses, rows, trials, reports, run, searched, published, started, faults>>

NoMetrics == [trades |-> 0, expectancy |-> 0, sharpe |-> 0, equity |-> <<>>,
              signals |-> [s \in {} |-> <<>>], grade |-> "UNKNOWN"]

Idle == [pc |-> "idle"]

(***************************** helpers **************************************)
SettingsOf(s) == Settings[run[s].plan.spec]
SeriesOf(s)   == history[run[s].plan.data]
CfgOf(s)      == run[s].plan.cfg
ReportOf(s)   == run[s].report
WindowOf(s, name) == LET w == run[s].windows IN w[CHOOSE i \in DOMAIN w : w[i].name = name]

\* reproducible_experiment_id: everything that can change the outcome
ExperimentId(plan) == [data |-> plan.data, cfg |-> plan.cfg, spec |-> plan.spec]

\* _holdout_id: the coordinates of the window, not its bars
HoldoutId(plan, window) == <<plan.symbol, window.start, window.end>>

\* window_fingerprint of a segment's scored bars, which carry their own times
WindowFingerprint(window, series) == <<window.start, ScoredBars(window, series)>>

Continue(s, pc)         == run' = [run EXCEPT ![s].pc = pc]
ContinueWith(s, pc, r)  == run' = [run EXCEPT ![s].pc = pc, ![s].report = r]
End(s)                  == run' = [run EXCEPT ![s] = Idle]

\* whether a write reaches the store in this step
StoreUp(s, up) ==
  /\ up \in BOOLEAN
  /\ up \/ (run[s].plan.store /\ faults < MaxFaults)
  /\ faults' = IF up THEN faults ELSE faults + 1

\* _count_trial for each configuration: the session counts it whatever happens,
\* the store only when it is there, reachable and knows the experiment.  A row is
\* unique per window too, which no count distinguishes.
Listening(s, up) == run[s].plan.store /\ up /\ ExperimentId(run[s].plan) \in DOMAIN rows

CountTrials(s, cfgs, up) ==
  trials' = trials \cup {[data |-> run[s].plan.data, cfg |-> c] : c \in {x \in cfgs : Listening(s, up)}}

Tried(s, cfgs, up) ==
  searched' = IF Listening(s, up)
              THEN searched \cup ({run[s].plan.data} \X cfgs) ELSE searched

Session(s, cfgs) == run[s].session \cup cfgs

\* record_experiment
RecordExperiment(s, verdict, up) ==
  rows' = IF run[s].plan.store /\ up
          THEN [x \in DOMAIN rows \cup {ExperimentId(run[s].plan)} |->
                  IF x = ExperimentId(run[s].plan) THEN verdict ELSE rows[x]]
          ELSE rows

(***************************** the study ************************************)
SplitOptions(plan) ==
  [fractions |-> Settings[plan.spec].fractions, warmup |-> FeatureWarmup(plan.cfg),
   embargo |-> Settings[plan.spec].embargo, minSegment |-> Settings[plan.spec].minSegment]

\* a report at its creation: every section still empty
NewReport(plan) ==
  [id |-> ExperimentId(plan), symbol |-> plan.symbol, cfg |-> plan.cfg,
   inSample |-> NoMetrics, validation |-> NoMetrics, outOfSample |-> NoMetrics,
   sweeps |-> [p \in {} |-> {}], costs |-> {}, walkForward |-> {}, holdout |-> {},
   correlation |-> [counts |-> [x \in {} |-> 0], findings |-> <<>>], compared |-> {},
   trials |-> 0, findings |-> {}, verdict |-> "IN PROGRESS", recommendations |-> <<>>]

\* a study whose history is too short to be split ends before it is registered
Start(s, plan) ==
  /\ run[s].pc = "idle" /\ started < MaxStudies /\ plan.data \in DOMAIN history
  /\ started' = started + 1
  /\ LET split == ChronologicalSplit(Len(history[plan.data]), SplitOptions(plan))
     IN  run' = IF split = {} THEN run
                ELSE [run EXCEPT ![s] =
                        [pc |-> "register", plan |-> plan, windows |-> CHOOSE w \in split : TRUE,
                         report |-> NewReport(plan), session |-> {},
                         candidates |-> <<>>, folds |-> <<>>, holdout |-> <<>>, touch |-> 0,
                         sealedBefore |-> DOMAIN seals]]
  /\ UNCHANGED <<history, seals, accesses, rows, trials, reports, searched, published, faults>>

Register(s) ==
  /\ run[s].pc = "register"
  /\ \E up \in BOOLEAN : StoreUp(s, up) /\ RecordExperiment(s, "IN PROGRESS", up)
  /\ Continue(s, "develop")
  /\ UNCHANGED <<history, seals, accesses, trials, reports, searched, published, started>>

\* _run_segment of both development windows, and only then the door
RunDevelopmentWindows(s) ==
  /\ run[s].pc = "develop"
  /\ \E up \in BOOLEAN :
       /\ StoreUp(s, up)
       /\ CountTrials(s, {CfgOf(s)}, up) /\ Tried(s, {CfgOf(s)}, up)
  /\ run' = [run EXCEPT ![s].pc = "door", ![s].session = Session(s, {CfgOf(s)}),
       ![s].report.inSample = Result(SeriesOf(s), WindowOf(s, "in_sample"), CfgOf(s)),
       ![s].report.validation = Result(SeriesOf(s), WindowOf(s, "validation"), CfgOf(s))]
  /\ UNCHANGED <<history, seals, accesses, rows, reports, published, started>>

\* assert_available_for_development: refused only for the very window sealed
SealedForFingerprint(fingerprint) == \E h \in DOMAIN seals : seals[h] = fingerprint

CheckDoor(s) ==
  /\ run[s].pc = "door"
  /\ IF run[s].plan.ledger
        /\ \E name \in {"in_sample", "validation"} :
             SealedForFingerprint(WindowFingerprint(WindowOf(s, name), SeriesOf(s)))
     THEN End(s) ELSE Continue(s, "sweep")
  /\ UNCHANGED <<history, seals, accesses, rows, trials, reports, searched, published, started, faults>>

\* run_robustness_study on the in-sample window; a point that ran is a trial
Sweep(s) ==
  /\ run[s].pc = "sweep"
  /\ \E sweeps \in {RobustnessStudy(SeriesOf(s), WindowOf(s, "in_sample"), CfgOf(s), SettingsOf(s))},
        up \in BOOLEAN :
       LET tried == UNION {UNION {{x.cfg : x \in sweeps[p][v]} : v \in DOMAIN sweeps[p]} : p \in DOMAIN sweeps}
       IN  /\ StoreUp(s, up)
           /\ CountTrials(s, tried, up) /\ Tried(s, tried, up)
           /\ run' = [run EXCEPT ![s].pc = "stress", ![s].report.sweeps = sweeps,
                                 ![s].session = Session(s, tried)]
  /\ UNCHANGED <<history, seals, accesses, rows, reports, published, started>>

\* cost stress, isolated strategies, correlation and the candidates it suggests;
\* none of these runs is counted as a trial
StressAndCorrelate(s) ==
  /\ run[s].pc = "stress"
  /\ LET o      == SettingsOf(s)
         window == WindowOf(s, "in_sample")
         costs  == {CostStressStudy(SeriesOf(s), WindowOf(s, cs.segment), DefaultScenarios(CfgOf(s), cs))
                      : cs \in o.costs}
     IN  \E correlation \in {AnalyseCorrelations(ReportOf(s).inSample,
                               IsolateStrategies(SeriesOf(s), window, CfgOf(s), o.isolate), o.threshold)} :
           run' = [run EXCEPT ![s].pc = "plan", ![s].report.costs = costs,
                     ![s].report.correlation = correlation,
                     ![s].candidates = IF o.testVariants /\ correlation.findings # <<>>
                                       THEN WeightVariants(CfgOf(s), correlation, o.downWeight)
                                       ELSE <<>>]
  /\ UNCHANGED <<history, seals, accesses, rows, trials, reports, searched, published, started, faults>>

\* the geometries one walk-forward specification stands for: its own, or the one
\* its fraction suggests
Geometries(s, w) ==
  LET warmup == FeatureWarmup(CfgOf(s))
      sizes  == IF w.train = 0 \/ w.test = 0
                THEN SuggestGeometry(Len(SeriesOf(s)), warmup, w.folds, w.percent)
                ELSE {[train |-> w.train, test |-> w.test]}
  IN  {[train |-> z.train, test |-> z.test, step |-> w.step, warmup |-> warmup,
        embargo |-> SettingsOf(s).embargo, anchored |-> w.anchored, maxFolds |-> w.folds] : z \in sizes}

\* at most one list of folds
PlannedFolds(s) ==
  UNION {UNION {WalkForwardFolds(Len(SeriesOf(s)), g) : g \in Geometries(s, w)} :
           w \in SettingsOf(s).walkForward}

\* too short a history raises here, with the trials made so far already counted
PlanFolds(s) ==
  /\ run[s].pc = "plan"
  /\ CASE SettingsOf(s).walkForward = {} -> Continue(s, "final")
       [] SettingsOf(s).walkForward # {} /\ PlannedFolds(s) = {} -> End(s)
       [] OTHER -> run' = [run EXCEPT ![s].pc = "folds",
                             ![s].folds = CHOOSE f \in PlannedFolds(s) : TRUE,
                             ![s].report.walkForward = {<<>>}]
  /\ UNCHANGED <<history, seals, accesses, rows, trials, reports, searched, published, started, faults>>

FoldsDone(s) == CHOOSE w \in ReportOf(s).walkForward : TRUE

\* _select on the training half, and only then the test half; without candidates
\* the baseline runs on both and nothing is counted
WalkFold(s) ==
  /\ run[s].pc = "folds"
  /\ LET fold       == run[s].folds[Len(FoldsDone(s)) + 1]
         candidates == run[s].candidates
         tried      == {candidates[i].cfg : i \in DOMAIN candidates}
     IN  \E chosen \in {IF candidates = <<>> THEN [name |-> <<"baseline", "">>, cfg |-> CfgOf(s)]
                        ELSE SelectCandidate(SeriesOf(s), fold.train, candidates)}, up \in BOOLEAN :
           /\ StoreUp(s, up)
           /\ CountTrials(s, tried, up) /\ Tried(s, tried, up)
           /\ run' = [run EXCEPT ![s].session = Session(s, tried),
                ![s].pc = IF Len(FoldsDone(s)) + 1 = Len(run[s].folds) THEN "final" ELSE "folds",
                ![s].report.walkForward =
                  {Append(FoldsDone(s), [selected |-> chosen.name,
                                         train    |-> fold.train,
                                         test     |-> fold.test,
                                         trained  |-> Metrics(Result(SeriesOf(s), fold.train, chosen.cfg)),
                                         metrics  |-> Metrics(Result(SeriesOf(s), fold.test, chosen.cfg))])}]
  /\ UNCHANGED <<history, seals, accesses, rows, reports, published, started>>

ScoreFinalWindow(s) ==
  /\ run[s].pc = "final"
  /\ \E up \in BOOLEAN :
       StoreUp(s, up) /\ CountTrials(s, {CfgOf(s)}, up) /\ Tried(s, {CfgOf(s)}, up)
  /\ run' = [run EXCEPT ![s].pc = IF run[s].plan.ledger THEN "seal" ELSE "compare",
       ![s].session = Session(s, {CfgOf(s)}),
       ![s].report.outOfSample = Result(SeriesOf(s), WindowOf(s, "out_of_sample"), CfgOf(s))]
  /\ UNCHANGED <<history, seals, accesses, rows, reports, published, started>>

(***************************** the ledger ***********************************)
FinalWindow(s)      == WindowOf(s, "out_of_sample")
FinalHoldout(s)     == HoldoutId(run[s].plan, FinalWindow(s))
FinalFingerprint(s) == WindowFingerprint(FinalWindow(s), SeriesOf(s))

\* mutant: a seal of this window will do, whatever it seals
LookUpAnySeal(s) ==
  /\ run[s].pc = "seal"
  /\ Continue(s, IF FinalHoldout(s) \in DOMAIN seals THEN "count" ELSE "insert")
  /\ UNCHANGED <<history, seals, accesses, rows, trials, reports, searched, published, started, faults>>

\* get_seal: other bars under the same window raise, which loses the study
LookUpSeal(s) ==
  /\ run[s].pc = "seal"
  /\ CASE FinalHoldout(s) \notin DOMAIN seals -> Continue(s, "insert")
       [] FinalHoldout(s) \in DOMAIN seals /\ seals[FinalHoldout(s)] # FinalFingerprint(s) -> End(s)
       [] OTHER -> Continue(s, "count")
  /\ UNCHANGED <<history, seals, accesses, rows, trials, reports, searched, published, started, faults>>

\* the INSERT in a connection of its own: another's row first is an IntegrityError
InsertSeal(s) ==
  /\ run[s].pc = "insert"
  /\ IF FinalHoldout(s) \in DOMAIN seals
     THEN End(s) /\ UNCHANGED seals
     ELSE /\ seals' = [h \in DOMAIN seals \cup {FinalHoldout(s)} |->
                         IF h = FinalHoldout(s) THEN FinalFingerprint(s) ELSE seals[h]]
          /\ Continue(s, "count")
  /\ UNCHANGED <<history, accesses, rows, trials, reports, searched, published, started, faults>>

TouchCount(holdout) == Cardinality({i \in DOMAIN accesses : accesses[i].holdout = holdout})

\* evaluate counts the touches in one connection ...
CountTouches(s) ==
  /\ run[s].pc = "count"
  /\ run' = [run EXCEPT ![s].pc = "access", ![s].touch = TouchCount(FinalHoldout(s)) + 1]
  /\ UNCHANGED <<history, seals, accesses, rows, trials, reports, searched, published, started, faults>>

\* ... and inserts its own in another, matching data or not
InsertAccess(s) ==
  /\ run[s].pc = "access"
  /\ accesses' = Append(accesses, [holdout |-> FinalHoldout(s), touch |-> run[s].touch,
                                   experiment |-> ExperimentId(run[s].plan),
                                   integrityOk |-> seals[FinalHoldout(s)] = FinalFingerprint(s)])
  /\ Continue(s, "status")
  /\ UNCHANGED <<history, seals, rows, trials, reports, searched, published, started, faults>>

\* mutant: over-touched if its own touch number says so
ReadOwnStatus(s) ==
  /\ run[s].pc = "status"
  /\ run' = [run EXCEPT ![s].pc = "compare",
       ![s].report.holdout = {[id |-> FinalHoldout(s), touch |-> run[s].touch,
                               touchCount |-> TouchCount(FinalHoldout(s)),
                               overTouched |-> run[s].touch > 1,
                               integrityOk |-> seals[FinalHoldout(s)] = FinalFingerprint(s)]}]
  /\ UNCHANGED <<history, seals, accesses, rows, trials, reports, searched, published, started, faults>>

\* status_for, after the insertion: the count is of every touch made by now
ReadStatus(s) ==
  /\ run[s].pc = "status"
  /\ run' = [run EXCEPT ![s].pc = "compare",
       ![s].report.holdout = {[id |-> FinalHoldout(s), touch |-> run[s].touch,
                               touchCount |-> TouchCount(FinalHoldout(s)),
                               overTouched |-> TouchCount(FinalHoldout(s)) > 1,
                               integrityOk |-> seals[FinalHoldout(s)] = FinalFingerprint(s)]}]
  /\ UNCHANGED <<history, seals, accesses, rows, trials, reports, searched, published, started, faults>>

(***************************** conclusions **********************************)
\* _compare_variants, on the validation window
CompareVariants(s) ==
  /\ run[s].pc = "compare"
  /\ LET candidates == run[s].candidates
         tried      == {candidates[i].cfg : i \in DOMAIN candidates}
     IN  \E up \in BOOLEAN :
           /\ StoreUp(s, up)
           /\ CountTrials(s, tried, up) /\ Tried(s, tried, up)
           /\ run' = [run EXCEPT ![s].pc = "assess", ![s].session = Session(s, tried),
                        ![s].report.compared = {candidates[i].name : i \in DOMAIN candidates}]
  /\ UNCHANGED <<history, seals, accesses, rows, reports, published, started>>

\* mutant: this session's, although the store is there
SessionTrials(s, up) == Max({1, Cardinality(run[s].session)})

\* _total_trials: every session's, or this session's when the store is not there
TotalTrials(s, up) ==
  Max({1, Cardinality(run[s].session)}
      \cup (IF run[s].plan.store /\ up
            THEN {Cardinality({t \in trials : t.data = run[s].plan.data})} ELSE {}))

Conclude(s) ==
  /\ run[s].pc = "assess"
  /\ \E up \in BOOLEAN :
       /\ StoreUp(s, up)
       /\ LET r        == ReportOf(s)
              degraded == {w \in {r.inSample, r.validation, r.outOfSample} : Degraded(w)}
          IN  \E total \in {TotalTrials(s, up)} :
              \E findings \in {Assess(total, r.inSample, r.outOfSample, r.walkForward,
                                      FragileParameters(r.sweeps, r.cfg), degraded)} :
              \E assessed \in {[r EXCEPT !.trials = total, !.findings = findings]} :
                ContinueWith(s, "save", [assessed EXCEPT !.verdict = Verdict(assessed),
                                           !.recommendations = BuildRecommendations(assessed)])
  /\ UNCHANGED <<history, seals, accesses, rows, trials, reports, searched, published, started>>

(***************************** the report ***********************************)
\* to_dict, as far as a later reader depends on it
ToDict(r) ==
  [id |-> r.id, symbol |-> r.symbol, cfg |-> r.cfg, verdict |-> r.verdict, trials |-> r.trials,
   evidence |-> EvidenceSummary(r), holdout |-> r.holdout, recommendations |-> r.recommendations]

\* the other files: those there are but the one of this experiment
Elsewhere(id) ==
  LET places == {k \in DOMAIN reports : reports[k].id = id}
  IN  IF places = {} THEN reports ELSE RemoveAt(reports, CHOOSE k \in places : TRUE)

\* mutant: looked up oldest first
RewrittenLast(id, file) == Append(Elsewhere(id), file)

\* the file of an experiment, now the newest
Rewritten(id, file) == <<file>> \o Elsewhere(id)

\* write_text empties the file of an earlier study of this id before it writes
BeginSave(s) ==
  /\ run[s].pc = "save"
  /\ reports' = Rewritten(ReportOf(s).id, [id |-> ReportOf(s).id, report |-> {}])
  /\ \E file \in {ToDict(ReportOf(s))} : ContinueWith(s, "write", file)
  /\ UNCHANGED <<history, seals, accesses, rows, trials, searched, published, started, faults>>

\* an OSError is swallowed and leaves what had been written
FinishSave(s) ==
  /\ run[s].pc = "write"
  /\ \/ /\ reports' = Rewritten(ReportOf(s).id, [id |-> ReportOf(s).id, report |-> {ReportOf(s)}])
        /\ published' = Append(published, ReportOf(s))
        /\ UNCHANGED faults
     \/ faults < MaxFaults /\ faults' = faults + 1 /\ UNCHANGED <<reports, published>>
  /\ Continue(s, "record")
  /\ UNCHANGED <<history, seals, accesses, rows, trials, searched, started>>

RecordVerdict(s) ==
  /\ run[s].pc = "record"
  /\ \E up \in BOOLEAN : StoreUp(s, up) /\ RecordExperiment(s, ReportOf(s).verdict, up)
  /\ End(s)
  /\ UNCHANGED <<history, seals, accesses, trials, reports, searched, published, started>>

Crash(s) ==
  /\ run[s].pc # "idle" /\ faults < MaxFaults
  /\ faults' = faults + 1
  /\ End(s)
  /\ UNCHANGED <<history, seals, accesses, rows, trials, reports, searched, published, started>>

\* load_research_context: the newest readable study of the instrument, whatever
\* configuration it is of; an unreadable file is passed over
LoadContext(symbol, cfg) ==
  LET readable == {k \in DOMAIN reports : reports[k].report # {}}
      matches  == {k \in readable : \E r \in reports[k].report : r.symbol = symbol}
      newest   == reports[Min(matches)].report
  IN  CASE matches = {} /\ readable = {} /\ reports # <<>> -> [availability |-> "UNREADABLE", report |-> {}]
        [] matches = {} /\ (readable # {} \/ reports = <<>>) -> [availability |-> "MISSING", report |-> {}]
        [] OTHER -> IF \E r \in newest : r.cfg # cfg
                    THEN [availability |-> "STALE", report |-> {}]
                    ELSE [availability |-> "AVAILABLE", report |-> newest]

Init ==
  /\ history \in Histories
  /\ seals = [h \in {} |-> <<>>] /\ accesses = <<>>
  /\ rows = [x \in {} |-> ""] /\ trials = {}
  /\ reports = <<>> /\ published = <<>>
  /\ run = [s \in Sessions |-> Idle]
  /\ searched = {} /\ started = 0 /\ faults = 0

Next ==
  \E s \in Sessions :
     \/ \E plan \in Plans : Start(s, plan)
     \/ Register(s) \/ RunDevelopmentWindows(s) \/ CheckDoor(s) \/ Sweep(s)
     \/ StressAndCorrelate(s) \/ PlanFolds(s) \/ WalkFold(s)
     \/ ScoreFinalWindow(s) \/ LookUpSeal(s) \/ InsertSeal(s)
     \/ CountTouches(s) \/ InsertAccess(s) \/ ReadStatus(s)
     \/ CompareVariants(s) \/ Conclude(s)
     \/ BeginSave(s) \/ FinishSave(s) \/ RecordVerdict(s) \/ Crash(s)

Spec == Init /\ [][Next]_vars
(***************************** properties ***********************************)
ClaimsFreshLook(file) == file.evidence.holdout = "PARTIAL"

\* Of all the reports ever published about one sealed window, at most one says
\* that its look was the first, integrity-checked one, even when two studies
\* count their touches before either has inserted its own (evaluate, status_for).
FreshLookIsUnique ==
  \A i, j \in DOMAIN published :
     /\ ClaimsFreshLook(published[i]) /\ ClaimsFreshLook(published[j])
     /\ published[i].holdout = published[j].holdout
     => i = j

\* No result on a final window reaches a reader of a study with a ledger unless
\* the ledger holds a look of that experiment for every such report, and the
\* bars scored are the bars sealed (study.run, _record_holdout, seal).
PublishedLooksAreLedgered ==
  \A i \in DOMAIN published : \A h \in published[i].holdout :
     LET r     == published[i]
         looks == {k \in DOMAIN accesses : accesses[k].holdout = h.id /\ accesses[k].experiment = r.id}
         same  == {j \in DOMAIN published : published[j].id = r.id /\ published[j].holdout # {}}
     IN  /\ Cardinality(looks) >= Cardinality(same)
         /\ seals[h.id] = <<h.id[2], SubSeq(history[r.id.data], h.id[2] + 1, h.id[3])>>

\* docs/research.md:280-283 say that a study asks the registry about its
\* development windows before any sweep and refuses to run, so that ordinary
\* optimisation cannot consume the holdout: past the door, neither window it
\* develops on scores a bar that was sealed for its instrument when it began
\* (study.run, assert_available_for_development).
SealedBarsNotSearched ==
  \A s \in Sessions :
     run[s].pc \notin {"idle", "register", "develop", "door", "sweep"} /\ run[s].plan.ledger =>
        \A name \in {"in_sample", "validation"} : \A h \in run[s].sealedBefore :
           h[1] = run[s].plan.symbol => ScoredPositions(WindowOf(s, name)) \cap (h[2] .. h[3] - 1) = {}

\* The number of trials a study is assessed under is at least the number of
\* configurations that any study, before or beside it, tried on the same data
\* while the store was listening (_count_trial, _total_trials).
SearchCounted ==
  [][\A s \in Sessions :
       run[s].pc = "assess" /\ run'[s].pc = "save" /\ run[s].plan.store /\ faults' = faults =>
         run'[s].report.trials >= Cardinality({x \in searched : x[1] = run[s].plan.data})]_vars

KeptApart(earlier, later, embargo) == later.start >= earlier.end + embargo

\* The three windows and the halves of every fold keep the embargo between what
\* was chosen on and what it is judged on; every scored bar has its whole warm-up
\* in front of it; no bar is left out but warm-up and embargoes; and no two test
\* halves score the same bar (chronological_split, walk_forward_folds).
WindowsKeepApart ==
  \A s \in Sessions : run[s].pc # "idle" =>
     LET w       == run[s].windows
         embargo == SettingsOf(s).embargo
         warmup  == FeatureWarmup(CfgOf(s))
         folds   == run[s].folds
     IN  /\ w[1].start = warmup /\ w[3].end = Len(SeriesOf(s))
         /\ \A i \in 1 .. 2 : w[i + 1].start = w[i].end + embargo
         /\ \A i \in 1 .. 3 : WarmupOf(w[i]) = warmup /\ w[i].dataStart < w[i].end
         /\ \A i \in DOMAIN folds :
              /\ KeptApart(folds[i].train, folds[i].test, embargo)
              /\ folds[i].test.end <= Len(SeriesOf(s))
              /\ WarmupOf(folds[i].train) = warmup /\ WarmupOf(folds[i].test) = warmup
              /\ \A j \in 1 .. i - 1 : folds[j].test.end <= folds[i].test.start

\* the series with everything from a position on replaced
BlankedFrom(series, position) ==
  [i \in DOMAIN series |-> IF i > position THEN Blank ELSE series[i]]

\* What a study decides on a window depends on no bar after it: the sweep, the
\* cost stress, the candidates and the choice of each fold come out the same when
\* every bar behind their own window is replaced (slice_frame, _select).
NothingLeaksBack ==
  \A s \in Sessions : run[s].pc = "final" =>
     LET r      == ReportOf(s)
         o      == SettingsOf(s)
         window == WindowOf(s, "in_sample")
         blind  == BlankedFrom(SeriesOf(s), window.end)
         seen   == Result(blind, window, CfgOf(s))
     IN  /\ r.sweeps = RobustnessStudy(blind, window, CfgOf(s), o)
         /\ r.correlation =
              AnalyseCorrelations(seen, IsolateStrategies(blind, window, CfgOf(s), o.isolate), o.threshold)
         /\ \A w \in r.walkForward : run[s].candidates # <<>> =>
              \A i \in DOMAIN w :
                 w[i].selected = SelectCandidate(BlankedFrom(SeriesOf(s), w[i].train.end),
                                                 w[i].train, run[s].candidates).name

\* A report that says the configuration survived has no row of its evidence
\* table about unseen data, robustness or overfitting that says the opposite:
\* the two functions judge the same sections separately.
VerdictAgreesWithEvidence ==
  \A s \in Sessions :
     run[s].pc = "write" /\ ReportOf(s).verdict = "SURVIVED" =>
        LET e == ReportOf(s).evidence
        IN  e.outOfSample = "PARTIAL" /\ e.robustness # "NOT_ESTABLISHED" /\ e.overfitting = "PARTIAL"

\* Whatever gate, tier and strictness it is applied with, a finished report
\* moves the weight of a strategy only if enough folds chose to, on their own
\* test bars, and the final window held enough trades; it never cuts deeper than
\* allowed, disables nothing, and a closed gate changes nothing.
AppliedIsEvidenced ==
  \A s \in Sessions : run[s].pc = "save" =>
    \A enabled, strict \in BOOLEAN : \A maxCut \in {25, 50} :
     \A tier \in {"VALIDATION_WINDOW", "WALK_FORWARD"} :
       LET r == ReportOf(s)
       IN  \A c \in ApplyRecommendations(r.cfg, r.recommendations, enabled, tier, maxCut, strict) :
             /\ c.enabled = r.cfg.enabled
             /\ \A x \in DOMAIN c.weight : c.weight[x] # r.cfg.weight[x] =>
                  /\ enabled
                  /\ 100 * (r.cfg.weight[x] - c.weight[x]) <= maxCut * r.cfg.weight[x]
                  /\ ~(r.outOfSample.trades < MinOutOfSampleTrades)
                  /\ Cardinality(ChosenFolds(r, <<"halve", x>>)) >= MinWalkForwardFolds

\* What a surface is told is available is a completely written report of its own
\* instrument and configuration, and no report of that instrument was published
\* after it except one whose file is torn now (find_validation_reports, save).
ContextHonest ==
  \A p \in Plans : LET c == LoadContext(p.symbol, p.cfg) IN
     c.availability = "AVAILABLE" =>
        \E i \in DOMAIN published :
           /\ c.report = {published[i]}
           /\ published[i].cfg = p.cfg /\ published[i].symbol = p.symbol
           /\ \A j \in i + 1 .. Len(published) :
                published[j].symbol = p.symbol =>
                  \E k \in DOMAIN reports : reports[k].id = published[j].id /\ reports[k].report = {}

\* study.py:20 says that the out-of-sample window is touched at step 6 and never
\* before: until then no window scored by the study holds a bar of it.
FinalWindowUntouched ==
  \A s \in Sessions : run[s].pc \in {"plan", "folds", "final"} =>
     \A w \in ReportOf(s).walkForward : \A i \in DOMAIN w :
        (ScoredPositions(w[i].train) \cup ScoredPositions(w[i].test))
           \cap ScoredPositions(FinalWindow(s)) = {}
=============================================================================
