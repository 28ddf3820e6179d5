------------------------------ MODULE Evidence ------------------------------
(* What a study measures and what it makes of it: the harness, the parameter  *)
(* neighbourhood, cost stress, strategy correlation and the candidates it     *)
(* suggests, the choice of a candidate per fold, the overfitting findings,    *)
(* the verdict and the evidence table.  A value that may be missing (a run    *)
(* refused, an objective of -inf or NaN) is a set of at most one element.     *)
(* Backtests, grades and the deflated Sharpe are parameters.                  *)
EXTENDS Splits, SequencesExt

CONSTANTS Roster,               \* strategy names, in the order sorted() gives them
          Backtest(_, _, _, _), \* configuration, bars, warm-up and grade -> its log
          Grade(_),             \* bars -> grade of the quality engine
          FeatureWarmup(_),     \* configuration -> features.warmup_bars()
          Valid(_),             \* does the configuration's model accept it
          DeflatedSharpe(_, _), \* bar returns, trials -> percent, or nothing
          HeavySearch,          \* 100 in the source
          RepeatedSearch,       \* 20 in the source
          MinObservations       \* min_observations of analyse_correlations, 30

ASSUME EvidenceAssumption ==
  HeavySearch \in Nat /\ RepeatedSearch \in Nat /\ MinObservations \in Nat

Total(seq) == FoldLeft(LAMBDA a, b : a + b, 0, seq)

(***************************** the harness *********************************)
\* a log gives, for each bar, the trades entered, the profit and the signals
ScoreWindow(warmup, log, grade) ==
  LET after(seq) == SubSeq(seq, warmup + 1, Len(seq))
      trades == Total(after(log.entries))
      profit == Total(after(log.pnl))
  IN  [trades     |-> trades,
       expectancy |-> IF trades = 0 THEN 0 ELSE (100 * profit) \div trades,
       sharpe     |-> (100 * profit) \div Len(after(log.pnl)),
       equity     |-> after(log.pnl),
       signals    |-> log.signals,
       grade      |-> grade]

\* refused when the prefix cannot warm the features of this configuration up
HarnessRun(series, segment, cfg) ==
  LET bars  == SliceFrame(segment, series)
      grade == Grade(bars)
  IN  IF WarmupOf(segment) < FeatureWarmup(cfg)
      THEN {}
      ELSE {ScoreWindow(WarmupOf(segment), Backtest(cfg, bars, WarmupOf(segment), grade), grade)}

Result(series, segment, cfg) == CHOOSE r \in HarnessRun(series, segment, cfg) : TRUE

\* what is kept of a run beyond the study's own three windows
Metrics(result) == [trades |-> result.trades, expectancy |-> result.expectancy]

\* MIN_TRADES_FOR_RANKING
Objective(metrics) == IF metrics.trades < 20 THEN {} ELSE {metrics.expectancy}

(*********************** parameter neighbourhoods ***************************)
RoundHalfEven(num, den) ==
  LET q == num \div den
      r == num % den
  IN  IF 2 * r > den \/ (2 * r = den /\ q % 2 = 1) THEN q + 1 ELSE q

\* span in percent; an even number of points gains one so the baseline is in
Neighbourhood(base, span, wanted) ==
  LET points == Max({3, IF wanted % 2 = 0 THEN wanted + 1 ELSE wanted})
  IN  {Max({1, RoundHalfEven(base * ((points - 1) * (100 - span) + 2 * span * i),
                             100 * (points - 1))}) : i \in 0 .. points - 1}

\* an unknown path or an invalid result is refused
SetParameter(cfg, parameter, value) ==
  IF parameter \in DOMAIN cfg
  THEN {c \in {[cfg EXCEPT ![parameter] = value]} : Valid(c)}
  ELSE {}

\* every grid point: the configuration that ran and what it scored
SweepParameter(series, segment, cfg, parameter, o) ==
  [v \in Neighbourhood(cfg[parameter], o.span, o.points) \cup {cfg[parameter]} |->
     {[cfg |-> c, metrics |-> Metrics(Result(series, segment, c))] :
        c \in {x \in SetParameter(cfg, parameter, v) : HarnessRun(series, segment, x) # {}}}]

PointScore(point) == UNION {Objective(p.metrics) : p \in point}

\* _describe: the objective varies more than its mean, falls off a cliff between
\* two neighbours, or is nowhere better than at the shipped value
Fragile(points, base) ==
  LET usable  == {v \in DOMAIN points : PointScore(points[v]) # {}}
      ordered == SetToSortSeq(usable, <)
      score   == [i \in DOMAIN ordered |-> CHOOSE x \in PointScore(points[ordered[i]]) : TRUE]
      n       == Len(score)
      sum     == Total(score)
      squares == Total([i \in 1 .. n |-> (n * score[i] - sum) * (n * score[i] - sum)])
      steps   == [i \in 1 .. n - 1 |-> IF score[i] > score[i + 1] THEN score[i] - score[i + 1]
                                                                 ELSE score[i + 1] - score[i]]
      sorted  == SortSeq(steps, <)
      largest == sorted[n - 1]
      twiceMedian == IF n % 2 = 0 THEN 2 * sorted[n \div 2]
                                  ELSE sorted[(n - 1) \div 2] + sorted[(n + 1) \div 2]
      wide    == sum = 0 \/ squares > (n - 1) * sum * sum
      cliff   == /\ n > 3
                 /\ 5 * n * largest > 3 * (IF sum < 0 THEN -sum ELSE sum)
                 /\ 25 * largest * largest * n * n * (n - 1) > 9 * squares
                 /\ 4 * largest > 5 * twiceMedian
      peak    == /\ base \in usable
                 /\ \A i \in 1 .. n : score[i] <= CHOOSE x \in PointScore(points[base]) : TRUE
  IN  n >= 3 /\ (wide \/ cliff \/ peak)

\* run_robustness_study: a path that names nothing is skipped
RobustnessStudy(series, segment, cfg, o) ==
  [p \in o.parameters \cap DOMAIN cfg |-> SweepParameter(series, segment, cfg, p, o)]

FragileParameters(sweeps, cfg) == {p \in DOMAIN sweeps : Fragile(sweeps[p], cfg[p])}

(***************************** cost stress **********************************)
\* default_scenarios: multipliers in percent, the combined one takes the mildest
DefaultScenarios(cfg, cs) ==
  LET scaled(x, m) == (x * m) \div 100
      combined == [cfg EXCEPT !.spread     = IF cs.spread = {} THEN @ ELSE scaled(@, Min(cs.spread)),
                              !.slippage   = IF cs.slippage = {} THEN @ ELSE scaled(@, Min(cs.slippage)),
                              !.commission = IF cs.commission > 0 THEN cs.commission ELSE @]
  IN  {[name |-> <<"baseline", 0>>, cfg |-> cfg]}
      \cup {[name |-> <<"spread", m>>, cfg |-> [cfg EXCEPT !.spread = scaled(@, m)]] : m \in cs.spread}
      \cup {[name |-> <<"slippage", m>>, cfg |-> [cfg EXCEPT !.slippage = scaled(@, m)]] : m \in cs.slippage}
      \cup (IF cs.commission > 0
            THEN {[name |-> <<"commission", 0>>, cfg |-> [cfg EXCEPT !.commission = cs.commission]]}
            ELSE {})
      \cup (IF cs.spread # {} \/ cs.slippage # {} \/ cs.commission > 0
            THEN {[name |-> <<"adverse_combined", 0>>, cfg |-> combined]}
            ELSE {})

\* run_cost_stress_study: a scenario that cannot be run stays, without metrics
CostStressStudy(series, segment, scenarios) ==
  {[name    |-> s.name,
    metrics |-> IF Valid(s.cfg) THEN {Metrics(r) : r \in HarnessRun(series, segment, s.cfg)}
                                ELSE {}] : s \in scenarios}

HasMetrics(r) == \E m \in r.metrics : m.trades > 0

ExpectancyOf(r) == (CHOOSE m \in r.metrics : TRUE).expectancy

Survival(results) ==
  LET base     == {r \in results : r.name[1] = "baseline" /\ HasMetrics(r)}
      adverse  == {r \in results : r.name[1] # "baseline" /\ HasMetrics(r)}
      combined == {r \in results : r.name[1] = "adverse_combined"}
      worst    == {r \in adverse : \A q \in adverse : ExpectancyOf(r) <= ExpectancyOf(q)}
      decisive == IF combined # {} THEN combined \cap adverse ELSE worst
  IN  CASE base = {} -> "NOT_ASSESSED"
        [] \E r \in base : ExpectancyOf(r) <= 0 -> "NO_BASELINE_EDGE"
        [] decisive = {} -> "NOT_ASSESSED"
        [] \A r \in decisive : ExpectancyOf(r) > 0 -> "SURVIVED"
        [] OTHER -> "DID_NOT_SURVIVE"

(************************ strategy correlation ******************************)
EnabledNames(cfg) == SelectSeq(Roster, LAMBDA s : s \in cfg.enabled)

\* _isolate_strategies: each enabled strategy alone, those that can be run
IsolateStrategies(series, segment, cfg, isolate) ==
  LET solo(s) == HarnessRun(series, segment, [cfg EXCEPT !.enabled = {s}])
      names   == IF isolate /\ Cardinality(cfg.enabled) >= 2 THEN cfg.enabled ELSE {}
  IN  [s \in {x \in names : solo(x) # {}} |-> CHOOSE r \in solo(s) : TRUE]

\* Pearson correlation of x and y at or above percent, without roots
CorrelationAtLeast(x, y, percent) ==
  LET n       == Len(x)
      spread(u, v) == n * Total([i \in 1 .. n |-> u[i] * v[i]]) - Total(u) * Total(v)
  IN  /\ spread(x, y) > 0
      /\ 10000 * spread(x, y) * spread(x, y) >= percent * percent * spread(x, x) * spread(y, y)

\* correlation_of_equity_curves: curves too short or flat are left out
VaryingCurves(isolated) ==
  {s \in DOMAIN isolated :
     /\ Len(isolated[s].equity) > 2
     /\ \E i, j \in 2 .. Len(isolated[s].equity) : isolated[s].equity[i] # isolated[s].equity[j]}

RedundantReturns(isolated, a, b, percent) ==
  /\ {a, b} \subseteq VaryingCurves(isolated)
  /\ CorrelationAtLeast(Tail(isolated[a].equity), Tail(isolated[b].equity), percent)

\* signal_agreement_matrix: the share of decisions on which a and b agree
RedundantSignals(signals, a, b, percent) ==
  /\ {a, b} \subseteq DOMAIN signals
  /\ 100 * Cardinality({i \in DOMAIN signals[a] : signals[a][i] = signals[b][i]})
       >= Max({percent, 90}) * Len(signals[a])

\* analyse_correlations.  Without isolated runs the trade log names only the
\* ensemble, so no strategy has any trades to its name.
AnalyseCorrelations(baseline, isolated, percent) ==
  LET observations == IF DOMAIN isolated # {}
                      THEN Max({Len(isolated[s].equity) : s \in DOMAIN isolated})
                      ELSE Len(baseline.equity)
      pairs == {p \in (1 .. Len(Roster)) \X (1 .. Len(Roster)) : p[1] < p[2]}
      alike(p) == \/ RedundantReturns(isolated, Roster[p[1]], Roster[p[2]], percent)
                  \/ RedundantSignals(baseline.signals, Roster[p[1]], Roster[p[2]], percent)
      counts == [s \in {Roster[i] : i \in DOMAIN Roster} |->
                   IF s \in DOMAIN isolated THEN isolated[s].trades ELSE 0]
      flagged == IF (baseline.trades = 0 /\ DOMAIN isolated = {}) \/ observations < MinObservations
                 THEN {} ELSE {p \in pairs : alike(p)}
      ordered == SetToSortSeq(flagged, LAMBDA p, q : p[1] < q[1] \/ (p[1] = q[1] /\ p[2] < q[2]))
  IN  [counts   |-> counts,
       findings |-> [i \in 1 .. Cardinality(flagged) |-> <<Roster[ordered[i][1]], Roster[ordered[i][2]]>>]]

\* the strategy of a pair with fewer trades, the first when they are equal
Target(finding, counts) ==
  IF counts[finding[1]] <= counts[finding[2]] THEN finding[1] ELSE finding[2]

\* weight_variants, in insertion order; a target flagged twice appears once
WeightVariants(cfg, correlation, downWeight) ==
  LET targets == {Target(correlation.findings[i], correlation.counts) : i \in DOMAIN correlation.findings}
      ordered == SelectSeq(Roster, LAMBDA s : s \in targets)
      halve(t) == [name |-> <<"halve", t>>, cfg |-> [cfg EXCEPT !.weight[t] = downWeight]]
      drop(t)  == [name |-> <<"drop", t>>, cfg |-> [cfg EXCEPT !.enabled = @ \ {t}]]
  IN  <<[name |-> <<"baseline", "">>, cfg |-> cfg]>>
      \o [i \in 1 .. 2 * Len(ordered) |-> IF i % 2 = 1 THEN halve(ordered[(i + 1) \div 2])
                                                       ELSE drop(ordered[i \div 2])]

(*********************** choosing on a training window **********************)
\* the candidates that score best, an unrankable run scoring -inf
Leaders(series, train, candidates) ==
  LET score(i)  == Objective(Result(series, train, candidates[i].cfg))
      ranked    == {i \in DOMAIN candidates : score(i) # {}}
  IN  {i \in ranked : \A j \in ranked : \A x \in score(i), y \in score(j) : x >= y}

\* _select: the first of the best; the first of all when none can be ranked
SelectCandidate(series, train, candidates) ==
  LET best == Leaders(series, train, candidates)
  IN  candidates[IF best = {} THEN 1 ELSE Min(best)]
=============================================================================
