------------------------------ MODULE Signals -------------------------------
(* The selector and the aggregator (app/signals): how much each strategy       *)
(* counts in this regime, and the one decision their signals add up to.        *)
(* Weights are in thousandths.                                                 *)
EXTENDS Strategies

CONSTANT Selector  \* StrategySelector and RegimePerformanceTracker: the settings

ASSUME SelectorAssumption ==
  Selector \in [suppressAvoided: BOOLEAN, minWeight: 0..1000, minSamples: Nat \ {0}]

Methods == {"weighted", "majority", "unanimous"}
Policies == {"abstain", "net_score"}

---------------------------------------------------------------------------
(* Selection *)

\* expectancy and _performance_factor: closed is the sequence of closed trades, each
\* with the strategy and the regime it is recorded under and its result in percent
\* of the amount at risk.
Samples(closed, name, regime) ==
  {i \in DOMAIN closed : closed[i].strategy = name /\ closed[i].regime = regime}
PerformanceFactor(closed, name, regime) ==
  LET samples == Samples(closed, name, regime)
      mean == SumFunction([i \in samples |-> closed[i].r]) \div Cardinality(samples)
  IN IF Cardinality(samples) < Selector.minSamples THEN 100
     ELSE IF mean <= -50 THEN 20
     ELSE IF mean < 0 THEN 50
     ELSE IF mean < 20 THEN 100 ELSE Min({150, 100 + mean})

RegimeFactor(name, regime) ==
  IF regime.regime \in Preferred(name) THEN 100
  ELSE IF regime.regime \in Avoided(name)
       THEN IF Selector.suppressAvoided THEN 0 ELSE 15
       ELSE 60

RawWeight(name, regime, closed) ==
  (Config(name).weight * RegimeFactor(name, regime) * (50 + regime.confidence \div 2)
    * PerformanceFactor(closed, name, regime.regime)) \div 10000

Normalised(weight) ==
  LET total == SumFunction(weight)
  IN IF total <= 0 THEN [name \in DOMAIN weight |-> 0]
     ELSE [name \in DOMAIN weight |-> (1000 * weight[name]) \div total]

\* _normalise: shares below the least weight are dropped, the rest share the whole.
Select(regime, closed) ==
  LET share == Normalised([name \in Enabled |-> RawWeight(name, regime, closed)])
      kept == [name \in Enabled |->
                 IF share[name] < Selector.minWeight THEN 0 ELSE share[name]]
  IN Normalised(kept)

---------------------------------------------------------------------------
(* Aggregation.  signals maps a strategy to its signal; weights is the set of   *)
(* what selection wrote: empty when it wrote nothing.                           *)

\* The defect: a weight of zero is taken for a missing one.
WeightOrDefault(name, weights) ==
  IF \E w \in weights : w[name] > 0 THEN (CHOOSE w \in weights : TRUE)[name] ELSE 1000

\* _weight_of: without weights every strategy counts fully.
WeightOf(name, weights) ==
  IF weights = {} THEN 1000 ELSE (CHOOSE w \in weights : TRUE)[name]

For(signals, dir) == {name \in DOMAIN signals : signals[name].dir = dir}
Total(names, value(_)) == SumFunction([n \in names |-> value(n)])
Opposite(dir) == IF dir = "LONG" THEN "SHORT" ELSE "LONG"

\* _score: conviction counts in weighted mode only.
Score(signals, weights, dir, method) ==
  Total({n \in For(signals, dir) : WeightOf(n, weights) > 0},
        LAMBDA n : WeightOf(n, weights)
                   * (IF method = "weighted" THEN signals[n].confidence ELSE 100))

\* The mean over the names, by weight; without any weight it is the plain mean.
WeightedMean(names, weights, value(_)) ==
  LET total == Total(names, LAMBDA n : WeightOf(n, weights))
  IN IF total > 0
     THEN Total(names, LAMBDA n : WeightOf(n, weights) * value(n)) \div total
     ELSE Total(names, value) \div Cardinality(names)

\* The defect: the widest stop of the proposals.
LevelsWidest(signals, names, dir, weights) ==
  LET stops == {signals[n].stop : n \in names}
      targets == {signals[n].target : n \in names}
      entry == WeightedMean(names, weights, LAMBDA n : signals[n].entry)
  IN [entry |-> entry,
      stop |-> IF dir = "LONG" THEN Min(stops) ELSE Max(stops),
      target |-> IF dir = "LONG" THEN Min(targets) ELSE Max(targets)]

\* _levels: the tightest stop and the nearest target of the proposals.
Levels(signals, names, dir, weights) ==
  LET stops == {signals[n].stop : n \in names}
      targets == {signals[n].target : n \in names}
      entry == WeightedMean(names, weights, LAMBDA n : signals[n].entry)
      tightest == IF dir = "LONG" THEN Max(stops) ELSE Min(stops)
      widest == IF dir = "LONG" THEN Min(stops) ELSE Max(stops)
  IN [entry |-> entry,
      stop |-> IF Toward(dir) * (entry - tightest) > 0 THEN tightest ELSE widest,
      target |-> IF dir = "LONG" THEN Min(targets) ELSE Max(targets)]

StandAside ==
  [dir |-> "WAIT", confidence |-> 0, entry |-> 0, stop |-> 0, target |-> 0,
   contributing |-> {}, opposing |-> {}]

\* aggregate
Aggregate(signals, weights, config) ==
  LET score == [dir \in {"LONG", "SHORT"} |-> Score(signals, weights, dir, config.method)]
      total == score["LONG"] + score["SHORT"]
      dir == IF score["LONG"] > score["SHORT"] THEN "LONG" ELSE "SHORT"
      lead == score[dir] - score[Opposite(dir)]
      supporting == For(signals, dir)
      opposing == For(signals, Opposite(dir))
      mean == WeightedMean(supporting, weights, LAMBDA n : signals[n].confidence)
      confidence == Min({100, (mean * (50 + (50 * lead) \div total)) \div 100})
      levels == Levels(signals, supporting, dir, weights)
  IN IF total <= 0 THEN StandAside
     ELSE IF config.policy = "abstain" /\ \A d \in {"LONG", "SHORT"} : score[d] > 0 THEN StandAside
     ELSE IF 100 * lead < config.minMargin * total THEN StandAside
     ELSE IF config.method = "unanimous" /\ opposing # {} THEN StandAside
     ELSE IF config.method = "majority"
             /\ Cardinality(supporting) <= Cardinality(opposing) THEN StandAside
     ELSE IF confidence < config.minConfidence THEN StandAside
     ELSE [dir |-> dir, confidence |-> confidence, entry |-> levels.entry,
            stop |-> levels.stop, target |-> levels.target,
            contributing |-> supporting, opposing |-> opposing]
=============================================================================
