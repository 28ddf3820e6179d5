------------------------------ MODULE Feedback ------------------------------
(* From a finished study to a changed configuration (app/research/            *)
(* feedback.py): build_recommendations reads the report, apply_recommendations *)
(* is the only way from a finding to a running configuration.  Weights are in *)
(* percent.                                                                   *)
EXTENDS Assessment

CONSTANTS MinOutOfSampleTrades, \* research.feedback.min_out_of_sample_trades
          MinWalkForwardFolds   \* research.feedback.min_walk_forward_folds

ASSUME FeedbackAssumption == MinOutOfSampleTrades \in Nat /\ MinWalkForwardFolds \in Nat

TierOrder == <<"NONE", "IN_SAMPLE", "VALIDATION_WINDOW", "WALK_FORWARD">>
TierRank(tier) == CHOOSE i \in DOMAIN TierOrder : TierOrder[i] = tier

\* _walk_forward_evidence: the test halves of the folds that chose this variant
ChosenFolds(r, name) ==
  UNION {{w[i] : i \in {j \in DOMAIN w : w[j].selected = name}} : w \in r.walkForward}

FoldTrades(folds)     == Total([i \in 1 .. Cardinality(folds) |-> SetToSeq(folds)[i].metrics.trades])
FoldExpectancy(folds) == Total([i \in 1 .. Cardinality(folds) |-> SetToSeq(folds)[i].metrics.expectancy])

\* vacuously so when no fold kept the baseline
Improved(r, folds) ==
  LET kept == ChosenFolds(r, <<"baseline", "">>)
  IN  kept = {} \/ FoldExpectancy(folds) * Cardinality(kept) > FoldExpectancy(kept) * Cardinality(folds)

Recommendation(action, tier, strategy, weight, blocked) ==
  [action |-> action, tier |-> tier, strategy |-> strategy, weight |-> weight, blocked |-> blocked]

\* one pass of the loop of build_recommendations
Recommend(r, finding) ==
  LET counts  == r.correlation.counts
      target  == Target(finding, counts)
      folds   == ChosenFolds(r, <<"halve", target>>)
      thin    == r.outOfSample.trades < MinOutOfSampleTrades
      compared == <<"halve", target>> \in r.compared /\ <<"baseline", "">> \in r.compared
  IN  CASE counts[finding[1]] + counts[finding[2]] = 0 ->
             Recommendation("INSUFFICIENT_EVIDENCE", "NONE", {}, {}, TRUE)
        [] counts[finding[1]] + counts[finding[2]] # 0 /\ folds # {}
           /\ Cardinality(folds) >= MinWalkForwardFolds ->
             IF Improved(r, folds) /\ FoldTrades(folds) > 0
             THEN Recommendation("CONSIDER_DOWN_WEIGHT", "WALK_FORWARD", {target}, {50}, thin)
             ELSE Recommendation("NO_ACTION", "WALK_FORWARD", {target}, {}, TRUE)
        [] OTHER ->
             IF compared
             THEN Recommendation("NO_ACTION", "VALIDATION_WINDOW", {target}, {}, TRUE)
             ELSE Recommendation("INSUFFICIENT_EVIDENCE", "NONE", {target}, {}, TRUE)

BuildRecommendations(r) ==
  [i \in DOMAIN r.correlation.findings |-> Recommend(r, r.correlation.findings[i])]

\* mutant: the blockers not looked at
IsApplicableBlocked(rec, minTier) ==
  /\ rec.action = "CONSIDER_DOWN_WEIGHT" /\ rec.weight # {}
  /\ TierRank(rec.tier) >= TierRank(minTier)

\* Recommendation.is_applicable
IsApplicable(rec, minTier) ==
  /\ rec.action = "CONSIDER_DOWN_WEIGHT" /\ rec.weight # {} /\ ~rec.blocked
  /\ TierRank(rec.tier) >= TierRank(minTier)

\* what apply_recommendations does with one recommendation; maxCut in percent
ApplyOne(state, rec, minTier, maxCut) ==
  LET refused == [state EXCEPT !.refusals = @ + 1]
      s       == CHOOSE x \in rec.strategy : TRUE
      weight  == CHOOSE x \in rec.weight : TRUE
      current == state.cfg.weight[s]
      tooDeep == IF current = 0 THEN 100 > maxCut ELSE 100 * (current - weight) > maxCut * current
  IN  CASE rec.action # "CONSIDER_DOWN_WEIGHT" -> state
        [] rec.action = "CONSIDER_DOWN_WEIGHT" /\ ~IsApplicable(rec, minTier) -> refused
        [] OTHER ->
             IF weight <= 0 \/ tooDeep THEN refused
             ELSE [state EXCEPT !.cfg.weight[s] = weight, !.applied = Append(@, s)]

\* apply_recommendations: a closed gate changes nothing; under strict a single
\* refusal raises, which returns nothing at all
ApplyRecommendations(cfg, recs, enabled, minTier, maxCut, strict) ==
  LET after[i \in 0 .. Len(recs)] ==
        IF i = 0 THEN [cfg |-> cfg, refusals |-> 0, applied |-> <<>>]
        ELSE ApplyOne(after[i - 1], recs[i], minTier, maxCut)
      end == after[Len(recs)]
  IN  IF ~enabled THEN {cfg}
      ELSE IF strict /\ end.refusals > 0 THEN {} ELSE {end.cfg}
=============================================================================
