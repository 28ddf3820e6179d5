----------------------------- MODULE Assessment -----------------------------
(* What a study concludes: the overfitting findings (overfitting.py), the     *)
(* verdict and the evidence table (report.py).  The report under assessment   *)
(* is a record; walkForward and costs are options, as sets.                   *)
EXTENDS Evidence

\* WalkForwardReport.profitable_folds
ProfitableFolds(folds) == Cardinality({i \in DOMAIN folds : folds[i].metrics.expectancy > 0})

\* the mean objective of the test halves below half that of the training halves
LowEfficiency(folds) ==
  LET train == Total([i \in DOMAIN folds |-> folds[i].trained.expectancy])
      test  == Total([i \in DOMAIN folds |-> folds[i].metrics.expectancy])
  IN  IF train > 0 THEN 2 * test < train ELSE train < 0 /\ 2 * test > train

Degraded(metrics) == metrics.grade # "PASS"

\* assess
Assess(trials, inSample, outOfSample, walkForward, fragile, degraded) ==
  LET deflated == DeflatedSharpe(Tail(outOfSample.equity), trials)
      finding(code, severity) == [code |-> code, severity |-> severity]
      when(condition, code, severity) == IF condition THEN {finding(code, severity)} ELSE {}
      flips == outOfSample.sharpe <= 0 /\ 0 < inSample.sharpe
  IN  when(trials >= HeavySearch, "HEAVY_SEARCH", "SEVERE")
      \cup when(RepeatedSearch <= trials /\ trials < HeavySearch, "REPEATED_SEARCH", "CAUTION")
      \cup when(flips, "OOS_SIGN_FLIP", "SEVERE")
      \cup when(~flips /\ inSample.sharpe > 0 /\ 2 * outOfSample.sharpe < inSample.sharpe,
                "OOS_DEGRADATION", "CAUTION")
      \cup when(\E w \in walkForward : LowEfficiency(w), "LOW_WALK_FORWARD_EFFICIENCY", "CAUTION")
      \cup when(\E w \in walkForward : Len(w) >= 3 /\ 2 * ProfitableFolds(w) <= Len(w),
                "INCONSISTENT_FOLDS", "CAUTION")
      \cup when(outOfSample.trades < 10, "THIN_OOS_SAMPLE", "SEVERE")
      \cup when(outOfSample.trades \in 10 .. 29, "THIN_OOS_SAMPLE", "CAUTION")
      \cup when(outOfSample.trades > 0 /\ 10 * outOfSample.trades < inSample.trades,
                "OOS_TRADE_FREQUENCY_COLLAPSE", "CAUTION")
      \cup when(Len(outOfSample.equity) > 1 /\ deflated = {}, "DEFLATED_SHARPE_UNAVAILABLE", "INFO")
      \cup when(\E d \in deflated : 50 < d /\ d < 95, "DEFLATED_SHARPE_LOW", "CAUTION")
      \cup when(\E d \in deflated : d <= 50, "DEFLATED_SHARPE_LOW", "SEVERE")
      \cup when(fragile # {}, "PARAMETER_FRAGILITY", "SEVERE")
      \cup when(degraded # {}, "DEGRADED_SEGMENT_DATA", "CAUTION")

Severe(findings) == {f \in findings : f.severity = "SEVERE"}

\* mutant: severe findings left to the reader
VerdictOfResults(r) ==
  LET oos == r.outOfSample
  IN  CASE oos.trades < 30 -> "INSUFFICIENT EVIDENCE"
        [] ~(oos.trades < 30) /\ oos.expectancy <= 0 -> "EVIDENCE AGAINST"
        [] OTHER ->
           IF \E c \in r.costs : Survival(c) = "DID_NOT_SURVIVE" THEN "INCONCLUSIVE" ELSE "SURVIVED"

\* ValidationReport.verdict
Verdict(r) ==
  LET oos == r.outOfSample
  IN  CASE oos.trades < 30 -> "INSUFFICIENT EVIDENCE"
        [] ~(oos.trades < 30) /\ oos.expectancy <= 0 -> "EVIDENCE AGAINST"
        [] OTHER ->
           IF \/ Severe(r.findings) # {}
              \/ \E w \in r.walkForward : Len(w) >= 3 /\ 2 * ProfitableFolds(w) <= Len(w)
              \/ FragileParameters(r.sweeps, r.cfg) # {}
              \/ \E c \in r.costs : Survival(c) = "DID_NOT_SURVIVE"
           THEN "INCONCLUSIVE" ELSE "SURVIVED"

(* evidence_summary: the rows whose status depends on what was measured.      *)
OutOfSampleEvidence(r) ==
  IF r.outOfSample.trades < 30 \/ r.outOfSample.expectancy <= 0 THEN "NOT_ESTABLISHED" ELSE "PARTIAL"

\* the look a report claims to have had at the final window
HoldoutEvidence(r) ==
  CASE r.holdout = {} -> "NOT_ASSESSED"
    [] \E h \in r.holdout : ~h.integrityOk \/ h.overTouched -> "NOT_ESTABLISHED"
    [] OTHER -> "PARTIAL"

RobustnessEvidence(r) ==
  CASE DOMAIN r.sweeps = {} -> "NOT_ASSESSED"
    [] DOMAIN r.sweeps # {} /\ FragileParameters(r.sweeps, r.cfg) # {} -> "NOT_ESTABLISHED"
    [] OTHER -> "PARTIAL"

OverfittingEvidence(r) == IF Severe(r.findings) # {} THEN "NOT_ESTABLISHED" ELSE "PARTIAL"

ExecutionEvidence(r) ==
  IF \E c \in r.costs : Survival(c) = "SURVIVED" THEN "PARTIAL" ELSE "NOT_ESTABLISHED"

DataEvidence(r) ==
  IF \E w \in {r.inSample, r.validation, r.outOfSample} : Degraded(w)
  THEN "NOT_ESTABLISHED" ELSE "PARTIAL"

EvidenceSummary(r) ==
  [outOfSample |-> OutOfSampleEvidence(r), holdout |-> HoldoutEvidence(r),
   robustness  |-> RobustnessEvidence(r), overfitting |-> OverfittingEvidence(r),
   data        |-> DataEvidence(r), execution |-> ExecutionEvidence(r)]
=============================================================================
