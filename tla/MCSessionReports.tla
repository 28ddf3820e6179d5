------------------------- MODULE MCSessionReports --------------------------
(* What bars bring in the TLC instances of SessionReports.                    *)
EXTENDS SessionReports, TLC

\* Two strategies agreed; stop and target were both in the bar.
TrendTrade ==
  [trade |-> {[regime |-> "TREND_UP", hasR |-> TRUE, ambiguous |-> TRUE,
               voters |-> {"breakout", "momentum"}]},
   fails |-> FALSE]
\* The stop was at the entry: no R.  Then the graph raised.
RangeTrade ==
  [trade |-> {[regime |-> "TREND_UP", hasR |-> FALSE, ambiguous |-> FALSE,
               voters |-> {"mean_reversion"}]},
   fails |-> TRUE]

MCOutcomes == {TrendTrade, RangeTrade}

WriterSymmetry == Permutations(Writers)
=============================================================================
