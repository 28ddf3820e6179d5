---------------------------- MODULE MCMarketData ----------------------------
(* Vendors, thresholds and requests for the TLC instance of MarketData.       *)
EXTENDS MarketData

\* A bar whose high was repaired, a bar reported twice and a sound one.
MCSeries == {<<"wick", "twice", "sound">>}

Share(warn, fail) == [warn |-> warn, fail |-> fail]
MCQuality ==
  [missing |-> Share(10, 400), duplicate |-> Share(0, 10), invalid |-> Share(0, 1),
   repaired |-> Share(1, 600), jump |-> Share(1, 10), minRowsFail |-> 1,
   minRowsWarn |-> 2, gapTolerance |-> 3, jumpRows |-> 3, staleAge |-> 4,
   daily |-> FALSE, reliableVolume |-> TRUE, failOnFail |-> TRUE]

History(mode, width, from, to, validate) ==
  [kind |-> "historical", mode |-> mode, width |-> width, from |-> from,
   to |-> to, validate |-> validate]
Latest(width, bars) ==
  [kind |-> "latest", width |-> width, bars |-> bars, validate |-> FALSE]

MCRequests ==
  {History("cached", 1, 0, 1, TRUE), History("cached", 2, 1, Unbounded, TRUE),
   History("refresh", 1, 1, 1, TRUE), Latest(2, 1)}
=============================================================================
