----------------------------- MODULE MCResearch -----------------------------
(* A market, two strategies and the studies asked for, for the TLC instance   *)
(* of ValidationStudy.  A bar is the size of its move.                        *)
EXTENDS ValidationStudy

MCRoster == <<"breakout", "trend">>

Both  == [weight |-> [breakout |-> 100, trend |-> 100], enabled |-> {"breakout", "trend"},
          period |-> 4, spread |-> 100, slippage |-> 100, commission |-> 0]
Light == [Both EXCEPT !.weight = [breakout |-> 40, trend |-> 100]]
Solo  == [Both EXCEPT !.enabled = {"trend"}]

Payoff(strategy, v) == IF strategy = "breakout" /\ v < 0 THEN v - 1 ELSE v

Exposure(cfg) == Total([i \in DOMAIN MCRoster |->
                          IF MCRoster[i] \in cfg.enabled THEN cfg.weight[MCRoster[i]] ELSE 0])

\* trades the moves that are large for the period; holding both strategies in
\* full costs extra on the largest ones
MCBacktest(cfg, bars, warmup, grade) ==
  LET size(v)   == IF v < 0 THEN -v ELSE v
      active(i) == i > warmup /\ grade # "FAIL" /\ 2 * size(bars[i]) >= cfg.period
      gross(v)  == Total([i \in DOMAIN MCRoster |->
                     IF MCRoster[i] \in cfg.enabled
                     THEN (cfg.weight[MCRoster[i]] * Payoff(MCRoster[i], v)) \div 100 ELSE 0])
      cost(v)   == (cfg.spread + cfg.slippage + cfg.commission) \div 200
                     + (IF Exposure(cfg) > 150 /\ v = 3 THEN 3 ELSE 0)
  IN  [entries |-> [i \in DOMAIN bars |-> IF active(i) THEN 10 ELSE 0],
       pnl     |-> [i \in DOMAIN bars |-> IF active(i) THEN gross(bars[i]) - cost(bars[i]) ELSE 0],
       signals |-> [s \in cfg.enabled |->
                      [i \in 1 .. Len(bars) - warmup |->
                         IF ~active(i + warmup) THEN "WAIT"
                         ELSE IF Payoff(s, bars[i + warmup]) > 0 THEN "BUY" ELSE "SELL"]]]

MCGrade(bars) ==
  IF \E i \in 1 .. Len(bars) - 1 : bars[i] = 0 /\ bars[i + 1] = 0 THEN "WARN" ELSE "PASS"

MCFeatureWarmup(cfg) == IF cfg.period > 5 THEN 2 ELSE 1
MCValid(cfg) == cfg.period # 3
MCDeflatedSharpe(returns, tried) == IF Len(returns) < 2 THEN {} ELSE {130 - 10 * tried}

Series(original) ==
  [original |-> original,
   restated |-> [original EXCEPT ![12] = 1],
   extended |-> original \o <<3, 2, 2, 3, 2, 3>>]

Rising  == Series(<<2, 3, 2, 3, 3, 2, 3, 2, 3, 3, 3, 3, 2>>)
Turning == [original |-> <<2, 2, 3, 3, 3, 2, 3, -2, 3, 2, -2, -2, 2>>]
Thin    == [original |-> <<1, 2, -2, 2, 2, 1, 2, 0, 0, 1, 3, 0, 1>>,
            silver   |-> <<1, 2, 1, 2, 2, 1, 2, 2, 1, 1, 3, 2, 1>>, stub |-> <<1, 2, 1, 3, 2>>]

MCHistories == {Rising, Turning, Thin}

Full ==
  [fractions |-> <<5, 2, 3>>, embargo |-> 1, minSegment |-> 2,
   parameters |-> {"period", "absent"}, span |-> 50, points |-> 5,
   costs |-> {[segment |-> "in_sample", spread |-> {150, 200}, slippage |-> {150}, commission |-> 100]},
   isolate |-> TRUE, threshold |-> 70, testVariants |-> TRUE, downWeight |-> 50,
   walkForward |-> {[folds |-> 3, train |-> 3, test |-> 2, step |-> 0, anchored |-> FALSE, percent |-> 25]}]

MCSettings ==
  [full    |-> Full,
   quiet   |-> [Full EXCEPT !.parameters = {}, !.isolate = FALSE, !.walkForward = {}, !.costs = {}],
   derived |-> [Full EXCEPT !.embargo = 0, !.parameters = {},
                  !.costs = {[segment |-> "validation", spread |-> {200}, slippage |-> {}, commission |-> 0]},
                  !.walkForward = {[folds |-> 2, train |-> 0, test |-> 0, step |-> 0,
                                    anchored |-> TRUE, percent |-> 50]}],
   cramped |-> [Full EXCEPT !.walkForward = {[w EXCEPT !.train = 9] : w \in @}]]

Plan(data, cfg, spec) ==
  [symbol |-> "XAUUSD", data |-> data, cfg |-> cfg, spec |-> spec, ledger |-> TRUE, store |-> TRUE]

MCPlans ==
  {Plan("original", Both, "full"), Plan("restated", Both, "full"), Plan("extended", Both, "full"),
   Plan("original", Solo, "derived"),
   [Plan("original", Light, "quiet") EXCEPT !.store = FALSE],
   [Plan("silver", Both, "cramped") EXCEPT !.symbol = "XAGUSD"], Plan("stub", Solo, "full")}

Symmetry == Permutations(Sessions)
=============================================================================
