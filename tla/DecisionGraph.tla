--------------------------- MODULE DecisionGraph ---------------------------
(* The decision graph (app/graph): one run decides one bar.                   *)
(*                                                                            *)
(* A run passes the features, classifies the regime, asks every strategy,     *)
(* weighs them, adds their signals up, has the risk engine size the trade and *)
(* builds the order.  The strategies run concurrently, so they finish in any  *)
(* order.  Every node is isolated: when it raises, its failure is recorded,   *)
(* nothing it would have written is, and the graph goes on.                   *)
(*                                                                            *)
(* A part of the state that a node may not have written is a set, empty until *)
(* it is.                                                                     *)
EXTENDS RiskEngine, Signals

CONSTANTS Histories,   \* the frames callers know
          Bars,        \* the bars that are decided
          Accounts,    \* portfolio, equity, quality grade and switch of a caller
          Closed,      \* the closed trades the selector may have seen
          Aggregators, \* SignalAggregator settings
          Matrices,    \* what the correlations provider may answer
          MaxFailures  \* bound on the nodes of a run that raise

\* A clean bar: clean_ohlcv lets no price through that is not positive, and no bar
\* whose high is below its low.
Candle ==
  {bar \in [open: Nat \ {0}, high: Nat \ {0}, low: Nat \ {0}, close: Nat \ {0},
            volume: Nat] : bar.low <= bar.high}

ASSUME GraphAssumption ==
  /\ MaxFailures \in Nat
  /\ Histories \subseteq Seq(Candle) /\ Bars \subseteq Nat \ {0}
  /\ \A config \in Aggregators :
       config.method \in Methods /\ config.policy \in Policies

\* What a caller knows of the account, and of the trades it has closed, are numbers.
ASSUME CallerAssumption ==
  /\ \A account \in Accounts :
       /\ account.equity \in Int /\ IsFiniteSet(account.book.positions)
       /\ \A p \in account.book.positions :
            p.entryBar \in Nat /\ p.qty \in Int /\ p.entry \in Int /\ p.risk \in Int
  /\ \A closed \in Closed :
       /\ closed \in Seq({closed[i] : i \in DOMAIN closed})
       /\ \A i \in DOMAIN closed : closed[i].r \in Int

VARIABLES input,       \* what the caller hands over to this run
          pending,     \* the nodes to run next; none when the run is over
          features, regime, weights, aggregated, verdict, order, decision,
          signals,     \* strategy_signals: a proposal for every node that finished
          errors       \* the nodes that raised

vars == <<input, pending, features, regime, weights, aggregated, verdict, order,
          decision, signals, errors>>

Symbol == "GOLD"
Nodes == {"features", "regime", "selection", "aggregation", "risk", "order", "finalise"}
           \cup Enabled

UpTo(frame, t) == SubSeq(frame, 1, t)
Frames == Histories \cup UNION {{UpTo(f, t) : t \in DOMAIN f} : f \in Histories}
Panels == [f \in Frames |-> Compute(f)]

\* A backtest and a replay hand over the whole frame with the features up to the bar;
\* a live tick knows no later bar, and its features are left to the graph.
Inputs ==
  UNION {UNION {[frame: {f, UpTo(f, t)}, bar: {t}, account: Accounts, closed: Closed,
                 aggregator: Aggregators] : t \in {u \in Bars : u <= Len(f)}} :
         f \in Histories}

Live(in) == in.bar = Len(in.frame)

---------------------------------------------------------------------------
Init ==
  /\ input \in Inputs /\ pending = {"features"}
  /\ features = IF Live(input) THEN {} ELSE {Upto(Panels[input.frame], input.bar)}
  /\ regime = {} /\ weights = {} /\ aggregated = {} /\ verdict = {} /\ order = {}
  /\ decision = {} /\ signals = <<>> /\ errors = {}

---------------------------------------------------------------------------
(* Nodes.  "isolated": the failure of a node is written, and nothing else.    *)

Results == <<features, regime, weights, aggregated, verdict, order, decision, signals>>

Raise(node) == errors' = errors \cup {node} /\ UNCHANGED Results
\* Any node may raise for a reason that is not modelled.
FailsAnyway(node) == Cardinality(errors) < MaxFailures /\ Raise(node)

\* FeatureNode, and route_after_features: without features there is no more to do.
FeatureNode ==
  /\ pending = {"features"}
  /\ \/ /\ features' = IF features = {} THEN {Panels[input.frame]} ELSE features
        /\ UNCHANGED <<regime, weights, aggregated, verdict, order, decision, signals, errors>>
     \/ FailsAnyway("features")
  /\ pending' = IF features' = {} THEN {"finalise"} ELSE {"regime"}
  /\ UNCHANGED input

\* The defect: a node that raises classifies the market as unknown.
RegimeNodeGuesses ==
  /\ pending = {"regime"}
  /\ \/ /\ regime' = {Detect(f, input.bar) : f \in features}
        /\ UNCHANGED errors
     \/ /\ Cardinality(errors) < MaxFailures
        /\ errors' = errors \cup {"regime"}
        /\ regime' = {UnknownRegime}
  /\ pending' = Enabled
  /\ UNCHANGED <<input, features, weights, aggregated, verdict, order, decision, signals>>

RegimeNode ==
  /\ pending = {"regime"}
  /\ \/ /\ regime' = {Detect(f, input.bar) : f \in features}
        /\ UNCHANGED <<features, weights, aggregated, verdict, order, decision, signals, errors>>
     \/ FailsAnyway("regime")
  /\ pending' = Enabled
  /\ UNCHANGED input

Answer(name) ==
  UNION {Propose(name, input.frame, f, r, input.bar) : f \in features, r \in regime}

\* The defect: selection waits for a signal of every strategy.
AfterAllAnswered(name) ==
  IF pending # {name} THEN pending \ {name}
  ELSE IF DOMAIN signals' = Enabled THEN {"selection"} ELSE {"fan_in"}

\* The strategies of a run finish in any order; the last one lets selection run.
After(name) == IF pending = {name} THEN {"selection"} ELSE pending \ {name}

StrategyNode(name) ==
  /\ name \in pending
  /\ \/ /\ \A s \in Answer(name) : WellFormed(s)
        /\ signals' = [n \in DOMAIN signals \cup {name} |->
                        IF n = name THEN Answer(name) ELSE signals[n]]
        /\ UNCHANGED <<features, regime, weights, aggregated, verdict, order, decision, errors>>
     \/ /\ \E s \in Answer(name) : ~WellFormed(s)
        /\ Raise(name)
     \/ FailsAnyway(name)
  /\ pending' = After(name)
  /\ UNCHANGED input

SelectionNode ==
  /\ pending = {"selection"}
  /\ \/ /\ \E r \in (IF regime = {} THEN {UnknownRegime} ELSE regime) :
             weights' = {Select(r, input.closed)}
        /\ UNCHANGED <<features, regime, aggregated, verdict, order, decision, signals, errors>>
     \/ FailsAnyway("selection")
  /\ pending' = {"aggregation"}
  /\ UNCHANGED input

Proposed == {n \in DOMAIN signals : signals[n] # {}}
SignalOf(n) == CHOOSE s \in signals[n] : TRUE
Decided(names) == Aggregate([n \in names |-> SignalOf(n)], weights, input.aggregator)
Actionable(d) == d.dir # "WAIT"

\* The decision is rendered as a signal at once, so that one that is not well formed
\* raises here.  route_after_aggregation: only a trade is sized.
AggregationNode ==
  /\ pending = {"aggregation"}
  /\ \/ \E d \in {Decided(Proposed)} :
          \/ /\ Actionable(d) => WellFormed(d)
             /\ aggregated' = {d}
             /\ UNCHANGED <<features, regime, weights, verdict, order, decision, signals, errors>>
          \/ Actionable(d) /\ ~WellFormed(d) /\ Raise("aggregation")
     \/ FailsAnyway("aggregation")
  /\ pending' = IF \E d \in aggregated' : Actionable(d) THEN {"risk"} ELSE {"finalise"}
  /\ UNCHANGED input

\* to_signal: the risk engine sees one strategy, the ensemble.
FinalSignal(d) ==
  [symbol |-> Symbol, strategy |-> "ensemble", dir |-> d.dir, entry |-> d.entry,
   stop |-> d.stop, target |-> d.target]

Evaluated(sig, account, corr) ==
  LET approved == Approves(sig, account.book, account.equity, account.quality,
                           account.enabled, corr)
  IN [approved |-> approved,
      quantity |-> IF approved THEN Size(sig, account.book, account.equity, corr) ELSE 0]

\* route_after_risk: an order is built only for what was approved.
RiskNode ==
  /\ pending = {"risk"}
  /\ \/ /\ \E d \in aggregated, corr \in Matrices :
             verdict' = {Evaluated(FinalSignal(d), input.account, corr)}
        /\ UNCHANGED <<features, regime, weights, aggregated, order, decision, signals, errors>>
     \/ FailsAnyway("risk")
  /\ pending' = IF \E v \in verdict' : v.approved THEN {"order"} ELSE {"finalise"}
  /\ UNCHANGED input

\* The order node ends the run, with or without an order.
OrderNode ==
  /\ pending = {"order"}
  /\ \/ /\ order' = {[dir |-> d.dir, qty |-> v.quantity, entry |-> d.entry,
                      stop |-> d.stop, target |-> d.target] : d \in aggregated, v \in verdict}
        /\ decision' = {"ORDER"}
        /\ UNCHANGED <<features, regime, weights, aggregated, verdict, signals, errors>>
     \/ FailsAnyway("order")
  /\ pending' = {}
  /\ UNCHANGED input

Outcome ==
  IF \E v \in verdict : ~v.approved THEN "BLOCKED"
  ELSE IF \E d \in aggregated : ~Actionable(d) THEN "WAIT" ELSE "NO_TRADE"

FinaliseNode ==
  /\ pending = {"finalise"}
  /\ \/ /\ decision' = {Outcome}
        /\ UNCHANGED <<features, regime, weights, aggregated, verdict, order, signals, errors>>
     \/ FailsAnyway("finalise")
  /\ pending' = {}
  /\ UNCHANGED input

Next ==
  \/ FeatureNode \/ RegimeNode
  \/ \E name \in Enabled : StrategyNode(name)
  \/ SelectionNode \/ AggregationNode \/ RiskNode \/ OrderNode \/ FinaliseNode

\* The caller waits for the run, and the graph runs every node it has scheduled.
Spec == Init /\ [][Next]_vars /\ WF_vars(Next)

---------------------------------------------------------------------------
(* Properties *)

Over == pending = {}

\* What a strategy proposes for a bar is what it would propose if no later bar were
\* known -- provided the bars up to it are the history it asks for: the precomputed
\* panel, with its swings published late, its shifted channels and its warm-up, gives
\* nothing of the future away.
PointInTime ==
  (regime # {} /\ ~Live(input)) =>
     LET seen == UpTo(input.frame, input.bar)
         known == Panels[seen]
     IN /\ regime = {Detect(known, input.bar)}
        /\ \A n \in DOMAIN signals :
             Len(seen) >= Config(n).minHistory =>
               signals[n] = Propose(n, seen, known, Detect(known, input.bar), input.bar)

\* A strategy the selector silenced has no vote: in weighted mode the direction and the
\* confidence of the ensemble are those of the strategies with a weight alone.  (Of its
\* levels this says nothing: a silenced supporter may still give the ensemble the nearer
\* stop or target.)
SilencedDoNotVote ==
  (weights # {} /\ aggregated # {} /\ input.aggregator.method = "weighted") =>
     \A d \in aggregated :
       LET heard == Decided({n \in Proposed : \E w \in weights : w[n] > 0})
       IN d.dir = heard.dir /\ d.confidence = heard.confidence

\* An order risks at its stop no more than the budget of one trade, and its stop is no
\* farther from the entry than the stop of any strategy that proposed the trade.
OrderWithinRisk ==
  \A o \in order : \A d \in aggregated :
    /\ o.qty > 0
    /\ o.qty * Abs(o.entry - o.stop) <= ScaledRisk(input.account.book, input.account.equity)
    /\ \A n \in d.contributing : /\ o.dir = SignalOf(n).dir
                                 /\ Abs(o.entry - o.stop) <= Abs(o.entry - SignalOf(n).stop)

\* No order comes out of a run in which any node but a strategy, the selection, or the
\* computation of features that the caller supplied has raised.
NoOrderAfterFailure ==
  order # {} => errors \subseteq Enabled \cup {"selection", "features"}
                /\ ("features" \in errors => ~Live(input))

\* Every run ends, whichever strategies raise.
RunsEnd == <>Over
=============================================================================
