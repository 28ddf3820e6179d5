----------------------------- MODULE Execution -----------------------------
(* The execution simulator (app/execution/simulator.py): what a market order *)
(* fills at, whether a bar closes a position, and what either of them costs. *)
(*                                                                           *)
(* Prices, quantities and money are integers: a price is a number of ticks,  *)
(* money is price times quantity.  Rates are integers in basis points.  A    *)
(* division rounds down where the program keeps the fraction.  Absence (no   *)
(* ATR, no volume, no target) is 0, which no such datum can be in the code.  *)
EXTENDS Integers

CONSTANT Exec  \* ExecutionConfig, with the asset's spread and tick folded in

SlippageModels == {"none", "fixed_ticks", "percent", "atr_fraction"}
SameBarResolutions == {"stop_first", "target_first", "skip"}

ExecConfig ==
  [halfSpread: Nat, slippageModel: SlippageModels, slippageValue: Nat,
   commissionPerUnit: Nat, commissionBps: Nat,
   minCommission: Nat, sameBar: SameBarResolutions, honourGaps: BOOLEAN,
   enforceVolume: BOOLEAN, maxParticipationPct: Nat]

ASSUME ExecAssumption == Exec \in ExecConfig

Directions == {"LONG", "SHORT"}

Sign(dir) == IF dir = "LONG" THEN 1 ELSE -1
Max2(a, b) == IF a >= b THEN a ELSE b
Min2(a, b) == IF a <= b THEN a ELSE b
Abs(x) == IF x >= 0 THEN x ELSE -x
Bps(amount, rate) == (amount * rate) \div 10000

---------------------------------------------------------------------------
(* Costs *)

\* slippageValue counts ticks, or is a rate in basis points.  5 is the flat 0.05
\* percent the ATR model falls back to on a bar without an ATR.
Slippage(price, atr) ==
  IF Exec.slippageModel = "none" \/ Exec.slippageValue = 0 THEN 0
  ELSE CASE Exec.slippageModel = "fixed_ticks"  -> Exec.slippageValue
         [] Exec.slippageModel = "percent"      -> Bps(price, Exec.slippageValue)
         [] Exec.slippageModel = "atr_fraction" ->
              IF atr > 0 THEN Bps(atr, Exec.slippageValue) ELSE Bps(price, 5)

Commission(qty, price) ==
  Max2(qty * Exec.commissionPerUnit + Bps(qty * price, Exec.commissionBps),
       Exec.minCommission)

\* Fill.total_cost: spread, slippage and commission of one fill.
FillCost(qty, reference, fillPrice, atr) ==
  qty * (Exec.halfSpread + Slippage(reference, atr)) + Commission(qty, fillPrice)

---------------------------------------------------------------------------
(* Entry: a market order against the open of the bar it is filled on *)

TooLargeForVolume(qty, bar) ==
  /\ Exec.enforceVolume
  /\ bar.volume > 0
  /\ qty * 100 > Exec.maxParticipationPct * bar.volume

EntryPrice(dir, bar) ==
  bar.open + Sign(dir) * (Exec.halfSpread + Slippage(bar.open, bar.atr))

Fills(order, bar) ==
  /\ bar.open > 0
  /\ ~TooLargeForVolume(order.qty, bar)
  /\ EntryPrice(order.dir, bar) > 0

---------------------------------------------------------------------------
(* Exit: does the bar's range touch the stop or the target? *)

\* x is at or beyond level, on the side that loses (wins) for dir.
Worse(dir, x, level) == IF dir = "LONG" THEN x <= level ELSE x >= level
Better(dir, x, level) == IF dir = "LONG" THEN x >= level ELSE x <= level
Adverse(dir, bar) == IF dir = "LONG" THEN bar.low ELSE bar.high
Favourable(dir, bar) == IF dir = "LONG" THEN bar.high ELSE bar.low

\* Mutant of StopHit: only a stop inside the bar's range counts, so that a gap
\* jumps over it.
StopHitInRange(p, bar) == bar.low <= p.stop /\ p.stop <= bar.high

StopHit(p, bar) == Worse(p.dir, Adverse(p.dir, bar), p.stop)
TargetHit(p, bar) ==
  p.target # 0 /\ Better(p.dir, Favourable(p.dir, bar), p.target)
Exits(p, bar) == StopHit(p, bar) \/ TargetHit(p, bar)

GapsThroughStop(p, bar) ==
  Exec.honourGaps /\ StopHit(p, bar) /\ Worse(p.dir, bar.open, p.stop)
GapsThroughTarget(p, bar) ==
  /\ Exec.honourGaps /\ ~StopHit(p, bar)
  /\ TargetHit(p, bar) /\ Better(p.dir, bar.open, p.target)
Ambiguous(p, bar) ==
  StopHit(p, bar) /\ TargetHit(p, bar) /\ ~GapsThroughStop(p, bar)

\* The exit of a position that the bar closes: why, and at which price before costs.
ExitReason(p, bar) ==
  IF Ambiguous(p, bar)
  THEN CASE Exec.sameBar = "stop_first"   -> "STOP_LOSS"
         [] Exec.sameBar = "target_first" -> "TAKE_PROFIT"
         [] Exec.sameBar = "skip"         -> "AMBIGUOUS_BAR_SKIPPED"
  ELSE IF StopHit(p, bar) THEN "STOP_LOSS" ELSE "TAKE_PROFIT"

ExitLevel(p, bar) ==
  IF GapsThroughStop(p, bar) \/ GapsThroughTarget(p, bar) THEN bar.open
  ELSE IF ExitReason(p, bar) = "TAKE_PROFIT" THEN p.target ELSE p.stop

\* exit_fill: the closing order trades the other way, at 1 tick at the least.
ExitFill(p, reason, level, atr) ==
  LET price == Max2(level - Sign(p.dir) * (Exec.halfSpread + Slippage(level, atr)), 1)
  IN  [reason |-> reason, price |-> price, cost |-> FillCost(p.qty, level, price, atr)]

\* The fill that closes a position the bar exits.
ExitOnBar(p, bar) == ExitFill(p, ExitReason(p, bar), ExitLevel(p, bar), bar.atr)
=============================================================================
