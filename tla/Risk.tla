-------------------------------- MODULE Risk --------------------------------
(***************************************************************************)
(* What a trade risks: the stop policies (app/risk/stop_calculator.py), the *)
(* lot (app/risk/position_sizer.py), the plan journaled for every signal    *)
(* (app/risk/trade_plan.py) and the order each executor derives from the    *)
(* same alert.  Prices and distances are whole price quanta; an ATR of 0    *)
(* and a PSAR of 0 stand for a field the alert does not carry, which is how *)
(* the code reads them.  Money is in the value of one lot step over one     *)
(* price quantum.                                                           *)
(***************************************************************************)
EXTENDS Integers

CONSTANTS MinMult, MaxMult, \* sl_min_atr_mult, sl_max_atr_mult
          AtrMult,          \* sl_atr_mult
          Fallback,         \* fallback_distance of the policies
          DefaultRr,        \* sl_default_rr
          FixedLot          \* mt5_fixed_lot, in whole steps of the lot

ASSUME RiskAssumption ==
  /\ MinMult \in Nat \ {0} /\ MaxMult \in Nat /\ MinMult <= MaxMult
  /\ (MinMult + MaxMult) % 2 = 0      \* so that the midpoint is a whole multiple
  /\ AtrMult \in Nat \ {0} /\ Fallback \in Nat \ {0} /\ DefaultRr \in Nat \ {0}
  /\ FixedLot \in Int

Sides == {"long", "short"}

\* _infer_side; the executors' test on the signal name gives the same side.
LongSignals  == {"long", "strong_long", "exit_long", "bull_choch", "bull_bos", "bull_grab"}
InferSide(signal) == IF signal \in LongSignals THEN "long" ELSE "short"

\* A price a distance in favour of the side, against it for a negative one.
Towards(side, from, distance) == IF side = "long" THEN from + distance ELSE from - distance

\* Points gained between two prices.
Points(side, from, to) == IF side = "long" THEN to - from ELSE from - to

-----------------------------------------------------------------------------
(* The stop policies.                                                        *)

\* The distance to a PSAR, positive only when it is on the side of a stop.
PsarDistance(side, entry, psar) == Points(side, psar, entry)

PsarUsable(side, entry, psar) == psar # 0 /\ PsarDistance(side, entry, psar) > 0

ATRStop(atr) == IF atr > 0 THEN AtrMult * atr ELSE Fallback

PSARStop(side, entry, atr, psar) ==
  IF PsarUsable(side, entry, psar) THEN PsarDistance(side, entry, psar) ELSE ATRStop(atr)

Clip(d, low, high) == IF d < low THEN low ELSE IF d > high THEN high ELSE d

HybridATRPsarStop(side, entry, atr, psar) ==
  CASE atr > 0 /\ PsarUsable(side, entry, psar) ->
         Clip(PsarDistance(side, entry, psar), MinMult * atr, MaxMult * atr)
    [] atr > 0 /\ ~PsarUsable(side, entry, psar) -> ((MinMult + MaxMult) \div 2) * atr
    [] ~(atr > 0) /\ PsarUsable(side, entry, psar) -> PsarDistance(side, entry, psar)
    [] OTHER -> Fallback

\* build_default_stop_calculator: an unknown SL_POLICY is the hybrid one.
StopDistance(policy, side, entry, atr, psar) ==
  CASE policy = "psar" -> PSARStop(side, entry, atr, psar)
    [] policy = "atr"  -> ATRStop(atr)
    [] OTHER           -> HybridATRPsarStop(side, entry, atr, psar)

-----------------------------------------------------------------------------
(* The lot, in steps of the broker.                                          *)

Larger(a, b)  == IF a < b THEN b ELSE a
Smaller(a, b) == IF a < b THEN a ELSE b

\* compute_lot: a fixed lot, or the budget's rounded down to a step, and then into
\* the broker's limits.
ComputeLot(budget, stop, fixed, volMin, volMax) ==
  CASE fixed > 0               -> Larger(volMin, Smaller(fixed, volMax))
    [] fixed <= 0 /\ stop <= 0 -> volMin
    [] OTHER                   -> Larger(volMin, Smaller(budget \div stop, volMax))

\* effective_risk_usd: what is lost when the stop is hit.
EffectiveRisk(lot, stop) == lot * stop

-----------------------------------------------------------------------------
(* The plan of a signal and the orders of the executors.  An alert is a      *)
(* record [signal, price, atr, psar]; rr is the suggested_rr, 0 when there   *)
(* is none, and nothing keeps the model from suggesting a negative one.      *)

\* Without symbol_info: 0.01, 100 and 0.01 lots, in steps.
VolMin == 1
VolMax == 10000

StopOf(policy, alert, at) ==
  StopDistance(policy, InferSide(alert.signal), at, alert.atr, alert.psar)

\* build_plan: a plan whose reward is not positive has no take profit, rr = 0, and
\* one without an equity hint, for which a negative budget stands, has no lot.
BuildPlan(policy, alert, rr, budget) ==
  LET side == InferSide(alert.signal)
      d    == StopOf(policy, alert, alert.price)
      used == IF rr = 0 THEN DefaultRr ELSE rr
  IN [side |-> side, entry |-> alert.price, distance |-> d,
      stop |-> Towards(side, alert.price, -d),
      rr |-> Larger(used, 0), take |-> Towards(side, alert.price, d * Larger(used, 0)),
      lot |-> IF budget < 0 THEN 0 ELSE ComputeLot(budget, d, FixedLot, VolMin, VolMax)]

Bracket(side, at, d, rr) ==
  [side |-> side, at |-> at, stop |-> Towards(side, at, -d), take |-> Towards(side, at, d * rr)]

\* CTraderExecutor.execute: the alert's price is the reference.
CTraderOrder(policy, alert, rr) ==
  Bracket(InferSide(alert.signal), alert.price, StopOf(policy, alert, alert.price),
          IF rr = 0 THEN DefaultRr ELSE rr)

\* MT5Executor._execute_blocking: the tick is the reference, and without a
\* suggested_rr the reward is 2, whatever sl_default_rr says.
MT5Order(policy, alert, rr, tick) ==
  Bracket(InferSide(alert.signal), tick, StopOf(policy, alert, tick), IF rr = 0 THEN 2 ELSE rr)

\* compute_outcome_pnl: the R multiple is Points over distance, the money
\* Points times the lot.
OutcomePoints(plan, exit) == Points(plan.side, plan.entry, exit)

=============================================================================
