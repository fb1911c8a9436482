----------------------------- MODULE RiskProofs -----------------------------
(***************************************************************************)
(* What a trade risks, for every price, ATR, PSAR and setting: the stop     *)
(* policies and the lot, the plan against the order, and a simulated trade; *)
(* and the journal the plans are recorded in, for any number of instances,  *)
(* calls and rows.                                                          *)
(***************************************************************************)
EXTENDS Simulator, Journal, FiniteSetTheorems, TLAPS

USE RiskAssumption

-----------------------------------------------------------------------------
(* Products and quotients.                                                   *)

\* A greater factor gives no smaller product.
LEMMA ProductMonotone ==
  ASSUME NEW a \in Nat, NEW b \in Nat, NEW c \in Nat, a <= b
  PROVE  a * c <= b * c /\ a * c \in Nat /\ b * c \in Nat
OBVIOUS

\* Positive factors give a positive product.
LEMMA ProductPositive ==
  ASSUME NEW a \in Nat \ {0}, NEW b \in Nat \ {0}
  PROVE  a * b \in Nat \ {0}
OBVIOUS

\* A rounded quotient times its divisor stays within the dividend.
LEMMA QuotientBelow ==
  ASSUME NEW a \in Nat, NEW b \in Nat \ {0}
  PROVE  a \div b \in Nat /\ (a \div b) * b <= a
OBVIOUS

\* The middle of the two multiples lies between them.
LEMMA Midpoint ==
  (MinMult + MaxMult) \div 2 \in Nat \ {0}
    /\ MinMult <= (MinMult + MaxMult) \div 2 /\ (MinMult + MaxMult) \div 2 <= MaxMult
OBVIOUS

-----------------------------------------------------------------------------
(* The stop policies.                                                        *)

\* The distance to a PSAR is a whole number.
LEMMA PsarDistanceType ==
  ASSUME NEW side \in Sides, NEW entry \in Int, NEW psar \in Nat
  PROVE  /\ PsarDistance(side, entry, psar) \in Int
         /\ PsarUsable(side, entry, psar) => PsarDistance(side, entry, psar) \in Nat \ {0}
BY DEF PsarDistance, PsarUsable, Points, Sides

\* However far or near the PSAR is, on whichever side, the hybrid stop of an
\* alert with an ATR stays within the two multiples (HybridATRPsarStop).
THEOREM HybridStopIsClipped ==
  ASSUME NEW side \in Sides, NEW entry \in Int, NEW atr \in Nat \ {0}, NEW psar \in Nat
  PROVE  /\ MinMult * atr <= HybridATRPsarStop(side, entry, atr, psar)
         /\ HybridATRPsarStop(side, entry, atr, psar) <= MaxMult * atr
<1> DEFINE d == PsarDistance(side, entry, psar)
           low == MinMult * atr
           high == MaxMult * atr
<1>1. low <= high /\ low \in Nat /\ high \in Nat
  BY ProductMonotone
<1>2. CASE PsarUsable(side, entry, psar)
  <2>1. HybridATRPsarStop(side, entry, atr, psar) = Clip(d, low, high)
    BY <1>2 DEF HybridATRPsarStop
  <2>2. d \in Int
    BY PsarDistanceType
  <2> HIDE DEF d, low, high
  <2>3. low <= Clip(d, low, high) /\ Clip(d, low, high) <= high
    BY <1>1, <2>2 DEF Clip
  <2> QED
    BY <2>1, <2>3 DEF low, high
<1>3. CASE ~PsarUsable(side, entry, psar)
  <2> DEFINE middle == (MinMult + MaxMult) \div 2
  <2>1. HybridATRPsarStop(side, entry, atr, psar) = middle * atr
    BY <1>3 DEF HybridATRPsarStop
  <2>2. middle \in Nat /\ MinMult <= middle /\ middle <= MaxMult
    BY Midpoint
  <2> HIDE DEF middle
  <2>3. MinMult * atr <= middle * atr /\ middle * atr <= MaxMult * atr
    BY <2>2, ProductMonotone
  <2> QED
    BY <2>1, <2>3
<1> QED
  BY <1>2, <1>3

\* Every policy puts the stop at a positive distance, also without ATR and PSAR
\* and for a policy name nobody knows (build_default_stop_calculator).
THEOREM StopDistancePositive ==
  ASSUME NEW policy, NEW side \in Sides, NEW entry \in Int, NEW atr \in Nat, NEW psar \in Nat
  PROVE  StopDistance(policy, side, entry, atr, psar) \in Nat \ {0}
<1>1. ATRStop(atr) \in Nat \ {0}
  BY ProductPositive DEF ATRStop
<1>2. PSARStop(side, entry, atr, psar) \in Nat \ {0}
  BY <1>1, PsarDistanceType DEF PSARStop
<1>3. HybridATRPsarStop(side, entry, atr, psar) \in Nat \ {0}
  <2>1. CASE atr > 0
    <3> DEFINE d == PsarDistance(side, entry, psar)
               low == MinMult * atr
               high == MaxMult * atr
               middle == ((MinMult + MaxMult) \div 2) * atr
    <3>1. low \in Nat \ {0} /\ high \in Nat /\ low <= high /\ middle \in Nat \ {0} /\ d \in Int
      <4>1. low <= high /\ low \in Nat /\ high \in Nat
        BY ProductMonotone
      <4>2. low \in Nat \ {0} /\ middle \in Nat \ {0}
        BY <2>1, ProductPositive, Midpoint
      <4> QED
        BY <4>1, <4>2, PsarDistanceType
    <3>2. HybridATRPsarStop(side, entry, atr, psar) \in {Clip(d, low, high), middle}
      BY <2>1 DEF HybridATRPsarStop
    <3> HIDE DEF d, low, high, middle
    <3>3. Clip(d, low, high) \in Nat \ {0}
      BY <3>1 DEF Clip
    <3> QED
      BY <3>1, <3>2, <3>3
  <2>2. CASE ~(atr > 0)
    BY <2>2, PsarDistanceType DEF HybridATRPsarStop
  <2> QED
    BY <2>1, <2>2
<1> QED
  BY <1>1, <1>2, <1>3 DEF StopDistance

-----------------------------------------------------------------------------
(* The plan and the orders.                                                  *)

\* What the plan reads of an alert.
PlannedAlert == [signal : STRING, price : Nat, atr : Nat, psar : Nat]

\* The stop of an alert is at a positive distance.
LEMMA StopOfPositive ==
  ASSUME NEW policy, NEW alert \in PlannedAlert, NEW at \in Int
  PROVE  StopOf(policy, alert, at) \in Nat \ {0}
<1>1. InferSide(alert.signal) \in Sides
  BY DEF InferSide, Sides
<1>2. alert.atr \in Nat /\ alert.psar \in Nat
  BY DEF PlannedAlert
<1> QED
  BY <1>1, <1>2, StopDistancePositive DEF StopOf

\* Going a distance towards a side gains that distance.
LEMMA GainOfTowards ==
  ASSUME NEW side, NEW from \in Int, NEW d \in Int
  PROVE  Points(side, from, Towards(side, from, d)) = d
BY DEF Points, Towards

\* The lot of a budget, rounded down to a step and clamped into the broker's limits.
LEMMA BudgetLot ==
  ASSUME NEW budget \in Nat, NEW d \in Nat \ {0}, NEW fixed \in Int, fixed <= 0,
         NEW lot, lot = ComputeLot(budget, d, fixed, VolMin, VolMax)
  PROVE  /\ lot \in Int /\ VolMin <= lot /\ lot <= VolMax
         /\ lot = VolMin \/ EffectiveRisk(lot, d) <= budget
<1> DEFINE raw == budget \div d
<1>1. raw \in Nat /\ raw * d <= budget
  BY QuotientBelow
<1>2. lot = Larger(VolMin, Smaller(raw, VolMax))
  BY DEF ComputeLot
<1> HIDE DEF raw
<1>3. lot \in Nat /\ VolMin <= lot /\ lot <= VolMax /\ (lot = VolMin \/ lot <= raw)
  <2>1. /\ raw < 1 => lot = 1
        /\ 1 <= raw /\ raw < 10000 => lot = raw
        /\ 10000 <= raw => lot = 10000
    BY <1>1, <1>2 DEF Larger, Smaller, VolMin, VolMax
  <2>2. raw < 1 \/ (1 <= raw /\ raw < 10000) \/ 10000 <= raw
    BY <1>1
  <2>3. lot \in Int
    BY <1>1, <2>1, <2>2
  <2> QED
    BY <1>1, <2>1, <2>2, <2>3 DEF VolMin, VolMax
<1>4. lot <= raw => lot * d <= budget
  <2> SUFFICES ASSUME lot <= raw PROVE lot * d <= budget
    OBVIOUS
  <2>1. lot * d <= raw * d /\ lot * d \in Nat /\ raw * d \in Nat
    BY <1>1, <1>3, ProductMonotone
  <2> QED
    BY <1>1, <2>1
<1> QED
  BY <1>3, <1>4 DEF EffectiveRisk

\* A fixed lot, clamped likewise.
LEMMA FixedLotClamped ==
  ASSUME NEW budget, NEW d, NEW fixed \in Int, fixed > 0,
         NEW lot, lot = ComputeLot(budget, d, fixed, VolMin, VolMax)
  PROVE  /\ lot \in Int /\ VolMin <= lot /\ lot <= VolMax
         /\ fixed \in VolMin..VolMax => lot = fixed
<1>1. lot = Larger(VolMin, Smaller(fixed, VolMax))
  BY DEF ComputeLot
<1>2. /\ fixed < 10000 => lot = fixed
      /\ 10000 <= fixed => lot = 10000
  BY <1>1 DEF Larger, Smaller, VolMin, VolMax
<1>3. lot \in Int /\ 1 <= lot /\ lot <= 10000
  BY <1>2
<1>4. lot \in Int /\ VolMin <= lot /\ lot <= VolMax
  BY <1>3 DEF VolMin, VolMax
<1>5. fixed \in VolMin..VolMax => lot = fixed
  BY <1>2 DEF VolMin, VolMax
<1> QED
  BY <1>4, <1>5

\* Without an equity hint a plan has no lot.  With one, and no fixed lot, its lot
\* loses no more than the budget at its stop, unless the broker's smallest already
\* does (compute_lot rounds down, then clamps up).  A fixed lot is the lot whatever
\* the budget, so far as the broker takes it (mt5_fixed_lot).
THEOREM PlanWithinBudget ==
  ASSUME NEW policy, NEW alert \in PlannedAlert, NEW rr \in Int, NEW budget \in Int
  PROVE  LET plan == BuildPlan(policy, alert, rr, budget) IN
           /\ budget < 0 => plan.lot = 0
           /\ budget >= 0 => plan.lot \in Int /\ VolMin <= plan.lot /\ plan.lot <= VolMax
           /\ budget >= 0 /\ FixedLot <= 0 =>
                plan.lot = VolMin \/ EffectiveRisk(plan.lot, plan.distance) <= budget
           /\ budget >= 0 /\ FixedLot \in VolMin..VolMax => plan.lot = FixedLot
<1> DEFINE d    == StopOf(policy, alert, alert.price)
           lot  == ComputeLot(budget, d, FixedLot, VolMin, VolMax)
           plan == BuildPlan(policy, alert, rr, budget)
<1>1. d \in Nat \ {0}
  BY StopOfPositive DEF PlannedAlert
<1>2. plan.lot = (IF budget < 0 THEN 0 ELSE lot) /\ plan.distance = d
  BY DEF BuildPlan
<1> HIDE DEF d, lot, plan
<1>3. FixedLot \in Int /\ VolMin = 1
  BY RiskAssumption DEF VolMin
<1>4. CASE budget < 0
  BY <1>2, <1>4 DEF plan
<1>5. CASE budget >= 0 /\ FixedLot <= 0
  <2>1. lot \in Int /\ VolMin <= lot /\ lot <= VolMax /\ (lot = VolMin \/ EffectiveRisk(lot, d) <= budget)
    BY <1>1, <1>3, <1>5, BudgetLot DEF lot
  <2> QED
    BY <1>2, <1>3, <1>5, <2>1 DEF plan
<1>6. CASE budget >= 0 /\ FixedLot > 0
  <2>1. lot \in Int /\ VolMin <= lot /\ lot <= VolMax /\ (FixedLot \in VolMin..VolMax => lot = FixedLot)
    BY <1>3, <1>6, FixedLotClamped DEF lot
  <2> QED
    BY <1>2, <1>3, <1>6, <2>1 DEF plan
<1> QED
  BY <1>3, <1>4, <1>5, <1>6

\* Unless the model suggests a negative reward, the order sent to cTrader has the
\* side, reference, stop and take profit of the plan in the journal
\* (CTraderExecutor.execute against build_plan).
THEOREM CTraderOrderIsThePlan ==
  ASSUME NEW policy, NEW alert \in PlannedAlert, NEW rr \in Nat, NEW budget \in Nat
  PROVE  LET plan  == BuildPlan(policy, alert, rr, budget)
             order == CTraderOrder(policy, alert, rr)
         IN order = [side |-> plan.side, at |-> plan.entry, stop |-> plan.stop, take |-> plan.take]
<1> DEFINE used == IF rr = 0 THEN DefaultRr ELSE rr
<1>1. Larger(used, 0) = used
  BY DEF Larger
<1> HIDE DEF used
<1> QED
  BY <1>1 DEF BuildPlan, CTraderOrder, Bracket, used

\* Whatever the policy and however far the tick of MT5 is from the alert's price,
\* both executors put the stop on the losing side of their reference and, unless
\* the model suggests a negative reward, the take profit on the winning one.
THEOREM OrdersAreBracketed ==
  ASSUME NEW policy, NEW alert \in PlannedAlert, NEW rr \in Nat, NEW tick \in Int,
         NEW order \in {CTraderOrder(policy, alert, rr), MT5Order(policy, alert, rr, tick)}
  PROVE  /\ Points(order.side, order.at, order.stop) < 0
         /\ Points(order.side, order.at, order.take) > 0
<1> DEFINE side == InferSide(alert.signal)
<1>1. ASSUME NEW at \in Int, NEW d \in Nat \ {0}, NEW used \in Nat \ {0},
             order = Bracket(side, at, d, used)
      PROVE  /\ Points(order.side, order.at, order.stop) < 0
             /\ Points(order.side, order.at, order.take) > 0
  <2>1. order.side = side /\ order.at = at /\ order.stop = Towards(side, at, -d)
        /\ order.take = Towards(side, at, d * used)
    BY <1>1 DEF Bracket
  <2> DEFINE reward == d * used
  <2>2. reward \in Nat \ {0}
    BY ProductPositive
  <2> HIDE DEF side, reward
  <2>3. Points(side, at, Towards(side, at, -d)) = -d
    BY GainOfTowards
  <2>4. Points(side, at, Towards(side, at, reward)) = reward
    BY <2>2, GainOfTowards
  <2> QED
    BY <2>1, <2>2, <2>3, <2>4 DEF reward
<1>2. CASE order = CTraderOrder(policy, alert, rr)
  <2>1. alert.price \in Int /\ StopOf(policy, alert, alert.price) \in Nat \ {0}
    BY StopOfPositive DEF PlannedAlert
  <2>2. (IF rr = 0 THEN DefaultRr ELSE rr) \in Nat \ {0}
    OBVIOUS
  <2> QED
    BY <1>1, <1>2, <2>1, <2>2 DEF CTraderOrder
<1>3. CASE order = MT5Order(policy, alert, rr, tick)
  <2>1. StopOf(policy, alert, tick) \in Nat \ {0}
    BY StopOfPositive
  <2>2. (IF rr = 0 THEN 2 ELSE rr) \in Nat \ {0}
    OBVIOUS
  <2> QED
    BY <1>1, <1>3, <2>1, <2>2 DEF MT5Order
<1> QED
  BY <1>2, <1>3

-----------------------------------------------------------------------------
(* A simulated trade.                                                        *)

USE SimulatorAssumption

\* The stop distance of a simulated signal is positive.
LEMMA DistancePositive ==
  ASSUME setup \in Setups
  PROVE  Distance \in Nat \ {0}
<1>1. setup.side \in Sides /\ setup.atr \in Nat /\ setup.policy \in {"hybrid", "psar", "atr"}
  BY DEF Setups
<1>2. Distance = StopDistance(setup.policy, setup.side, Entry, setup.atr, 0)
  BY <1>1 DEF Distance, StopDistance
<1> QED
  BY <1>1, <1>2, StopDistancePositive

\* The two stops a trade can have, by what they lock in.
LEMMA StopGains ==
  ASSUME setup \in Setups
  PROVE  /\ InitialStop \in Int /\ Gain(InitialStop) = -Distance
         /\ Buffered \in Int /\ Gain(Buffered) \in Nat
         /\ Take \in Int /\ Gain(Take) > 0
<1>1. Distance \in Nat \ {0} /\ setup.atr \in Nat
  BY DistancePositive DEF Setups
<1> DEFINE reward == Distance * Rr
           buffer == BufferMult * setup.atr
<1>2. reward \in Nat \ {0} /\ buffer \in Nat
  BY <1>1, ProductPositive
<1> HIDE DEF reward, buffer
<1>3. \A d \in Int : LET at == Towards(setup.side, Entry, d) IN at \in Int /\ Gain(at) = d
  <2> SUFFICES ASSUME NEW d \in Int
               PROVE  /\ Towards(setup.side, Entry, d) \in Int
                      /\ Points(setup.side, Entry, Towards(setup.side, Entry, d)) = d
    BY DEF Gain
  <2>1. Entry \in Int
    OBVIOUS
  <2>2. Towards(setup.side, Entry, d) \in Int
    BY <2>1 DEF Towards
  <2> QED
    BY <2>1, <2>2, GainOfTowards
<1>4. InitialStop \in Int /\ Gain(InitialStop) = -Distance
  <2> DEFINE d == -Distance
  <2>1. d \in Int /\ InitialStop = Towards(setup.side, Entry, d)
    BY <1>1 DEF InitialStop
  <2> HIDE DEF d
  <2>2. InitialStop \in Int /\ Gain(InitialStop) = d
    BY <1>3, <2>1
  <2> QED
    BY <2>2 DEF d
<1>5. Buffered \in Int /\ Gain(Buffered) = buffer
  <2>1. Buffered = Towards(setup.side, Entry, buffer)
    BY DEF Buffered, buffer
  <2> QED
    BY <1>2, <1>3, <2>1
<1>6. Take \in Int /\ Gain(Take) = reward
  <2>1. Take = Towards(setup.side, Entry, reward)
    BY DEF Take, reward
  <2> QED
    BY <1>2, <1>3, <2>1
<1> QED
  BY <1>2, <1>4, <1>5, <1>6

\* A bar's close lies between its extremes, seen from either side.
LEMMA BarOrdered ==
  ASSUME setup \in Setups, NEW b \in Bars
  PROVE  /\ Gain(Worst(b)) \in Int /\ Gain(b.close) \in Int /\ Gain(Best(b)) \in Int
         /\ Gain(Worst(b)) <= Gain(b.close) /\ Gain(b.close) <= Gain(Best(b))
BY DEF Bars, Setups, Sides, Gain, Points, Worst, Best

\* The stop is the initial one until it is shifted, then the buffered one.
StopSound ==
  /\ setup \in Setups
  /\ shifted \in BOOLEAN
  /\ stop = IF shifted THEN Buffered ELSE InitialStop

\* What the stop in force locks in.
LEMMA StopGain ==
  ASSUME StopSound
  PROVE  /\ Gain(stop) \in Int /\ Gain(stop) >= -Distance
         /\ shifted => Gain(stop) >= 0
         /\ ~shifted => Gain(stop) = -Distance
<1>1. Distance \in Nat \ {0}
  BY DistancePositive DEF StopSound
<1>2. CASE shifted
  <2>1. stop = Buffered /\ Gain(Buffered) \in Nat
    BY <1>2, StopGains DEF StopSound
  <2> QED
    BY <1>1, <1>2, <2>1
<1>3. CASE ~shifted
  <2>1. stop = InitialStop /\ Gain(InitialStop) = -Distance
    BY <1>3, StopGains DEF StopSound
  <2> QED
    BY <1>1, <1>3, <2>1
<1> QED
  BY <1>2, <1>3 DEF StopSound

\* Every step keeps the stop the initial or the buffered one.
LEMMA StopStep ==
  ASSUME StopSound, [Next]_vars
  PROVE  StopSound'
<1>1. CASE UNCHANGED <<setup, stop, shifted>>
  BY <1>1 DEF StopSound, Buffered, InitialStop, Distance
<1>2. ASSUME NEW b \in Bars, StaysOpen(b) PROVE StopSound'
  <2>1. UNCHANGED setup
    BY <1>2 DEF StaysOpen
  <2>2. Buffered' = Buffered /\ InitialStop' = InitialStop
    BY <2>1 DEF Buffered, InitialStop, Distance
  <2>3. CASE ShiftsAt(b.close)
    <3>1. stop' = Buffered /\ shifted' = TRUE
      BY <1>2, <2>3, Zenon DEF StaysOpen
    <3> QED
      BY <2>1, <2>2, <3>1 DEF StopSound
  <2>4. CASE ~ShiftsAt(b.close)
    <3>1. stop' = stop /\ shifted' = shifted
      BY <1>2, <2>4, Zenon DEF StaysOpen, StopSound
    <3> QED
      BY <2>1, <2>2, <3>1 DEF StopSound
  <2> QED
    BY <2>3, <2>4
<1> QED
  BY <1>1, <1>2 DEF Next, Skip, StoppedOut, TookProfit, IndicatorExit, Exit, vars

\* The outcome of every exit but a plain stop agrees with its points.
LEMMA OutcomeAgrees ==
  ASSUME NEW reason, NEW exit, Gain(exit) \in Int,
         reason = "tp" => Gain(exit) > 0, reason = "sl" => Gain(exit) < 0
  PROVE  /\ Outcome(reason, exit) = "win" <=> Gain(exit) > 0
         /\ Outcome(reason, exit) = "loss" <=> Gain(exit) < 0
BY DEF Outcome

\* The exit of a bar loses at most the distance, and nothing once shifted.
LEMMA BoundedExit ==
  ASSUME StopSound, NEW b \in Bars, NEW reason, NEW price, Exit(b, reason, price),
         Gain(price) \in Int, Gain(price) >= Gain(stop) \/ Gain(price) >= 0,
         reason = "tp" => Gain(price) > 0, reason = "sl" => Gain(price) < 0
  PROVE  RiskBounded'
<1>1. /\ result'.exit = price /\ result'.outcome = Outcome(reason, price)
      /\ UNCHANGED <<setup, stop, shifted>>
  BY DEF Exit
<1>2. \A at : Gain(at)' = Gain(at)
  BY <1>1 DEF Gain
<1>3. Distance' = Distance /\ Distance \in Nat
  BY <1>1, DistancePositive DEF Distance, StopSound
<1>4. Gain(price) >= -Distance /\ (shifted => Gain(price) >= 0)
  BY <1>3, StopGain
<1>5. /\ Outcome(reason, price) = "win" <=> Gain(price) > 0
      /\ Outcome(reason, price) = "loss" <=> Gain(price) < 0
  BY OutcomeAgrees
<1>6. Gain(result.exit)' = Gain(price) /\ shifted' = shifted
  BY <1>1 DEF Gain
<1> QED
  BY <1>1, <1>3, <1>4, <1>5, <1>6 DEF RiskBounded

\* Every step keeps what a trade can lose within its bounds.
LEMMA RiskStep ==
  ASSUME StopSound, StopSound', RiskBounded, [Next]_vars
  PROVE  RiskBounded'
<1> USE DEF StopSound
<1>1. CASE UNCHANGED vars
  BY <1>1 DEF vars, RiskBounded, Traded, Gain, Distance
<1>2. CASE Skip
  BY <1>2 DEF Skip, Skipped, RiskBounded, Traded
<1>3. ASSUME NEW b \in Bars, StoppedOut(b) PROVE RiskBounded'
  <2> DEFINE reason == IF shifted /\ Gain(stop) >= 0 THEN "sl_breakeven" ELSE "sl"
  <2>1. Exit(b, reason, stop)
    BY <1>3 DEF StoppedOut
  <2>2. /\ Gain(stop) \in Int /\ reason # "tp"
        /\ reason = "sl" => Gain(stop) < 0
    <3>1. Distance \in Nat \ {0}
      BY DistancePositive
    <3> QED
      BY <3>1, StopGain
  <2> HIDE DEF reason
  <2> QED
    BY <2>1, <2>2, BoundedExit
<1>4. ASSUME NEW b \in Bars, TookProfit(b) PROVE RiskBounded'
  <2>1. Exit(b, "tp", Take) /\ Gain(Take) > 0 /\ ~StopTouched(b) /\ TakeTouched(b)
    BY <1>4, StopGains DEF TookProfit
  <2>2. Gain(Take) \in Int
    BY StopGains DEF Gain, Points
  <2> QED
    BY <2>1, <2>2, BoundedExit
<1>5. ASSUME NEW b \in Bars, IndicatorExit(b) PROVE RiskBounded'
  <2>1. Exit(b, "indicator", b.close) /\ Gain(Worst(b)) > Gain(stop)
    BY <1>5, BarOrdered, StopGain DEF IndicatorExit, StopTouched
  <2>2. Gain(b.close) \in Int /\ Gain(b.close) >= Gain(stop)
    BY <2>1, BarOrdered, StopGain
  <2> QED
    BY <2>1, <2>2, BoundedExit
<1>6. ASSUME NEW b \in Bars, StaysOpen(b) PROVE RiskBounded'
  <2>1. CASE result' = NoResult
    BY <2>1 DEF NoResult, RiskBounded, Traded
  <2>2. CASE result' # NoResult
    <3>1. /\ result'.exit = b.close /\ result'.outcome = Outcome("timeout", b.close)
          /\ UNCHANGED setup /\ Gain(Worst(b)) > Gain(stop)
      BY <1>6, <2>2, BarOrdered, StopGain DEF StaysOpen, StopTouched
    <3>2. Gain(b.close) \in Int /\ Gain(b.close) > Gain(stop)
      BY <3>1, BarOrdered, StopGain
    <3>3. Distance' = Distance /\ Distance \in Nat \ {0} /\ Gain(result.exit)' = Gain(b.close)
      BY <3>1, DistancePositive DEF Distance, Gain
    <3>4. Gain(b.close) >= -Distance
      BY <3>2, <3>3, StopGain
    <3>5. shifted' => Gain(b.close) >= 0
      <4>1. CASE shifted
        BY <3>2, <4>1, StopGain
      <4>2. CASE ShiftsAt(b.close)
        <5> DEFINE trigger == TriggerR * Distance
        <5>1. trigger \in Nat \ {0}
          BY <3>3, ProductPositive
        <5>2. 10 * Gain(b.close) >= trigger
          BY <4>2 DEF ShiftsAt
        <5> HIDE DEF trigger
        <5> QED
          BY <3>2, <5>1, <5>2
      <4>3. shifted' => shifted \/ ShiftsAt(b.close)
        BY <1>6, Zenon DEF StaysOpen
      <4> QED
        BY <4>1, <4>2, <4>3
    <3>6. /\ Outcome("timeout", b.close) = "win" <=> Gain(b.close) > 0
          /\ Outcome("timeout", b.close) = "loss" <=> Gain(b.close) < 0
      BY <3>2, OutcomeAgrees
    <3> QED
      BY <3>1, <3>3, <3>4, <3>5, <3>6 DEF RiskBounded
  <2> QED
    BY <2>1, <2>2
<1> QED
  BY <1>1, <1>2, <1>3, <1>4, <1>5, <1>6 DEF Next

\* THEOREM: no simulated trade loses more than it was sized for, none whose stop
\* was shifted loses, and wins and losses are counted by the points, for every
\* market, policy, reward and trigger.
THEOREM TradesAreBounded == Spec => []RiskBounded
<1>1. Init => StopSound /\ RiskBounded
  <2>1. NoResult.reason = "none"
    BY DEF NoResult
  <2> QED
    BY <2>1 DEF Init, StopSound, RiskBounded, Traded
<1>2. StopSound /\ [Next]_vars => StopSound'
  BY StopStep
<1>3. StopSound /\ StopSound' /\ RiskBounded /\ [Next]_vars => RiskBounded'
  BY RiskStep
<1> QED
  BY <1>1, <1>2, <1>3, PTL DEF Spec

-----------------------------------------------------------------------------
(* The walk.                                                                 *)

Trigger(at) == 10 * Gain(at) >= TriggerR * Distance

\* The closes of the first n bars have earned a shift.
Earned(n) == setup.breakeven /\ setup.atr > 0 /\ \E j \in 1..n : Trigger(path[j].close)

EarnsNow(b) == setup.breakeven /\ setup.atr > 0 /\ Trigger(b.close)

Untouched(k) == ~StopsOn(k) /\ ~TakesOn(k) /\ ~CrossesOn(k)

\* While the walk goes on, no bar behind it touched anything, and the stop is
\* shifted exactly if a close behind it has earned that.
Walk ==
  /\ path \in Seq(Bars)
  /\ result = NoResult =>
       /\ setup.data > 0 => Len(path) < Last
       /\ shifted <=> Earned(Len(path))
       /\ \A k \in 1..Len(path) : Untouched(k)

\* One more bar, the n-th, changes nothing that was said of those before it.
LEMMA OneMoreBar ==
  ASSUME path \in Seq(Bars), NEW b \in Bars, path' = Append(path, b), UNCHANGED setup,
         NEW n \in Nat, n = Len(path) + 1
  PROVE  /\ path' \in Seq(Bars) /\ Len(path') = n /\ path'[n] = b
         /\ \A k \in 1..n : StopOn(k)' = StopOn(k)
         /\ \A k \in 1..(n - 1) : Untouched(k)' <=> Untouched(k)
         /\ Earned(n)' <=> Earned(n - 1) \/ EarnsNow(b)
<1>1. /\ path' \in Seq(Bars) /\ Len(path') = n /\ path'[n] = b /\ Len(path) = n - 1
      /\ \A k \in 1..(n - 1) : path'[k] = path[k]
  OBVIOUS
<1>2. /\ InitialStop' = InitialStop /\ Buffered' = Buffered /\ Take' = Take
      /\ Distance' = Distance /\ setup' = setup
      /\ \A at : Gain(at)' = Gain(at)
      /\ \A c : Worst(c)' = Worst(c) /\ Best(c)' = Best(c)
  BY DEF InitialStop, Buffered, Take, Distance, Gain, Worst, Best
<1>3. \A at : Trigger(at)' <=> Trigger(at)
  BY <1>2 DEF Trigger
<1>4. \A j \in 1..(n - 1) : Trigger(path[j].close)' <=> Trigger(path[j].close)
  BY <1>1, <1>2 DEF Trigger
<1>5. ASSUME NEW k \in 1..n PROVE Earned(k - 1)' <=> Earned(k - 1)
  <2>1. \A j \in 1..(k - 1) : j \in 1..(n - 1)
    OBVIOUS
  <2>2. \A j \in 1..(k - 1) : Trigger(path[j].close)' <=> Trigger(path[j].close)
    BY <1>4, <2>1
  <2> QED
    BY <1>2, <2>2, Zenon DEF Earned
<1>6. ASSUME NEW k \in 1..n PROVE StopOn(k)' = StopOn(k)
  <2>1. StopOn(k) = IF Earned(k - 1) THEN Buffered ELSE InitialStop
    BY DEF StopOn, Earned, Trigger
  <2>2. StopOn(k)' = IF Earned(k - 1)' THEN Buffered' ELSE InitialStop'
    BY DEF StopOn, Earned, Trigger
  <2> QED
    BY <1>2, <1>5, <2>1, <2>2, Zenon
<1>7. ASSUME NEW k \in 1..(n - 1) PROVE Untouched(k)' <=> Untouched(k)
  <2>1. StopOn(k)' = StopOn(k) /\ path'[k] = path[k]
    BY <1>1, <1>6
  <2> QED
    BY <1>2, <2>1 DEF Untouched, StopsOn, TakesOn, CrossesOn
<1>8. Earned(n)' <=> Earned(n - 1) \/ EarnsNow(b)
  <2>1. \A j : j \in 1..n <=> j \in 1..(n - 1) \/ j = n
    BY <1>1
  <2>2. Trigger(path[n].close)' <=> Trigger(b.close)
    BY <1>1, <1>2 DEF Trigger
  <2>3. Earned(n)' <=> /\ setup.breakeven /\ setup.atr > 0
                      /\ \E j \in 1..n : Trigger(path[j].close)'
    BY <1>2, Zenon DEF Earned
  <2>4. (\E j \in 1..n : Trigger(path[j].close)') <=>
          (\E j \in 1..(n - 1) : Trigger(path[j].close)) \/ Trigger(b.close)
    <3>1. ASSUME NEW j \in 1..n, Trigger(path[j].close)'
          PROVE  (\E i \in 1..(n - 1) : Trigger(path[i].close)) \/ Trigger(b.close)
      BY <1>4, <2>1, <2>2, <3>1, Zenon
    <3>2. ASSUME NEW i \in 1..(n - 1), Trigger(path[i].close)
          PROVE  \E j \in 1..n : Trigger(path[j].close)'
      BY <1>4, <2>1, <3>2, Zenon
    <3>3. ASSUME Trigger(b.close) PROVE \E j \in 1..n : Trigger(path[j].close)'
      BY <2>1, <2>2, <3>3, Zenon
    <3> QED
      BY <3>1, <3>2, <3>3, Zenon
  <2>5. Earned(n - 1) <=> /\ setup.breakeven /\ setup.atr > 0
                         /\ \E j \in 1..(n - 1) : Trigger(path[j].close)
    BY Zenon DEF Earned
  <2> QED
    BY <2>3, <2>4, <2>5, Zenon DEF EarnsNow
<1> QED
  BY <1>1, <1>6, <1>7, <1>8

\* The stop the walk compares the n-th bar with is the one its past prescribes.
LEMMA StopInForce ==
  ASSUME StopSound, Walk, result = NoResult, NEW b \in Bars, path' = Append(path, b),
         UNCHANGED setup, NEW n \in Nat, n = Len(path) + 1
  PROVE  /\ StopOn(n)' = stop
         /\ StopsOn(n)' <=> StopTouched(b)
         /\ TakesOn(n)' <=> TakeTouched(b)
         /\ CrossesOn(n)' <=> CrossExit(b)
<1>1. n \in 1..n /\ n - 1 = Len(path) /\ path'[n] = b /\ StopOn(n)' = StopOn(n)
  <2>1. path \in Seq(Bars)
    BY DEF Walk
  <2>2. n \in 1..n
    BY <2>1
  <2> QED
    BY <2>1, <2>2, OneMoreBar
<1>2. StopOn(n) = stop
  <2>1. StopOn(n) = IF Earned(n - 1) THEN Buffered ELSE InitialStop
    BY DEF StopOn, Earned, Trigger
  <2>2. shifted <=> Earned(n - 1)
    BY <1>1 DEF Walk
  <2> QED
    BY <2>1, <2>2, Zenon DEF StopSound
<1>3. Take' = Take /\ (\A at : Gain(at)' = Gain(at)) /\ Worst(b)' = Worst(b) /\ Best(b)' = Best(b)
  BY DEF Take, Distance, Gain, Worst, Best
<1>4. StopsOn(n)' <=> StopTouched(b)
  BY <1>1, <1>2, <1>3 DEF StopsOn, StopTouched
<1>5. TakesOn(n)' <=> TakeTouched(b)
  BY <1>1, <1>3 DEF TakesOn, TakeTouched
<1>6. CrossesOn(n)' <=> CrossExit(b)
  BY <1>1 DEF CrossesOn, CrossExit
<1> QED
  BY <1>1, <1>2, <1>4, <1>5, <1>6

\* Every step keeps what is said of the walk.
LEMMA WalkStep ==
  ASSUME StopSound, Walk, [Next]_vars
  PROVE  Walk'
<1>1. CASE UNCHANGED vars
  BY <1>1 DEF vars, Walk, Last, Earned, Untouched, StopsOn, TakesOn, CrossesOn, StopOn, Trigger,
              Gain, Distance, Worst, Best, Take, Buffered, InitialStop
<1>2. CASE Skip
  BY <1>2 DEF Skip, Skipped, NoResult, Walk
<1>3. ASSUME NEW b \in Bars, NEW reason \in Reasons \ {"none"}, NEW price, Exit(b, reason, price)
      PROVE  Walk'
  <2>1. path' \in Seq(Bars) /\ result' # NoResult
    BY <1>3 DEF Exit, Walk, NoResult
  <2> QED
    BY <2>1 DEF Walk
<1>4. ASSUME NEW b \in Bars, StaysOpen(b) PROVE Walk'
  <2> PICK n \in Nat : n = Len(path) + 1
    BY DEF Walk
  <2>1. /\ result = NoResult /\ path' = Append(path, b) /\ UNCHANGED setup /\ setup.data > 0
        /\ ~StopTouched(b) /\ ~TakeTouched(b) /\ ~CrossExit(b) /\ path \in Seq(Bars)
    BY <1>4 DEF StaysOpen, Walking, Walk
  <2>2. /\ path' \in Seq(Bars) /\ Len(path') = n
        /\ \A k \in 1..(n - 1) : Untouched(k)' <=> Untouched(k)
        /\ Earned(n)' <=> Earned(n - 1) \/ EarnsNow(b)
    BY <2>1, OneMoreBar
  <2>3. result' = NoResult => n < Last
    BY <1>4 DEF StaysOpen, NoResult
  <2>4. ASSUME NEW k \in 1..n PROVE Untouched(k)'
    <3>1. CASE k = n
      BY <2>1, <3>1, StopInForce, Zenon DEF Untouched
    <3>2. CASE k # n
      <4>1. k \in 1..Len(path) /\ k \in 1..(n - 1)
        BY <2>1, <3>2
      <4>2. Untouched(k)
        BY <2>1, <4>1 DEF Walk
      <4> QED
        BY <2>2, <4>1, <4>2
    <3> QED
      BY <3>1, <3>2
  <2>5. shifted' <=> Earned(n)'
    <3>1. shifted' <=> shifted \/ ShiftsAt(b.close)
      BY <1>4, Zenon DEF StaysOpen
    <3>2. shifted <=> Earned(n - 1)
      <4>1. n - 1 = Len(path)
        BY <2>1
      <4> QED
        BY <2>1, <4>1 DEF Walk
    <3>3. ~shifted => Gain(Buffered) > Gain(stop)
      <4> SUFFICES ASSUME ~shifted PROVE Gain(Buffered) > Gain(stop)
        OBVIOUS
      <4>1. Gain(stop) = -Distance /\ Distance \in Nat \ {0} /\ Gain(Buffered) \in Nat
        BY StopGain, StopGains, DistancePositive DEF StopSound
      <4> QED
        BY <4>1
    <3>4. ~shifted => (ShiftsAt(b.close) <=> EarnsNow(b))
      BY <3>3 DEF ShiftsAt, EarnsNow, Trigger
    <3> QED
      BY <2>2, <3>1, <3>2, <3>4, Zenon
  <2>6. Last' = Last /\ Len(path') = n
    BY <2>1, <2>2 DEF Last
  <2>7. result' = NoResult => Len(path') < Last'
    BY <2>3, <2>6
  <2>8. shifted' <=> Earned(Len(path))'
    BY <2>5, <2>6 DEF Earned
  <2>9. \A k \in 1..Len(path') : Untouched(k)'
    BY <2>4, <2>6
  <2> QED
    BY <2>2, <2>7, <2>8, <2>9 DEF Walk
<1> QED
  BY <1>1, <1>2, <1>3, <1>4 DEF Next, StoppedOut, TookProfit, IndicatorExit, Reasons

\* A bar that ends the trade as the first-touch rule says makes FirstTouch true.
LEMMA TouchedAtLast ==
  ASSUME StopSound, Walk, Walking, NEW b \in Bars, path' = Append(path, b), UNCHANGED setup,
         result'.reason \in {"sl", "sl_breakeven"} <=> StopTouched(b),
         result'.reason = "tp" <=> ~StopTouched(b) /\ TakeTouched(b),
         result'.reason = "indicator" <=> ~StopTouched(b) /\ CrossExit(b),
         result'.reason = "timeout" => Len(path) + 1 = Last,
         result'.exit = IF StopTouched(b) THEN stop ELSE IF TakeTouched(b) THEN Take ELSE b.close
  PROVE  FirstTouch'
<1> PICK n \in Nat : n = Len(path) + 1
  BY DEF Walk
<1>1. result = NoResult /\ path \in Seq(Bars) /\ n - 1 = Len(path)
  BY DEF Walk, Walking
<1>2. /\ Len(path') = n /\ path'[n] = b
      /\ \A k \in 1..(n - 1) : Untouched(k)' <=> Untouched(k)
  BY <1>1, OneMoreBar
<1>3. \A k \in 1..(n - 1) : Untouched(k)'
  BY <1>1, <1>2 DEF Walk
<1>4. /\ StopOn(n)' = stop
      /\ StopsOn(n)' <=> StopTouched(b)
      /\ TakesOn(n)' <=> TakeTouched(b)
      /\ CrossesOn(n)' <=> CrossExit(b)
  BY <1>1, StopInForce
<1>5. Last' = Last /\ Take' = Take
  BY DEF Last, Take, Distance
<1> DEFINE Rule(m) ==
      /\ \A k \in 1..(m - 1) : ~StopsOn(k) /\ ~TakesOn(k) /\ ~CrossesOn(k)
      /\ result.reason \in {"sl", "sl_breakeven"} <=> StopsOn(m)
      /\ result.reason = "tp" <=> ~StopsOn(m) /\ TakesOn(m)
      /\ result.reason = "indicator" <=> ~StopsOn(m) /\ CrossesOn(m)
      /\ result.reason = "timeout" => m = Last
      /\ result.exit = CASE StopsOn(m) -> StopOn(m)
                         [] ~StopsOn(m) /\ TakesOn(m) -> Take
                         [] OTHER -> path[m].close
<1>6. Rule(n)'
  <2>1. \A k \in 1..(n - 1) : (~StopsOn(k) /\ ~TakesOn(k) /\ ~CrossesOn(k))'
    BY <1>3 DEF Untouched
  <2>2. result'.exit = CASE StopsOn(n)' -> StopOn(n)'
                         [] ~StopsOn(n)' /\ TakesOn(n)' -> Take'
                         [] OTHER -> path'[n].close
    <3>1. CASE StopTouched(b)
      BY <1>2, <1>4, <1>5, <3>1
    <3>2. CASE ~StopTouched(b) /\ TakeTouched(b)
      BY <1>2, <1>4, <1>5, <3>2
    <3>3. CASE ~StopTouched(b) /\ ~TakeTouched(b)
      BY <1>2, <1>4, <1>5, <3>3
    <3> QED
      BY <3>1, <3>2, <3>3
  <2>3. result'.reason = "timeout" => n = Last'
    BY <1>1, <1>5
  <2> QED
    BY <1>4, <2>1, <2>2, <2>3
<1>7. FirstTouch' <=> (Traded' => Rule(Len(path))')
  BY DEF FirstTouch
<1>8. Rule(Len(path))'
  BY <1>2, <1>6
<1> QED
  BY <1>7, <1>8

\* Where the walk ends at the latest.
LEMMA LastTyped ==
  ASSUME setup \in Setups
  PROVE  Last \in Nat /\ (setup.data > 0 => 0 < Last)
<1>1. setup.data \in Nat
  <2>1. setup.data \in Data
    BY DEF Setups
  <2> QED
    BY <2>1
<1> QED
  BY <1>1 DEF Last, Smaller

\* Every step keeps the first-touch rule.
LEMMA TouchStep ==
  ASSUME StopSound, Walk, FirstTouch, [Next]_vars
  PROVE  FirstTouch'
<1>1. CASE UNCHANGED vars
  BY <1>1 DEF vars, FirstTouch, Traded, Last, StopsOn, TakesOn, CrossesOn, StopOn, Gain, Distance,
              Worst, Best, Take, Buffered, InitialStop
<1>2. CASE Skip
  BY <1>2 DEF Skip, Skipped, FirstTouch, Traded
<1>3. ASSUME NEW b \in Bars, StoppedOut(b) PROVE FirstTouch'
  <2>1. /\ Walking /\ StopTouched(b) /\ path' = Append(path, b) /\ UNCHANGED setup
        /\ result'.reason \in {"sl", "sl_breakeven"} /\ result'.exit = stop
    BY <1>3 DEF StoppedOut, Exit
  <2>2. result'.reason \notin {"tp", "indicator", "timeout"}
    BY <2>1
  <2> QED
    BY <2>1, <2>2, TouchedAtLast
<1>4. ASSUME NEW b \in Bars, TookProfit(b) PROVE FirstTouch'
  <2>1. /\ Walking /\ ~StopTouched(b) /\ TakeTouched(b) /\ path' = Append(path, b)
        /\ UNCHANGED setup /\ result'.reason = "tp" /\ result'.exit = Take
    BY <1>4 DEF TookProfit, Exit
  <2>2. ~CrossExit(b)
    BY <2>1 DEF TakeTouched, CrossExit
  <2> QED
    BY <2>1, <2>2, TouchedAtLast
<1>5. ASSUME NEW b \in Bars, IndicatorExit(b) PROVE FirstTouch'
  <2>1. /\ Walking /\ ~StopTouched(b) /\ CrossExit(b) /\ path' = Append(path, b)
        /\ UNCHANGED setup /\ result'.reason = "indicator" /\ result'.exit = b.close
    BY <1>5 DEF IndicatorExit, Exit
  <2>2. ~TakeTouched(b)
    BY <2>1 DEF TakeTouched, CrossExit
  <2> QED
    BY <2>1, <2>2, TouchedAtLast
<1>6. ASSUME NEW b \in Bars, StaysOpen(b) PROVE FirstTouch'
  <2>1. CASE result' = NoResult
    BY <2>1 DEF NoResult, FirstTouch, Traded
  <2>2. CASE result' # NoResult
    <3>1. /\ Walking /\ ~StopTouched(b) /\ ~TakeTouched(b) /\ ~CrossExit(b)
          /\ path' = Append(path, b) /\ UNCHANGED setup /\ ~(Len(path) + 1 < Last)
          /\ result'.reason = "timeout" /\ result'.exit = b.close
      BY <1>6, <2>2 DEF StaysOpen
    <3>2. Last \in Int
      BY LastTyped DEF StopSound
    <3>3. Len(path) + 1 = Last
      <4>1. Len(path) < Last /\ Len(path) \in Nat
        BY <3>1 DEF Walk, Walking
      <4> QED
        BY <3>1, <3>2, <4>1
    <3> QED
      BY <3>1, <3>3, TouchedAtLast
  <2> QED
    BY <2>1, <2>2
<1> QED
  BY <1>1, <1>2, <1>3, <1>4, <1>5, <1>6 DEF Next

\* THEOREM: a simulated trade ends on the first bar that touches the stop in
\* force on it, the take profit or the exit cross, the stop winning a tie; no
\* close that lies ahead moves the stop.
THEOREM FirstTouchWins == Spec => []FirstTouch
<1>1. Init => StopSound /\ Walk /\ FirstTouch
  <2> SUFFICES ASSUME Init PROVE StopSound /\ Walk /\ FirstTouch
    OBVIOUS
  <2>1. StopSound /\ FirstTouch
    BY DEF Init, StopSound, NoResult, FirstTouch, Traded
  <2>2. path \in Seq(Bars) /\ Len(path) = 0 /\ ~shifted
    BY DEF Init
  <2>3. setup.data > 0 => 0 < Last
    BY LastTyped DEF Init
  <2>4. ~Earned(0)
    BY DEF Earned
  <2> QED
    BY <2>1, <2>2, <2>3, <2>4 DEF Walk
<1>2. StopSound /\ Walk /\ FirstTouch /\ [Next]_vars => StopSound' /\ Walk' /\ FirstTouch'
  BY StopStep, WalkStep, TouchStep
<1> QED
  BY <1>1, <1>2, PTL DEF Spec

-----------------------------------------------------------------------------
(* Types.                                                                    *)

\* A bar that ends the trade at a whole price keeps the types.
LEMMA ExitTyped ==
  ASSUME TypeOK, Walk, Walking, NEW b \in Bars, NEW reason \in Reasons, NEW price \in Int,
         Exit(b, reason, price)
  PROVE  TypeOK'
<1>1. Last' = Last /\ Last \in Int /\ Len(path) < Last
  <2>1. Last \in Int
    BY LastTyped DEF TypeOK
  <2>2. Last' = Last
    BY DEF Last, Exit
  <2> QED
    BY <2>1, <2>2 DEF Walk, Walking
<1>2. path' \in Seq(Bars) /\ Len(path') = Len(path) + 1 /\ Len(path) \in Nat
  BY DEF TypeOK, Exit
<1>3. Len(path') <= Last'
  BY <1>1, <1>2
<1>4. Outcome(reason, price) \in {"none", "win", "loss", "breakeven"}
  BY DEF Outcome
<1> QED
  BY <1>2, <1>3, <1>4 DEF TypeOK, Exit

\* THEOREM: the state of a walk keeps its types, and a walk never passes its
\* last bar.
THEOREM TypeCorrect == Spec => []TypeOK
<1>1. Init => StopSound /\ Walk /\ TypeOK
  <2> SUFFICES ASSUME Init PROVE StopSound /\ Walk /\ TypeOK
    OBVIOUS
  <2>1. StopSound
    BY DEF Init, StopSound
  <2>2. path \in Seq(Bars) /\ Len(path) = 0 /\ ~shifted
    BY DEF Init
  <2>3. Last \in Nat /\ (setup.data > 0 => 0 < Last)
    BY LastTyped DEF Init
  <2>4. ~Earned(0)
    BY DEF Earned
  <2>5. stop \in Int
    BY StopGains DEF Init
  <2>6. NoResult \in [reason : Reasons, exit : Int, outcome : {"none", "win", "loss", "breakeven"}]
    BY SimulatorAssumption DEF NoResult, Reasons
  <2>7. Walk
    BY <2>2, <2>3, <2>4 DEF Walk
  <2>8. setup \in Setups /\ shifted \in BOOLEAN
    BY <2>1 DEF StopSound
  <2>9. result = NoResult /\ Len(path) <= Last
    BY <2>2, <2>3 DEF Init
  <2> QED
    BY <2>1, <2>2, <2>5, <2>6, <2>7, <2>8, <2>9 DEF TypeOK
<1>2. StopSound /\ Walk /\ TypeOK /\ [Next]_vars => TypeOK'
  <2> SUFFICES ASSUME StopSound, Walk, TypeOK, [Next]_vars PROVE TypeOK'
    OBVIOUS
  <2>0. InitialStop \in Int /\ Buffered \in Int /\ Take \in Int
    BY StopGains DEF TypeOK
  <2>1. CASE UNCHANGED vars
    BY <2>1 DEF vars, TypeOK, Last
  <2>2. CASE Skip
    BY <2>2, SimulatorAssumption DEF Skip, Skipped, TypeOK, Reasons, Last
  <2>3. ASSUME NEW b \in Bars, StoppedOut(b) PROVE TypeOK'
    <3>1. Walking /\ Exit(b, IF shifted /\ Gain(stop) >= 0 THEN "sl_breakeven" ELSE "sl", stop)
      BY <2>3 DEF StoppedOut
    <3>2. (IF shifted /\ Gain(stop) >= 0 THEN "sl_breakeven" ELSE "sl") \in Reasons
      BY DEF Reasons
    <3>3. stop \in Int
      BY DEF TypeOK
    <3> QED
      BY <3>1, <3>2, <3>3, ExitTyped
  <2>4. ASSUME NEW b \in Bars, TookProfit(b) PROVE TypeOK'
    <3>1. Walking /\ Exit(b, "tp", Take) /\ "tp" \in Reasons
      BY <2>4 DEF TookProfit, Reasons
    <3> QED
      BY <2>0, <3>1, ExitTyped
  <2>5. ASSUME NEW b \in Bars, IndicatorExit(b) PROVE TypeOK'
    <3>1. Walking /\ Exit(b, "indicator", b.close) /\ "indicator" \in Reasons
      BY <2>5 DEF IndicatorExit, Reasons
    <3>2. b.close \in Int
      BY DEF Bars
    <3> QED
      BY <3>1, <3>2, ExitTyped
  <2>6. ASSUME NEW b \in Bars, StaysOpen(b) PROVE TypeOK'
    <3>1. Last' = Last /\ Last \in Int /\ Len(path) < Last
      <4>1. Last \in Int
        BY LastTyped DEF TypeOK
      <4>2. Last' = Last
        BY <2>6 DEF Last, StaysOpen
      <4> QED
        BY <2>6, <4>1, <4>2 DEF StaysOpen, Walk, Walking
    <3>2. path' \in Seq(Bars) /\ Len(path') = Len(path) + 1 /\ Len(path) \in Nat
      BY <2>6 DEF TypeOK, StaysOpen
    <3>3. Len(path') <= Last'
      BY <3>1, <3>2
    <3>4. stop' \in Int /\ shifted' \in BOOLEAN /\ setup' = setup
      BY <2>0, <2>6, Zenon DEF StaysOpen, TypeOK
    <3>5. /\ Outcome("timeout", b.close) \in {"none", "win", "loss", "breakeven"}
          /\ b.close \in Int /\ NoResult.reason = "none" /\ NoResult.outcome = "none"
          /\ NoResult.exit \in Int
      BY SimulatorAssumption DEF Outcome, NoResult, Bars
    <3>6. result' \in [reason : Reasons, exit : Int, outcome : {"none", "win", "loss", "breakeven"}]
      BY <2>6, <3>5 DEF StaysOpen, Reasons, NoResult
    <3> QED
      BY <3>2, <3>3, <3>4, <3>6 DEF TypeOK
  <2> QED
    BY <2>1, <2>2, <2>3, <2>4, <2>5, <2>6 DEF Next
<1>3. StopSound /\ Walk /\ [Next]_vars => StopSound' /\ Walk'
  BY StopStep, WalkStep
<1> QED
  BY <1>1, <1>2, <1>3, PTL DEF Spec

-----------------------------------------------------------------------------
(* The journal.                                                              *)

Plans   == {None} \cup {BuildPlan("hybrid", alert, rr, Budget) : alert \in Alerts, rr \in Rrs}
Orders  == {None} \cup {CTraderOrder("hybrid", alert, rr) : alert \in Alerts, rr \in Rrs}
Results == {Open} \cup {Settled(plan, body) : plan \in Plans, body \in Bodies}
Rows    == [plan : Plans, order : Orders, result : Results]

CallRecords ==
  [pc : {"idle", "script", "alter", "run", "write", "failed", "broken"},
   op : {"none", "record", "patch", "stats", "winrate"},
   log : Instances \cup {NoLog}, alter : 0..4, id : {0} \cup (1..MaxRows),
   memory : Plans, body : Bodies \cup {None}, counts : Seq(Nat),
   begin : [aged : Nat, length : Nat, closed : SUBSET Nat]]

JournalTypes ==
  /\ columns \in SUBSET AllColumns
  /\ rows \in Seq(Rows)
  /\ aged \in 0..Len(rows)
  /\ ready \in [Instances -> BOOLEAN]
  /\ call \in [Calls -> CallRecords]
  /\ faults \in Nat /\ refused \in [Instances -> SUBSET AllColumns]

\* What a call counts on is there, at whatever point of init_schema it is, but for
\* what its instance saw refused, and so is what an instance that is ready counts
\* on.  A table that is there has the columns of the first version, and one that
\* the script went through the outcome too.
SchemaSound ==
  /\ columns = {} \/ "base" \in columns
  /\ \A i \in Instances : ready[i] =>
       "outcome" \in columns /\ AllColumns \ columns \subseteq refused[i]
  /\ \A c \in Calls :
       /\ call[c].pc # "idle" => call[c].log \in Instances
       /\ call[c].pc \in {"run", "write"} => ready[call[c].log]
       /\ call[c].pc = "script" => call[c].alter = 0
       /\ call[c].pc = "alter" =>
            /\ "outcome" \in columns
            /\ \A k \in 1..call[c].alter : Migrations[k] \in columns \cup refused[call[c].log]
       /\ call[c].pc = "broken" =>
            columns # {} /\ (refused[call[c].log] # {} \/ "outcome" \notin columns)

\* What a PATCH holds in its hands is the plan of the row it is about to write.
PatchesSound ==
  \A c \in Calls :
    /\ call[c].op = "patch" => call[c].body \in Bodies
    /\ call[c].pc = "write" => /\ call[c].op = "patch" /\ call[c].id \in 1..Len(rows)
                               /\ call[c].memory = rows[call[c].id].plan

\* What a call saw when it began is still there, and its counts are those of
\* its SELECTs.
BeginningsSound ==
  \A c \in Calls :
    LET begin == call[c].begin IN
      /\ begin.aged <= aged /\ begin.length <= Len(rows) /\ begin.closed \subseteq Closed
      /\ call[c].counts # << >> => /\ call[c].op \in DOMAIN Selects
                                   /\ Len(call[c].counts) <= Len(Selects[call[c].op])

\* Call c goes to a place, with what it then holds, and the others stay.
Moves(c, pc, alter, memory, counts) ==
  /\ call' \in [Calls -> CallRecords]
  /\ \A x \in Calls \ {c} : call'[x] = call[x]
  /\ call'[c].pc = pc /\ call'[c].alter = alter
  /\ call'[c].memory = memory /\ call'[c].counts = counts
  /\ call'[c].op = call[c].op /\ call'[c].log = call[c].log /\ call'[c].id = call[c].id
  /\ call'[c].body = call[c].body /\ call'[c].begin = call[c].begin

\* Call c is over, and the others stay.
IsOver(c) ==
  /\ call' \in [Calls -> CallRecords]
  /\ \A x \in Calls \ {c} : call'[x] = call[x]
  /\ call'[c] = Idle

\* Rows stay, with their plan and order, a closed one stays closed, and the
\* window only moves on.
RowsKept ==
  /\ Len(rows) <= Len(rows') /\ aged <= aged'
  /\ \A i \in 1..Len(rows) :
       /\ rows'[i].plan = rows[i].plan /\ rows'[i].order = rows[i].order
       /\ rows[i].result # Open => rows'[i].result # Open

\* What is recorded is a row.
LEMMA PlansTyped ==
  ASSUME NEW alert \in Alerts, NEW rr \in Rrs, NEW order \in {None, CTraderOrder("hybrid", alert, rr)}
  PROVE  Recorded(BuildPlan("hybrid", alert, rr, Budget), order) \in Rows
<1>1. BuildPlan("hybrid", alert, rr, Budget) \in Plans
  BY DEF Plans
<1>2. order \in Orders
  BY DEF Orders
<1> QED
  BY <1>1, <1>2 DEF Recorded, Rows, Results

\* An outcome closes its row.
LEMMA SettledFacts ==
  ASSUME NEW plan \in Plans, NEW body \in Bodies
  PROVE  Settled(plan, body) \in Results /\ Settled(plan, body) # Open
<1>1. Settled(plan, body) \in Results
  BY DEF Results
<1>2. Settled(plan, body).outcome = body.outcome
  BY DEF Settled
<1> QED
  BY <1>1, <1>2, JournalAssumption DEF Open

\* A SELECT counts finitely many rows.
LEMMA CountTyped ==
  ASSUME JournalTypes, NEW select
  PROVE  /\ IsFiniteSet(Counted(select)) /\ Cardinality(Counted(select)) \in Nat
<1>1. IsFiniteSet((aged + 1)..Len(rows))
  BY FS_Interval DEF JournalTypes
<1>2. Counted(select) \in SUBSET ((aged + 1)..Len(rows))
  BY DEF Counted
<1>3. IsFiniteSet(Counted(select))
  BY <1>1, <1>2, FS_Subset
<1> QED
  BY <1>3, FS_CardinalityType

\* A call that moves on stays a call.
LEMMA CallMoves ==
  ASSUME NEW call0 \in CallRecords, NEW memory \in Plans, NEW counts \in Seq(Nat), NEW n \in 0..4,
         NEW place \in {"idle", "script", "alter", "run", "write", "failed", "broken"}
  PROVE  /\ [call0 EXCEPT !.pc = place] \in CallRecords
         /\ [call0 EXCEPT !.alter = n] \in CallRecords
         /\ [call0 EXCEPT !.counts = counts] \in CallRecords
         /\ [call0 EXCEPT !.memory = memory, !.pc = place] \in CallRecords
<1> DEFINE places == {"idle", "script", "alter", "run", "write", "failed", "broken"}
           ops    == {"none", "record", "patch", "stats", "winrate"}
           logs   == Instances \cup {NoLog}
           alters == 0..4
           ids    == {0} \cup (1..MaxRows)
           bodies == Bodies \cup {None}
           seqs   == Seq(Nat)
           begins == [aged : Nat, length : Nat, closed : SUBSET Nat]
<1>1. CallRecords = [pc : places, op : ops, log : logs, alter : alters, id : ids, memory : Plans,
                     body : bodies, counts : seqs, begin : begins]
  BY DEF CallRecords
<1>2. place \in places /\ n \in alters /\ counts \in seqs
  OBVIOUS
<1> HIDE DEF places, ops, logs, alters, ids, bodies, seqs, begins
<1> QED
  BY <1>1, <1>2

\* The types hold at first.
LEMMA JournalInitTyped == JournalInit => JournalTypes
<1> SUFFICES ASSUME JournalInit PROVE JournalTypes
  OBVIOUS
<1>1. PICK d \in Databases : columns = ColumnsOf(d) /\ rows = IF d = "none" THEN << >> ELSE <<OldRow>>
  BY DEF JournalInit
<1>2. columns \in SUBSET AllColumns
  BY <1>1 DEF ColumnsOf, AllColumns
<1>3. OldRow \in Rows
  BY DEF OldRow, Rows, Plans, Orders, Results
<1>4. rows \in Seq(Rows)
  BY <1>1, <1>3
<1>5. Idle \in CallRecords
  <2>1. None \in Plans
    BY DEF Plans
  <2> QED
    BY <2>1 DEF Idle, CallRecords
<1> QED
  BY <1>2, <1>4, <1>5 DEF JournalInit, JournalTypes

\* The calls as init_schema goes on, or as a statement fails.
LEMMA MigrationMoves ==
  ASSUME JournalTypes, NEW c \in Calls
  PROVE  /\ Script(c) => Moves(c, IF ScriptWorks THEN "alter" ELSE "broken", call[c].alter,
                               call[c].memory, call[c].counts)
         /\ ScriptRefused(c) \/ StatementRefused(c) =>
              Moves(c, "failed", call[c].alter, call[c].memory, call[c].counts)
         /\ Breaks(c) => Moves(c, "broken", call[c].alter, call[c].memory, call[c].counts)
         /\ Alter(c) \/ AlterRefused(c) => call[c].alter \in 0..3
                          /\ Moves(c, "alter", call[c].alter + 1, call[c].memory, call[c].counts)
         /\ Initialised(c) => Moves(c, "run", call[c].alter, call[c].memory, call[c].counts)
<1> DEFINE old == call[c]
<1>1. old \in CallRecords
  BY DEF JournalTypes
<1>2. old.memory \in Plans /\ old.counts \in Seq(Nat) /\ old.alter \in 0..4
  BY <1>1 DEF CallRecords
<1>3. ASSUME NEW place \in {"alter", "failed", "broken", "run"}, GoTo(c, place)
      PROVE  Moves(c, place, old.alter, old.memory, old.counts)
  <2>1. [old EXCEPT !.pc = place] \in CallRecords
    BY <1>1, <1>2, CallMoves
  <2>2. call' = [call EXCEPT ![c] = [old EXCEPT !.pc = place]]
    BY <1>3 DEF GoTo
  <2> QED
    BY <1>1, <2>1, <2>2 DEF Moves, JournalTypes, CallRecords
<1>4. ASSUME Alter(c) \/ AlterRefused(c)
      PROVE  old.alter \in 0..3 /\ Moves(c, "alter", old.alter + 1, old.memory, old.counts)
  <2>1. old.alter \in 0..3 /\ old.alter + 1 \in 0..4
    BY <1>2, <1>4 DEF Alter, AlterRefused, Migrations
  <2>2. [old EXCEPT !.alter = old.alter + 1] \in CallRecords
    BY <1>1, <1>2, <2>1, CallMoves
  <2>3. call' = [call EXCEPT ![c] = [old EXCEPT !.alter = old.alter + 1]] /\ old.pc = "alter"
    BY <1>4 DEF Alter, AlterRefused
  <2> QED
    BY <1>1, <2>1, <2>2, <2>3 DEF Moves, JournalTypes, CallRecords
<1>5. Initialised(c) => GoTo(c, "run")
  BY DEF Initialised
<1>6. Script(c) => \/ ScriptWorks /\ GoTo(c, "alter")
                   \/ ~ScriptWorks /\ GoTo(c, "broken")
  BY DEF Script, ScriptWorks
<1>7. ScriptRefused(c) \/ StatementRefused(c) => GoTo(c, "failed")
  BY DEF ScriptRefused, StatementRefused
<1>8. Breaks(c) => GoTo(c, "broken")
  BY DEF Breaks
<1> QED
  BY <1>3, <1>4, <1>5, <1>6, <1>7, <1>8

\* The calls as the statements run.
LEMMA StatementMoves ==
  ASSUME JournalTypes, NEW c \in Calls
  PROVE  /\ Ends(c) => IsOver(c)
         /\ ReadRow(c) /\ call[c].id \in 1..Len(rows) =>
              Moves(c, "write", call[c].alter, rows[call[c].id].plan, call[c].counts)
         /\ Select(c) =>
              LET select == Selects[call[c].op][Len(call[c].counts) + 1] IN
                Moves(c, "run", call[c].alter, call[c].memory,
                      Append(call[c].counts, Cardinality(Counted(select))))
<1> DEFINE old == call[c]
           n   == Cardinality(Counted(Selects[old.op][Len(old.counts) + 1]))
<1>1. old \in CallRecords
  BY DEF JournalTypes
<1>2. old.memory \in Plans /\ old.counts \in Seq(Nat) /\ old.alter \in 0..4 /\ None \in Plans
  BY <1>1 DEF CallRecords, Plans
<1>3. ASSUME Ends(c) PROVE IsOver(c)
  <2>1. Idle \in CallRecords
    BY <1>2 DEF Idle, CallRecords
  <2> QED
    BY <1>3, <2>1 DEF Ends, IsOver, JournalTypes
<1>4. ASSUME ReadRow(c), old.id \in 1..Len(rows)
      PROVE  Moves(c, "write", old.alter, rows[old.id].plan, old.counts)
  <2> DEFINE plan == rows[old.id].plan
  <2>1. plan \in Plans
    <3>1. rows[old.id] \in Rows
      BY <1>4 DEF JournalTypes
    <3> QED
      BY <3>1 DEF Rows
  <2>2. [old EXCEPT !.memory = plan, !.pc = "write"] \in CallRecords
    BY <1>1, <1>2, <2>1, CallMoves
  <2>3. call' = [call EXCEPT ![c].memory = plan, ![c].pc = "write"]
    BY <1>4 DEF ReadRow
  <2> HIDE DEF plan
  <2>4. call' = [call EXCEPT ![c] = [old EXCEPT !.memory = plan, !.pc = "write"]]
    BY <2>3 DEF JournalTypes
  <2>5. Moves(c, "write", old.alter, plan, old.counts)
    BY <1>1, <2>2, <2>4 DEF Moves, JournalTypes, CallRecords
  <2> QED
    BY <2>5 DEF plan
<1>5. ASSUME Select(c)
      PROVE  Moves(c, "run", old.alter, old.memory, Append(old.counts, n))
  <2>1. n \in Nat
    BY CountTyped
  <2>2. call' = [call EXCEPT ![c] = [old EXCEPT !.counts = Append(old.counts, n)]] /\ old.pc = "run"
    BY <1>5 DEF Select, Runs
  <2> HIDE DEF n
  <2>3. Append(old.counts, n) \in Seq(Nat)
    BY <1>2, <2>1
  <2>4. [old EXCEPT !.counts = Append(old.counts, n)] \in CallRecords
    BY <1>1, <1>2, <2>3, CallMoves
  <2> QED
    BY <1>1, <2>2, <2>4 DEF Moves, JournalTypes, CallRecords
<1> QED
  BY <1>3, <1>4, <1>5

\* The table as rows are recorded and their outcomes written.
LEMMA TableSteps ==
  ASSUME JournalTypes, NEW c \in Calls
  PROVE  /\ \A alert \in Alerts, rr \in Rrs : Insert(c, alert, rr) =>
              /\ rows' \in Seq(Rows) /\ Len(rows') = Len(rows) + 1
              /\ \A i \in 1..Len(rows) : rows'[i] = rows[i]
              /\ rows'[Len(rows) + 1].result = Open
         /\ PatchesSound /\ WriteOutcome(c) =>
              LET k == call[c].id
                  new == Settled(rows[k].plan, call[c].body)
              IN /\ k \in 1..Len(rows) /\ call[c].body \in Bodies /\ rows[k].plan \in Plans
                 /\ rows' \in Seq(Rows) /\ Len(rows') = Len(rows)
                 /\ rows'[k].result = new /\ rows'[k].plan = rows[k].plan
                 /\ rows'[k].order = rows[k].order
                 /\ \A i \in 1..Len(rows) : i # k => rows'[i] = rows[i]
<1>1. ASSUME NEW alert \in Alerts, NEW rr \in Rrs, Insert(c, alert, rr)
      PROVE  /\ rows' \in Seq(Rows) /\ Len(rows') = Len(rows) + 1
             /\ \A i \in 1..Len(rows) : rows'[i] = rows[i]
             /\ rows'[Len(rows) + 1].result = Open
  <2>1. PICK order \in {None, CTraderOrder("hybrid", alert, rr)} :
          rows' = Append(rows, Recorded(BuildPlan("hybrid", alert, rr, Budget), order))
    BY <1>1 DEF Insert
  <2> DEFINE row == Recorded(BuildPlan("hybrid", alert, rr, Budget), order)
  <2>2. row \in Rows
    BY PlansTyped
  <2>3. row.result = Open
    BY DEF Recorded
  <2> HIDE DEF row
  <2>4. rows \in Seq(Rows) /\ rows' = Append(rows, row)
    BY <2>1 DEF row, JournalTypes
  <2>5. /\ rows' \in Seq(Rows) /\ Len(rows') = Len(rows) + 1
        /\ \A i \in 1..Len(rows) : rows'[i] = rows[i]
        /\ rows'[Len(rows) + 1] = row
    BY <2>2, <2>4
  <2> QED
    BY <2>3, <2>5
<1>2. ASSUME PatchesSound, WriteOutcome(c)
      PROVE  LET k == call[c].id
                 new == Settled(rows[k].plan, call[c].body)
             IN /\ k \in 1..Len(rows) /\ call[c].body \in Bodies /\ rows[k].plan \in Plans
                /\ rows' \in Seq(Rows) /\ Len(rows') = Len(rows)
                /\ rows'[k].result = new /\ rows'[k].plan = rows[k].plan
                /\ rows'[k].order = rows[k].order
                /\ \A i \in 1..Len(rows) : i # k => rows'[i] = rows[i]
  <2> DEFINE k == call[c].id
             new == Settled(rows[k].plan, call[c].body)
  <2>1. k \in 1..Len(rows) /\ call[c].body \in Bodies /\ call[c].memory = rows[k].plan
    BY <1>2 DEF WriteOutcome, Runs, PatchesSound
  <2>2. rows[k] \in Rows
    BY <2>1 DEF JournalTypes
  <2>3. rows[k].plan \in Plans /\ new \in Results
    BY <2>1, <2>2, SettledFacts DEF Rows
  <2>4. rows' = [rows EXCEPT ![k] = [rows[k] EXCEPT !.result = new]]
    BY <1>2, <2>1 DEF WriteOutcome
  <2> HIDE DEF k, new
  <2>5. [rows[k] EXCEPT !.result = new] \in Rows
    BY <2>2, <2>3 DEF Rows
  <2>6. /\ rows' \in Seq(Rows) /\ Len(rows') = Len(rows)
        /\ rows'[k] = [rows[k] EXCEPT !.result = new]
        /\ \A i \in 1..Len(rows) : i # k => rows'[i] = rows[i]
    <3> DEFINE row == [rows[k] EXCEPT !.result = new]
    <3>1. rows \in Seq(Rows) /\ row \in Rows /\ rows' = [rows EXCEPT ![k] = row]
      BY <2>4, <2>5 DEF JournalTypes
    <3> HIDE DEF row
    <3>2. /\ rows' \in Seq(Rows) /\ Len(rows') = Len(rows) /\ rows'[k] = row
          /\ \A i \in 1..Len(rows) : i # k => rows'[i] = rows[i]
      BY <2>1, <3>1
    <3> QED
      BY <3>2 DEF row
  <2>7. rows'[k].result = new /\ rows'[k].plan = rows[k].plan /\ rows'[k].order = rows[k].order
    BY <2>2, <2>6 DEF Rows
  <2> QED
    BY <2>1, <2>3, <2>6, <2>7 DEF k, new
<1> QED
  BY <1>1, <1>2

\* Every step keeps the types.
LEMMA JournalStepTyped == JournalTypes /\ PatchesSound /\ [JournalNext]_journalVars => JournalTypes'
<1> SUFFICES ASSUME JournalTypes, PatchesSound, [JournalNext]_journalVars PROVE JournalTypes'
  OBVIOUS
<1> USE DEF JournalTypes
<1>1. ASSUME NEW c \in Calls, NEW i \in Instances, NEW op \in {"record", "patch", "stats", "winrate"},
             NEW id \in {0} \cup (1..MaxRows), NEW body \in Bodies \cup {None}, Begins(c, i, op, id, body)
      PROVE  JournalTypes'
  <2>1. Closed \in SUBSET Nat /\ None \in Plans /\ Len(rows) \in Nat /\ aged \in Nat
    BY DEF Closed, Plans
  <2>3. Beginning(op) \in [aged : Nat, length : Nat, closed : SUBSET Nat]
    BY <2>1 DEF Beginning, Idle
  <2>2. call' \in [Calls -> CallRecords]
    BY <1>1, <2>1, <2>3 DEF Begins, Idle, CallRecords
  <2> QED
    BY <1>1, <2>2 DEF Begins
<1>2. ASSUME NEW c \in Calls, Script(c) PROVE JournalTypes'
  <2>1. columns' \in SUBSET AllColumns
    BY <1>2 DEF Script, ScriptColumns
  <2> QED
    BY <1>2, <2>1, MigrationMoves DEF Script, Moves
<1>3. ASSUME NEW c \in Calls, Alter(c) PROVE JournalTypes'
  <2>1. call[c].alter \in 0..3 /\ call' \in [Calls -> CallRecords]
    BY <1>3, MigrationMoves DEF Moves
  <2>2. Migrations[call[c].alter + 1] \in AllColumns
    BY <2>1 DEF Migrations, AllColumns
  <2> QED
    BY <1>3, <2>1, <2>2 DEF Alter
<1>4. ASSUME NEW c \in Calls, Initialised(c) PROVE JournalTypes'
  <2>1. call' \in [Calls -> CallRecords]
    BY <1>4, MigrationMoves DEF Moves
  <2> QED
    BY <1>4, <2>1 DEF Initialised
<1>5. ASSUME NEW c \in Calls, NEW alert \in Alerts, NEW rr \in Rrs, Insert(c, alert, rr)
      PROVE  JournalTypes'
  <2>1. rows' \in Seq(Rows) /\ Len(rows') = Len(rows) + 1
    BY <1>5, TableSteps
  <2>2. call' \in [Calls -> CallRecords] /\ UNCHANGED <<columns, aged, ready, faults, refused>>
    BY <1>5, StatementMoves DEF Insert, IsOver
  <2> QED
    BY <2>1, <2>2
<1>6. ASSUME NEW c \in Calls, ReadRow(c) PROVE JournalTypes'
  <2>1. call' \in [Calls -> CallRecords]
    BY <1>6, StatementMoves DEF ReadRow, Moves, IsOver
  <2> QED
    BY <1>6, <2>1 DEF ReadRow
<1>7. ASSUME NEW c \in Calls, WriteOutcome(c) PROVE JournalTypes'
  <2>1. rows' \in Seq(Rows) /\ Len(rows') = Len(rows)
    BY <1>7, TableSteps
  <2>2. call' \in [Calls -> CallRecords] /\ UNCHANGED <<columns, aged, ready, faults, refused>>
    BY <1>7, StatementMoves DEF WriteOutcome, IsOver
  <2> QED
    BY <2>1, <2>2
<1>8. ASSUME NEW c \in Calls, Select(c) PROVE JournalTypes'
  <2>1. call' \in [Calls -> CallRecords]
    BY <1>8, StatementMoves DEF Moves
  <2> QED
    BY <1>8, <2>1 DEF Select
<1>9. ASSUME NEW c \in Calls, Answer(c) PROVE JournalTypes'
  BY <1>9, StatementMoves DEF Answer, IsOver
<1>10. CASE Age
  BY <1>10 DEF Age
<1>11. CASE UNCHANGED journalVars
  BY <1>11 DEF journalVars
<1>12. ASSUME NEW c \in Calls, NEW i \in Instances, NEW op \in {"record", "patch", "stats", "winrate"},
              NEW id \in {0} \cup (1..MaxRows), NEW body \in Bodies \cup {None}
       PROVE  Begins(c, i, op, id, body) => JournalTypes'
  BY <1>1
<1>13. ASSUME NEW c \in Calls, ScriptRefused(c) PROVE JournalTypes'
  <2>1. columns' \in SUBSET AllColumns
    BY <1>13 DEF ScriptRefused, ScriptColumns
  <2>2. call' \in [Calls -> CallRecords]
    BY <1>13, MigrationMoves DEF Moves
  <2> QED
    BY <1>13, <2>1, <2>2 DEF ScriptRefused, OneMoreFault
<1>14. ASSUME NEW c \in Calls, AlterRefused(c) PROVE JournalTypes'
  <2>1. call[c].alter \in 0..3 /\ call' \in [Calls -> CallRecords]
    BY <1>14, MigrationMoves DEF Moves
  <2>2. Migrations[call[c].alter + 1] \in AllColumns
    BY <2>1 DEF Migrations, AllColumns
  <2>3. refused' \in [Instances -> SUBSET AllColumns]
    BY <1>14, <2>2 DEF AlterRefused
  <2>4. UNCHANGED <<columns, rows, aged, ready>> /\ faults' = faults + 1
    BY <1>14 DEF AlterRefused, OneMoreFault
  <2> QED
    BY <2>1, <2>3, <2>4
<1>15. ASSUME NEW c \in Calls, Breaks(c) \/ StatementRefused(c) PROVE JournalTypes'
  <2>1. call' \in [Calls -> CallRecords]
    BY <1>15, MigrationMoves DEF Moves
  <2> QED
    BY <1>15, <2>1 DEF Breaks, StatementRefused, OneMoreFault
<1>16. ASSUME NEW w \in Workers, Crash(w) PROVE JournalTypes'
  <2>1. Idle \in CallRecords
    <3>1. None \in Plans
      BY DEF Plans
    <3> QED
      BY <3>1 DEF Idle, CallRecords
  <2>2. call' \in [Calls -> CallRecords]
    BY <1>16, <2>1 DEF Crash
  <2>3. ready' \in [Instances -> BOOLEAN] /\ refused' \in [Instances -> SUBSET AllColumns]
    BY <1>16 DEF Crash
  <2> QED
    BY <1>16, <2>2, <2>3 DEF Crash, OneMoreFault
<1> QED
  BY <1>2, <1>3, <1>4, <1>5, <1>6, <1>7, <1>8, <1>9, <1>10, <1>11, <1>12, <1>13, <1>14, <1>15, <1>16
  DEF JournalNext, Instances

-----------------------------------------------------------------------------
(* The schema.                                                               *)

\* The schema is sound on whatever database the bridge finds.
LEMMA SchemaInit == JournalInit => SchemaSound
<1> SUFFICES ASSUME JournalInit PROVE SchemaSound
  OBVIOUS
<1>1. PICK d \in Databases : columns = ColumnsOf(d)
  BY DEF JournalInit
<1>2. columns = {} \/ "base" \in columns
  BY <1>1 DEF ColumnsOf, AllColumns
<1>3. \A i \in Instances : ~ready[i]
  BY DEF JournalInit
<1>4. \A c \in Calls : call[c].pc = "idle"
  BY DEF JournalInit, Idle
<1> QED
  BY <1>2, <1>3, <1>4 DEF SchemaSound

\* A step of call c that adds columns or refusals and leaves the instances' flags
\* keeps the schema sound where it is sound for c.
LEMMA SchemaOfOthers ==
  ASSUME JournalTypes, SchemaSound, NEW c \in Calls,
         columns \subseteq columns', columns' = {} \/ "base" \in columns',
         \A i \in Instances : refused[i] \subseteq refused'[i],
         \A i \in Instances : ready'[i] => ready[i],
         columns # {} /\ "outcome" \notin columns => "outcome" \notin columns',
         \A x \in Calls \ {c} : call'[x] = call[x]
  PROVE  /\ columns' = {} \/ "base" \in columns'
         /\ \A i \in Instances : ready'[i] =>
              "outcome" \in columns' /\ AllColumns \ columns' \subseteq refused'[i]
         /\ \A x \in Calls \ {c} :
              /\ call'[x].pc # "idle" => call'[x].log \in Instances
              /\ call'[x].pc \in {"run", "write"} => ready[call'[x].log]
              /\ call'[x].pc = "script" => call'[x].alter = 0
              /\ call'[x].pc = "alter" =>
                   /\ "outcome" \in columns'
                   /\ \A k \in 1..call'[x].alter : Migrations[k] \in columns' \cup refused'[call'[x].log]
              /\ call'[x].pc = "broken" =>
                   columns' # {} /\ (refused'[call'[x].log] # {} \/ "outcome" \notin columns')
BY DEF SchemaSound

\* Every step keeps the schema sound: columns are only added.
LEMMA SchemaStep == JournalTypes /\ SchemaSound /\ [JournalNext]_journalVars => SchemaSound'
<1> SUFFICES ASSUME JournalTypes, SchemaSound, [JournalNext]_journalVars PROVE SchemaSound'
  OBVIOUS
<1>1. ASSUME NEW c \in Calls, NEW i \in Instances, NEW op, NEW id, NEW body, Begins(c, i, op, id, body)
      PROVE  SchemaSound'
  <2>1. /\ call' = [call EXCEPT ![c] = [Idle EXCEPT
             !.pc = IF ready[i] THEN "run" ELSE "script",
             !.op = op, !.log = i, !.id = id, !.body = body,
             !.begin = Beginning(op)]]
        /\ UNCHANGED <<columns, ready, refused>>
    BY <1>1 DEF Begins
  <2>2. /\ call'[c].pc \in {"run", "script"} /\ (call'[c].pc = "run" => ready[i])
        /\ call'[c].alter = 0 /\ call'[c].log = i
    BY <2>1 DEF Idle, JournalTypes
  <2>3. \A x \in Calls : x # c => call'[x] = call[x]
    BY <2>1 DEF JournalTypes
  <2> QED
    BY <2>1, <2>2, <2>3 DEF SchemaSound
<1>2. ASSUME NEW c \in Calls, Script(c) PROVE SchemaSound'
  <2>1. /\ columns' = IF columns = {} THEN AllColumns ELSE columns
        /\ UNCHANGED <<ready, refused>> /\ call[c].pc = "script"
    BY <1>2 DEF Script, ScriptColumns
  <2>2. /\ columns' # {} /\ "base" \in columns' /\ columns \subseteq columns'
        /\ columns # {} /\ "outcome" \notin columns => "outcome" \notin columns'
        /\ ScriptWorks <=> "outcome" \in columns'
    BY <2>1 DEF SchemaSound, AllColumns, ScriptWorks, ScriptColumns
  <2>3. /\ call'[c].pc = (IF ScriptWorks THEN "alter" ELSE "broken") /\ call'[c].alter = 0
        /\ call'[c].log = call[c].log /\ call[c].log \in Instances
        /\ \A x \in Calls \ {c} : call'[x] = call[x]
    BY <1>2, <2>1, MigrationMoves DEF Moves, SchemaSound
  <2> QED
    BY <2>1, <2>2, <2>3, SchemaOfOthers DEF SchemaSound
<1>3. ASSUME NEW c \in Calls, ScriptRefused(c) PROVE SchemaSound'
  <2>1. /\ columns' \in {columns, IF columns = {} THEN AllColumns ELSE columns}
        /\ UNCHANGED <<ready, refused>> /\ call[c].pc = "script"
    BY <1>3 DEF ScriptRefused, ScriptColumns
  <2>2. /\ columns' = {} \/ "base" \in columns'
        /\ columns \subseteq columns'
        /\ columns # {} /\ "outcome" \notin columns => "outcome" \notin columns'
    BY <2>1 DEF SchemaSound, AllColumns
  <2>3. /\ call'[c].pc = "failed" /\ call'[c].log = call[c].log /\ call[c].log \in Instances
        /\ \A x \in Calls \ {c} : call'[x] = call[x]
    BY <1>3, <2>1, MigrationMoves DEF Moves, SchemaSound
  <2> QED
    BY <2>1, <2>2, <2>3, SchemaOfOthers DEF SchemaSound
<1>4. ASSUME NEW c \in Calls, Alter(c) \/ AlterRefused(c) PROVE SchemaSound'
  <2> DEFINE i == call[c].log
             m == Migrations[call[c].alter + 1]
  <2>1. call[c].pc = "alter" /\ UNCHANGED ready /\ i \in Instances /\ "outcome" \in columns
    BY <1>4 DEF Alter, AlterRefused, SchemaSound
  <2>2. /\ call[c].alter \in 0..3 /\ call'[c].pc = "alter" /\ call'[c].alter = call[c].alter + 1
        /\ call'[c].log = i /\ \A x \in Calls \ {c} : call'[x] = call[x]
    BY <1>4, MigrationMoves DEF Moves
  <2>3. \/ columns' = columns \cup {m} /\ UNCHANGED refused
        \/ UNCHANGED columns /\ refused' = [refused EXCEPT ![i] = @ \cup {m}]
    BY <1>4 DEF Alter, AlterRefused
  <2> HIDE DEF m, i
  <2>4. /\ columns \subseteq columns' /\ columns # {} /\ "base" \in columns'
        /\ \A j \in Instances : refused[j] \subseteq refused'[j]
        /\ m \in columns' \cup refused'[i]
    BY <2>1, <2>3 DEF JournalTypes, SchemaSound
  <2>5. \A k \in 1..call'[c].alter : Migrations[k] \in columns' \cup refused'[i]
    <3> SUFFICES ASSUME NEW k \in 1..call'[c].alter PROVE Migrations[k] \in columns' \cup refused'[i]
      OBVIOUS
    <3>1. k \in 1..call[c].alter \/ k = call[c].alter + 1
      BY <2>2
    <3>2. CASE k \in 1..call[c].alter
      BY <2>1, <2>4, <3>2 DEF SchemaSound, i
    <3>3. CASE k = call[c].alter + 1
      BY <2>4, <3>3 DEF m
    <3> QED
      BY <3>1, <3>2, <3>3
  <2> QED
    BY <2>1, <2>2, <2>4, <2>5, SchemaOfOthers DEF SchemaSound
<1>5. ASSUME NEW c \in Calls, Initialised(c) PROVE SchemaSound'
  <2> DEFINE i == call[c].log
  <2>1. /\ ready' = [ready EXCEPT ![i] = TRUE] /\ UNCHANGED <<columns, refused>>
        /\ call[c].pc = "alter" /\ call[c].alter = 4
    BY <1>5 DEF Initialised, Migrations
  <2>2. i \in Instances /\ "outcome" \in columns /\ AllColumns \ columns \subseteq refused[i]
    <3>1. i \in Instances /\ "outcome" \in columns /\ "base" \in columns
          /\ \A k \in 1..4 : Migrations[k] \in columns \cup refused[i]
      BY <2>1 DEF SchemaSound
    <3>2. {"execution", "outcome", "plan", "detail"} \subseteq columns \cup refused[i]
      BY <3>1 DEF Migrations
    <3> QED
      BY <3>1, <3>2 DEF AllColumns
  <2>3. /\ call'[c].pc = "run" /\ call'[c].log = i
        /\ \A x \in Calls \ {c} : call'[x] = call[x]
    BY <1>5, MigrationMoves DEF Moves
  <2> HIDE DEF i
  <2>4. ready'[i] /\ \A j \in Instances : j # i => ready'[j] = ready[j]
    BY <2>1, <2>2 DEF JournalTypes
  <2> QED
    BY <2>1, <2>2, <2>3, <2>4 DEF SchemaSound
<1>6. ASSUME NEW c \in Calls, NEW place \in {"run", "write", "failed", "broken"},
             call[c].pc \in {"run", "write"}, UNCHANGED <<columns, ready, refused>>,
             call'[c].pc = place, call'[c].log = call[c].log,
             place = "broken" => columns # AllColumns,
             \A x \in Calls \ {c} : call'[x] = call[x]
      PROVE  SchemaSound'
  <2> DEFINE i == call[c].log
  <2>1. /\ i \in Instances /\ ready[i] /\ "outcome" \in columns
        /\ AllColumns \ columns \subseteq refused[i]
    BY <1>6 DEF SchemaSound
  <2>2. place = "broken" => columns # {} /\ refused[i] # {}
    <3>1. columns \subseteq AllColumns
      BY DEF JournalTypes
    <3> QED
      BY <1>6, <2>1, <3>1
  <2> HIDE DEF i
  <2> QED
    BY <1>6, <2>1, <2>2 DEF SchemaSound, i
<1>7. ASSUME NEW c \in Calls, Ends(c), UNCHANGED <<columns, ready, refused>> PROVE SchemaSound'
  BY <1>7, StatementMoves DEF IsOver, Idle, SchemaSound
<1>8. ASSUME NEW c \in Calls, ReadRow(c) PROVE SchemaSound'
  <2>1. CASE call[c].id \in 1..Len(rows)
    BY <1>6, <1>8, <2>1, StatementMoves DEF ReadRow, Moves
  <2>2. CASE call[c].id \notin 1..Len(rows)
    BY <1>7, <1>8, <2>2 DEF ReadRow
  <2> QED
    BY <2>1, <2>2
<1>9. ASSUME NEW c \in Calls, Select(c) PROVE SchemaSound'
  <2>1. call'[c].pc = "run" /\ call'[c].log = call[c].log /\ \A x \in Calls \ {c} : call'[x] = call[x]
    BY <1>9, StatementMoves DEF Moves
  <2> QED
    BY <1>6, <1>9, <2>1 DEF Select, Runs
<1>10. ASSUME NEW c \in Calls, Breaks(c) PROVE SchemaSound'
  <2>1. columns # AllColumns
    BY <1>10 DEF Breaks, Named, AllColumns
  <2>2. call'[c].pc = "broken" /\ call'[c].log = call[c].log /\ \A x \in Calls \ {c} : call'[x] = call[x]
    BY <1>10, MigrationMoves DEF Moves
  <2> QED
    BY <1>6, <1>10, <2>1, <2>2 DEF Breaks
<1>11. ASSUME NEW c \in Calls, StatementRefused(c) PROVE SchemaSound'
  <2>1. call'[c].pc = "failed" /\ call'[c].log = call[c].log /\ \A x \in Calls \ {c} : call'[x] = call[x]
    BY <1>11, MigrationMoves DEF Moves
  <2> QED
    BY <1>6, <1>11, <2>1 DEF StatementRefused
<1>12. ASSUME NEW c \in Calls, NEW alert \in Alerts, NEW rr \in Rrs, Insert(c, alert, rr) PROVE SchemaSound'
  BY <1>7, <1>12 DEF Insert
<1>13. ASSUME NEW c \in Calls, WriteOutcome(c) \/ Answer(c) PROVE SchemaSound'
  BY <1>7, <1>13 DEF WriteOutcome, Answer
<1>14. ASSUME NEW w \in Workers, Crash(w) PROVE SchemaSound'
  <2>1. /\ UNCHANGED columns
        /\ \A i \in Instances : /\ ready'[i] = (i[1] # w /\ ready[i])
                                /\ refused'[i] = IF i[1] = w THEN {} ELSE refused[i]
        /\ \A c \in Calls : call'[c] = IF call[c].log[1] = w THEN Idle ELSE call[c]
    BY <1>14 DEF Crash
  <2>2. \A c \in Calls : call'[c] = Idle \/ (call'[c] = call[c] /\ call[c].log[1] # w)
    BY <2>1
  <2>3. Idle.pc = "idle"
    BY DEF Idle
  <2>4. \A i \in Instances : i[1] # w => refused'[i] = refused[i] /\ ready'[i] = ready[i]
    BY <2>1 DEF JournalTypes
  <2>5. \A i \in Instances : ready'[i] => ready[i] /\ refused'[i] = refused[i]
    BY <2>1
  <2>6. UNCHANGED columns
    BY <2>1
  <2> QED
    BY <2>2, <2>3, <2>4, <2>5, <2>6 DEF SchemaSound
<1>15. CASE Age
  BY <1>15 DEF Age, SchemaSound
<1>16. CASE UNCHANGED journalVars
  BY <1>16 DEF journalVars, SchemaSound
<1> QED
  BY <1>1, <1>2, <1>3, <1>4, <1>5, <1>8, <1>9, <1>10, <1>11, <1>12, <1>13, <1>14, <1>15, <1>16
  DEF JournalNext, Instances

-----------------------------------------------------------------------------
(* The rows.                                                                 *)

\* No step withdraws a row, changes its plan or its order, or opens it again.
LEMMA RowsStep == JournalTypes /\ PatchesSound /\ [JournalNext]_journalVars => RowsKept
<1> SUFFICES ASSUME JournalTypes, PatchesSound, [JournalNext]_journalVars PROVE RowsKept
  OBVIOUS
<1>1. Len(rows) \in Nat /\ aged \in Nat
  BY DEF JournalTypes
<1>2. ASSUME UNCHANGED <<rows, aged>> PROVE RowsKept
  BY <1>1, <1>2 DEF RowsKept
<1>3. ASSUME NEW c \in Calls, NEW alert \in Alerts, NEW rr \in Rrs, Insert(c, alert, rr) PROVE RowsKept
  <2>1. Len(rows') = Len(rows) + 1 /\ \A i \in 1..Len(rows) : rows'[i] = rows[i]
    BY <1>3, TableSteps
  <2>2. aged' = aged
    BY <1>3 DEF Insert
  <2> QED
    BY <1>1, <2>1, <2>2 DEF RowsKept
<1>4. ASSUME NEW c \in Calls, WriteOutcome(c) PROVE RowsKept
  <2> DEFINE k == call[c].id
  <2>1. /\ k \in 1..Len(rows) /\ call[c].body \in Bodies /\ rows[k].plan \in Plans
        /\ Len(rows') = Len(rows) /\ rows'[k].result = Settled(rows[k].plan, call[c].body)
        /\ rows'[k].plan = rows[k].plan /\ rows'[k].order = rows[k].order
        /\ \A i \in 1..Len(rows) : i # k => rows'[i] = rows[i]
    BY <1>4, TableSteps
  <2>2. rows'[k].result # Open
    BY <2>1, SettledFacts
  <2>3. aged' = aged
    BY <1>4 DEF WriteOutcome
  <2> HIDE DEF k
  <2> QED
    BY <1>1, <2>1, <2>2, <2>3 DEF RowsKept
<1>5. ASSUME NEW c \in Calls, ReadRow(c) \/ Script(c) \/ Alter(c) \/ Initialised(c) \/ Select(c) \/ Answer(c)
      PROVE  RowsKept
  BY <1>2, <1>5 DEF ReadRow, Script, Alter, Initialised, Select, Answer
<1>9. ASSUME NEW c \in Calls, ScriptRefused(c) \/ AlterRefused(c) \/ Breaks(c) \/ StatementRefused(c)
      PROVE  RowsKept
  BY <1>2, <1>9 DEF ScriptRefused, AlterRefused, Breaks, StatementRefused
<1>10. ASSUME NEW w \in Workers, Crash(w) PROVE RowsKept
  BY <1>2, <1>10 DEF Crash
<1>6. ASSUME NEW c \in Calls, NEW i \in Instances, NEW op, NEW id, NEW body, Begins(c, i, op, id, body)
      PROVE  RowsKept
  BY <1>2, <1>6 DEF Begins
<1>7. CASE Age
  BY <1>1, <1>7 DEF Age, RowsKept
<1>8. CASE UNCHANGED journalVars
  BY <1>2, <1>8 DEF journalVars
<1> QED
  BY <1>3, <1>4, <1>5, <1>6, <1>7, <1>8, <1>9, <1>10 DEF JournalNext, Instances

\* What a call does to itself: it begins, goes on with what it was asked, or is over.
Began(c) ==
  /\ call[c] = Idle
  /\ call'[c].op = "patch" => call'[c].body \in Bodies
  /\ call'[c].pc \in {"script", "run"} /\ call'[c].counts = << >>
  /\ call'[c].begin.aged <= aged /\ call'[c].begin.length <= Len(rows)
  /\ call'[c].begin.closed \subseteq Closed

WentOn(c) ==
  /\ call'[c].op = call[c].op /\ call'[c].id = call[c].id /\ call'[c].body = call[c].body
  /\ call'[c].begin = call[c].begin
  /\ call'[c].pc = "write" =>
       /\ call[c].op = "patch" /\ call[c].id \in 1..Len(rows)
       /\ call'[c].memory = rows[call[c].id].plan
  /\ \/ call'[c].counts = call[c].counts
     \/ /\ call[c].op \in DOMAIN Selects /\ Len(call[c].counts) < Len(Selects[call[c].op])
        /\ LET select == Selects[call[c].op][Len(call[c].counts) + 1] IN
             call'[c].counts = Append(call[c].counts, Cardinality(Counted(select)))
        /\ UNCHANGED <<rows, aged>>

\* Every call is where it was, or has begun, gone on or ended.
LEMMA CallStep ==
  JournalTypes /\ [JournalNext]_journalVars =>
    \A x \in Calls : call'[x] = call[x] \/ Began(x) \/ WentOn(x) \/ call'[x] = Idle
<1> SUFFICES ASSUME JournalTypes, [JournalNext]_journalVars
             PROVE  \A x \in Calls : call'[x] = call[x] \/ Began(x) \/ WentOn(x) \/ call'[x] = Idle
  OBVIOUS
<1> DEFINE Fine == \A x \in Calls : call'[x] = call[x] \/ Began(x) \/ WentOn(x) \/ call'[x] = Idle
<1>1. ASSUME NEW c \in Calls, NEW i \in Instances, NEW op, NEW id, NEW body, Begins(c, i, op, id, body),
             op = "patch" => body \in Bodies
      PROVE  Fine
  <2>1. /\ call[c] = Idle
        /\ call' = [call EXCEPT ![c] = [Idle EXCEPT
             !.pc = IF ready[i] THEN "run" ELSE "script",
             !.op = op, !.log = i, !.id = id, !.body = body,
             !.begin = Beginning(op)]]
    BY <1>1 DEF Begins
  <2>2. /\ call'[c].pc \in {"run", "script"} /\ call'[c].counts = << >>
        /\ call'[c].op = op /\ call'[c].body = body
        /\ call'[c].begin = Beginning(op)
        /\ \A x \in Calls : x # c => call'[x] = call[x]
    BY <2>1 DEF Idle, JournalTypes
  <2>4. /\ Beginning(op).aged <= aged /\ Beginning(op).length <= Len(rows)
        /\ Beginning(op).closed \subseteq Closed
    BY DEF Beginning, Idle, JournalTypes
  <2>3. Began(c)
    BY <1>1, <2>1, <2>2, <2>4 DEF Began
  <2> QED
    BY <2>2, <2>3
<1>2. ASSUME NEW c \in Calls, Script(c) \/ Alter(c) \/ Initialised(c) \/ ScriptRefused(c)
                             \/ AlterRefused(c) \/ Breaks(c) \/ StatementRefused(c)
      PROVE  Fine
  <2>1. /\ \A x \in Calls \ {c} : call'[x] = call[x]
        /\ call'[c].pc # "write"
        /\ call'[c].op = call[c].op /\ call'[c].id = call[c].id /\ call'[c].body = call[c].body
        /\ call'[c].begin = call[c].begin /\ call'[c].counts = call[c].counts
    BY <1>2, MigrationMoves DEF Moves
  <2>2. WentOn(c)
    BY <2>1 DEF WentOn
  <2> QED
    BY <2>1, <2>2
<1>3. ASSUME NEW c \in Calls, Ends(c) PROVE Fine
  BY <1>3, StatementMoves DEF IsOver
<1>4. ASSUME NEW c \in Calls, ReadRow(c) PROVE Fine
  <2>1. CASE call[c].id \in 1..Len(rows)
    <3>1. Moves(c, "write", call[c].alter, rows[call[c].id].plan, call[c].counts) /\ call[c].op = "patch"
      BY <1>4, <2>1, StatementMoves DEF ReadRow
    <3>2. WentOn(c)
      BY <2>1, <3>1 DEF WentOn, Moves
    <3> QED
      BY <3>1, <3>2 DEF Moves
  <2>2. CASE call[c].id \notin 1..Len(rows)
    BY <1>3, <1>4, <2>2 DEF ReadRow
  <2> QED
    BY <2>1, <2>2
<1>5. ASSUME NEW c \in Calls, Select(c) PROVE Fine
  <2> DEFINE n == Cardinality(Counted(Selects[call[c].op][Len(call[c].counts) + 1]))
  <2>1. Moves(c, "run", call[c].alter, call[c].memory, Append(call[c].counts, n))
    BY <1>5, StatementMoves
  <2>2. /\ call[c].op \in DOMAIN Selects /\ Len(call[c].counts) < Len(Selects[call[c].op])
        /\ UNCHANGED <<rows, aged>>
    BY <1>5 DEF Select
  <2>3. WentOn(c)
    BY <2>1, <2>2 DEF WentOn, Moves
  <2> QED
    BY <2>1, <2>3 DEF Moves
<1>6. ASSUME NEW c \in Calls, NEW alert \in Alerts, NEW rr \in Rrs, Insert(c, alert, rr) PROVE Fine
  BY <1>3, <1>6 DEF Insert
<1>7. ASSUME NEW c \in Calls, WriteOutcome(c) \/ Answer(c) PROVE Fine
  BY <1>3, <1>7 DEF WriteOutcome, Answer
<1>8. CASE Age
  BY <1>8 DEF Age
<1>9. CASE UNCHANGED journalVars
  BY <1>9 DEF journalVars
<1>10. ASSUME NEW w \in Workers, Crash(w) PROVE Fine
  BY <1>10 DEF Crash
<1> QED
  BY <1>1, <1>2, <1>4, <1>5, <1>6, <1>7, <1>8, <1>9, <1>10 DEF JournalNext, Instances

\* A PATCH goes on holding the plan of its row.
LEMMA PatchesStep ==
  JournalTypes /\ PatchesSound /\ [JournalNext]_journalVars => PatchesSound'
<1> SUFFICES ASSUME JournalTypes, PatchesSound, [JournalNext]_journalVars, NEW x \in Calls
             PROVE  /\ call'[x].op = "patch" => call'[x].body \in Bodies
                    /\ call'[x].pc = "write" => /\ call'[x].op = "patch" /\ call'[x].id \in 1..Len(rows')
                                                /\ call'[x].memory = rows'[call'[x].id].plan
  BY DEF PatchesSound
<1>1. /\ Len(rows) \in Nat /\ Len(rows') \in Nat /\ Len(rows) <= Len(rows')
      /\ \A i \in 1..Len(rows) : rows'[i].plan = rows[i].plan
  BY RowsStep, JournalStepTyped DEF RowsKept, JournalTypes
<1>2. CASE call'[x] = call[x]
  BY <1>1, <1>2 DEF PatchesSound
<1>3. CASE Began(x)
  BY <1>3 DEF Began
<1>4. CASE WentOn(x)
  BY <1>1, <1>4 DEF WentOn, PatchesSound
<1>5. CASE call'[x] = Idle
  BY <1>5 DEF Idle
<1> QED
  BY <1>2, <1>3, <1>4, <1>5, CallStep

\* A closed row goes on holding what one PATCH reckoned by its plan.
LEMMA OutcomeStep ==
  JournalTypes /\ PatchesSound /\ OutcomeWhole /\ [JournalNext]_journalVars => OutcomeWhole'
<1> SUFFICES ASSUME JournalTypes, PatchesSound, OutcomeWhole, [JournalNext]_journalVars
             PROVE  OutcomeWhole'
  OBVIOUS
<1>1. ASSUME UNCHANGED rows PROVE OutcomeWhole'
  BY <1>1 DEF OutcomeWhole, Closed
<1>2. ASSUME NEW c \in Calls, NEW alert \in Alerts, NEW rr \in Rrs, Insert(c, alert, rr) PROVE OutcomeWhole'
  <2>1. /\ Len(rows') = Len(rows) + 1 /\ Len(rows) \in Nat
        /\ \A i \in 1..Len(rows) : rows'[i] = rows[i]
        /\ rows'[Len(rows) + 1].result = Open
    BY <1>2, TableSteps DEF JournalTypes
  <2> QED
    BY <2>1 DEF OutcomeWhole, Closed
<1>3. ASSUME NEW c \in Calls, WriteOutcome(c) PROVE OutcomeWhole'
  <2> DEFINE k == call[c].id
  <2>1. /\ k \in 1..Len(rows) /\ call[c].body \in Bodies
        /\ Len(rows') = Len(rows) /\ rows'[k].result = Settled(rows[k].plan, call[c].body)
        /\ rows'[k].plan = rows[k].plan
        /\ \A i \in 1..Len(rows) : i # k => rows'[i] = rows[i]
    BY <1>3, TableSteps
  <2> HIDE DEF k
  <2> QED
    BY <2>1 DEF OutcomeWhole, Closed
<1>4. ASSUME NEW c \in Calls, ReadRow(c) \/ Script(c) \/ Alter(c) \/ Initialised(c) \/ Select(c) \/ Answer(c)
      PROVE  OutcomeWhole'
  BY <1>1, <1>4 DEF ReadRow, Script, Alter, Initialised, Select, Answer
<1>8. ASSUME NEW c \in Calls, ScriptRefused(c) \/ AlterRefused(c) \/ Breaks(c) \/ StatementRefused(c)
      PROVE  OutcomeWhole'
  BY <1>1, <1>8 DEF ScriptRefused, AlterRefused, Breaks, StatementRefused
<1>9. ASSUME NEW w \in Workers, Crash(w) PROVE OutcomeWhole'
  BY <1>1, <1>9 DEF Crash
<1>5. ASSUME NEW c \in Calls, NEW i \in Instances, NEW op, NEW id, NEW body, Begins(c, i, op, id, body)
      PROVE  OutcomeWhole'
  BY <1>1, <1>5 DEF Begins
<1>6. CASE Age
  BY <1>1, <1>6 DEF Age
<1>7. CASE UNCHANGED journalVars
  BY <1>1, <1>7 DEF journalVars
<1> QED
  BY <1>2, <1>3, <1>4, <1>5, <1>6, <1>7, <1>8, <1>9 DEF JournalNext, Instances

-----------------------------------------------------------------------------
(* The readings.                                                             *)

\* Closed rows stay closed.
LEMMA ClosedGrows ==
  ASSUME JournalTypes, JournalTypes', RowsKept
  PROVE  Closed \subseteq Closed'
BY DEF JournalTypes, RowsKept, Closed

\* What a call saw when it began is still there after a step.
LEMMA BeginningsStep ==
  JournalTypes /\ PatchesSound /\ BeginningsSound /\ [JournalNext]_journalVars => BeginningsSound'
<1> SUFFICES ASSUME JournalTypes, PatchesSound, BeginningsSound, [JournalNext]_journalVars, NEW x \in Calls
             PROVE  LET begin == call'[x].begin IN
                      /\ begin.aged <= aged' /\ begin.length <= Len(rows') /\ begin.closed \subseteq Closed'
                      /\ call'[x].counts # << >> =>
                           /\ call'[x].op \in DOMAIN Selects
                           /\ Len(call'[x].counts) <= Len(Selects[call'[x].op])
  BY DEF BeginningsSound
<1>1. JournalTypes' /\ RowsKept
  BY JournalStepTyped, RowsStep
<1>2. /\ Len(rows) <= Len(rows') /\ aged <= aged' /\ Closed \subseteq Closed'
      /\ Len(rows) \in Nat /\ Len(rows') \in Nat /\ aged \in Nat /\ aged' \in Nat
  <2>1. Closed \subseteq Closed'
    BY <1>1, ClosedGrows
  <2>2. rows \in Seq(Rows) /\ rows' \in Seq(Rows) /\ aged \in 0..Len(rows) /\ aged' \in 0..Len(rows')
    BY <1>1 DEF JournalTypes
  <2> QED
    BY <1>1, <2>1, <2>2 DEF RowsKept
<1>3. call[x].counts \in Seq(Nat) /\ call[x].begin \in [aged : Nat, length : Nat, closed : SUBSET Nat]
  BY DEF JournalTypes, CallRecords
<1>4. CASE call'[x] = call[x]
  BY <1>2, <1>3, <1>4 DEF BeginningsSound
<1>5. CASE Began(x)
  <2>1. call'[x].begin \in [aged : Nat, length : Nat, closed : SUBSET Nat]
    BY <1>1 DEF JournalTypes, CallRecords
  <2> QED
    BY <1>2, <1>5, <2>1 DEF Began
<1>6. CASE WentOn(x)
  <2>1. call'[x].begin = call[x].begin /\ call'[x].op = call[x].op
    BY <1>6 DEF WentOn
  <2>2. CASE call'[x].counts = call[x].counts
    BY <1>2, <1>3, <2>1, <2>2 DEF BeginningsSound
  <2>3. CASE call'[x].counts # call[x].counts
    <3>1. /\ call[x].op \in DOMAIN Selects /\ Len(call[x].counts) < Len(Selects[call[x].op])
          /\ call'[x].counts = Append(call[x].counts, Cardinality(Counted(
                                 Selects[call[x].op][Len(call[x].counts) + 1])))
      BY <1>6, <2>3 DEF WentOn
    <3>2. Len(call'[x].counts) = Len(call[x].counts) + 1 /\ Len(call[x].counts) \in Nat
      BY <1>3, <3>1
    <3>3. Len(Selects[call[x].op]) = 2
      BY <3>1 DEF Selects
    <3> QED
      BY <1>2, <1>3, <2>1, <3>1, <3>2, <3>3 DEF BeginningsSound
  <2> QED
    BY <2>2, <2>3
<1>7. CASE call'[x] = Idle
  BY <1>2, <1>7 DEF Idle
<1> QED
  BY <1>4, <1>5, <1>6, <1>7, CallStep

\* The rows of the bounds, however many.
LEMMA BoundsFinite ==
  ASSUME JournalTypes, NEW begin \in [aged : Nat, length : Nat, closed : SUBSET Nat], NEW select
  PROVE  IsFiniteSet(Throughout(begin, select)) /\ IsFiniteSet(Sometime(begin, select))
<1>1. IsFiniteSet((aged + 1)..begin.length) /\ IsFiniteSet((begin.aged + 1)..Len(rows))
  BY FS_Interval DEF JournalTypes
<1>2. /\ Throughout(begin, select) \in SUBSET ((aged + 1)..begin.length)
      /\ Sometime(begin, select) \in SUBSET ((begin.aged + 1)..Len(rows))
  BY DEF Throughout, Sometime
<1> QED
  BY <1>1, <1>2, FS_Subset

\* A count taken now lies between the bounds.
LEMMA CountBracketed ==
  ASSUME JournalTypes, NEW begin \in [aged : Nat, length : Nat, closed : SUBSET Nat], NEW select,
         begin.aged <= aged, begin.length <= Len(rows)
  PROVE  /\ Cardinality(Throughout(begin, select)) <= Cardinality(Counted(select))
         /\ Cardinality(Counted(select)) <= Cardinality(Sometime(begin, select))
<1>1. Throughout(begin, select) \subseteq Counted(select)
  BY DEF Throughout, Counted, JournalTypes
<1>2. Counted(select) \subseteq Sometime(begin, select)
  BY DEF Sometime, Counted, JournalTypes
<1>3. IsFiniteSet(Counted(select)) /\ IsFiniteSet(Sometime(begin, select))
  BY CountTyped, BoundsFinite
<1> QED
  BY <1>1, <1>2, <1>3, FS_Subset

\* The bounds of a count taken before only move apart.
LEMMA BoundsWiden ==
  ASSUME JournalTypes, JournalTypes', RowsKept, NEW select,
         NEW begin \in [aged : Nat, length : Nat, closed : SUBSET Nat],
         begin.length <= Len(rows), begin.closed \subseteq Closed
  PROVE  /\ Cardinality(Throughout(begin, select)') <= Cardinality(Throughout(begin, select))
         /\ Cardinality(Sometime(begin, select)) <= Cardinality(Sometime(begin, select)')
         /\ Cardinality(Throughout(begin, select)') \in Nat /\ Cardinality(Throughout(begin, select)) \in Nat
         /\ Cardinality(Sometime(begin, select)') \in Nat /\ Cardinality(Sometime(begin, select)) \in Nat
<1>1. /\ Len(rows) \in Nat /\ Len(rows') \in Nat /\ aged \in Nat /\ aged' \in Nat
      /\ Len(rows) <= Len(rows') /\ aged <= aged'
  BY DEF JournalTypes, RowsKept
<1>2. Throughout(begin, select)' \subseteq Throughout(begin, select)
  BY <1>1 DEF Throughout, Meets, RowsKept, Closed
<1>3. Sometime(begin, select) \subseteq Sometime(begin, select)'
  BY <1>1 DEF Sometime, Meets, RowsKept
<1>4. IsFiniteSet(Throughout(begin, select)) /\ IsFiniteSet(Sometime(begin, select)')
  <2>1. JournalTypes' => IsFiniteSet(Sometime(begin, select)')
    <3>1. IsFiniteSet((begin.aged + 1)..Len(rows'))
      BY <1>1, FS_Interval
    <3>2. Sometime(begin, select)' \in SUBSET ((begin.aged + 1)..Len(rows'))
      BY DEF Sometime
    <3> QED
      BY <3>1, <3>2, FS_Subset
  <2> QED
    BY <2>1, BoundsFinite
<1>5. IsFiniteSet(Throughout(begin, select)') /\ IsFiniteSet(Sometime(begin, select))
  BY <1>2, <1>4, BoundsFinite, FS_Subset
<1> QED
  BY <1>2, <1>3, <1>4, <1>5, FS_Subset, FS_CardinalityType

\* Every count stays between its bounds.
LEMMA ReadingsStep ==
  JournalTypes /\ PatchesSound /\ BeginningsSound /\ ReadingsBracketed /\ [JournalNext]_journalVars
    => ReadingsBracketed'
<1> SUFFICES ASSUME JournalTypes, PatchesSound, BeginningsSound, ReadingsBracketed,
                    [JournalNext]_journalVars
             PROVE  ReadingsBracketed'
  OBVIOUS
<1> DEFINE Low(begin, select)  == Cardinality(Throughout(begin, select))
           High(begin, select) == Cardinality(Sometime(begin, select))
<1>1. JournalTypes' /\ RowsKept
  BY JournalStepTyped, RowsStep
<1>2. ASSUME NEW x \in Calls, NEW k \in 1..Len(call'[x].counts),
             NEW begin, begin = call'[x].begin, NEW select, select = Selects[call'[x].op][k]
      PROVE  Low(begin, select)' <= call'[x].counts[k] /\ call'[x].counts[k] <= High(begin, select)'
  <2>0. /\ call[x].counts \in Seq(Nat) /\ call'[x].counts \in Seq(Nat)
        /\ call[x].begin \in [aged : Nat, length : Nat, closed : SUBSET Nat]
    BY <1>1 DEF JournalTypes, CallRecords
  <2>1. /\ call[x].begin.aged <= aged /\ call[x].begin.length <= Len(rows)
        /\ call[x].begin.closed \subseteq Closed
    BY DEF BeginningsSound
  <2>2. CASE k \in 1..Len(call[x].counts) /\ call'[x].counts[k] = call[x].counts[k]
             /\ call'[x].begin = call[x].begin /\ call'[x].op = call[x].op
    <3>1. Low(begin, select) <= call[x].counts[k] /\ call[x].counts[k] <= High(begin, select)
      BY <1>2, <2>2 DEF ReadingsBracketed
    <3>2. Low(begin, select)' <= Low(begin, select) /\ High(begin, select) <= High(begin, select)'
      BY <1>1, <1>2, <2>0, <2>1, <2>2, BoundsWiden
    <3>3. /\ Low(begin, select) \in Nat /\ High(begin, select) \in Nat
          /\ Low(begin, select)' \in Nat /\ High(begin, select)' \in Nat
      BY <1>1, <1>2, <2>0, <2>1, <2>2, BoundsWiden
    <3>4. call[x].counts[k] \in Nat
      BY <2>0, <2>2
    <3> HIDE DEF Low, High
    <3> QED
      BY <2>2, <3>1, <3>2, <3>3, <3>4
  <2>3. CASE call'[x].counts = Append(call[x].counts, Cardinality(Counted(select)))
             /\ k = Len(call[x].counts) + 1
             /\ call'[x].begin = call[x].begin /\ UNCHANGED <<rows, aged>>
    <3>1. Low(begin, select) <= Cardinality(Counted(select)) /\ Cardinality(Counted(select)) <= High(begin, select)
      BY <1>2, <2>0, <2>1, <2>3, CountBracketed
    <3>2. Low(begin, select)' = Low(begin, select) /\ High(begin, select)' = High(begin, select)
      BY <2>3 DEF Throughout, Sometime, Meets
    <3>3. call'[x].counts[k] = Cardinality(Counted(select))
      <4>1. Cardinality(Counted(select)) \in Nat
        BY CountTyped
      <4> QED
        BY <2>0, <2>3, <4>1
    <3> QED
      BY <3>1, <3>2, <3>3
  <2>4. call'[x] = call[x] \/ Began(x) \/ WentOn(x) \/ call'[x] = Idle
    BY CallStep
  <2>5. CASE call'[x] = call[x]
    BY <1>2, <2>2, <2>5
  <2>6. CASE Began(x) \/ call'[x] = Idle
    <3>1. call'[x].counts = << >>
      BY <2>6 DEF Began, Idle
    <3> QED
      BY <1>2, <3>1
  <2>7. CASE WentOn(x)
    <3>1. call'[x].begin = call[x].begin /\ call'[x].op = call[x].op
      BY <2>7 DEF WentOn
    <3>2. CASE call'[x].counts = call[x].counts
      BY <1>2, <2>2, <3>1, <3>2
    <3>3. CASE call'[x].counts # call[x].counts
      <4> DEFINE next == Selects[call[x].op][Len(call[x].counts) + 1]
      <4>1. call'[x].counts = Append(call[x].counts, Cardinality(Counted(next))) /\ UNCHANGED <<rows, aged>>
        BY <2>7, <3>3 DEF WentOn
      <4>2. Cardinality(Counted(next)) \in Nat
        BY CountTyped
      <4>3. \/ k \in 1..Len(call[x].counts) /\ call'[x].counts[k] = call[x].counts[k]
            \/ k = Len(call[x].counts) + 1
        <5> HIDE DEF next
        <5> QED
          BY <1>2, <2>0, <4>1, <4>2
      <4>4. CASE k = Len(call[x].counts) + 1
        <5>1. select = next
          BY <1>2, <3>1, <4>4
        <5> QED
          BY <2>3, <3>1, <4>1, <4>4, <5>1
      <4> QED
        BY <2>2, <3>1, <4>3, <4>4
    <3> QED
      BY <3>2, <3>3
  <2> QED
    BY <2>4, <2>5, <2>6, <2>7
<1> QED
  BY <1>2 DEF ReadingsBracketed

-----------------------------------------------------------------------------
(* The theorems.                                                             *)

JournalSound == JournalTypes /\ PatchesSound /\ OutcomeWhole /\ BeginningsSound /\ ReadingsBracketed

\* Nothing is under way at first, and no row is closed.
LEMMA JournalInitSound == JournalInit => JournalSound
<1> SUFFICES ASSUME JournalInit PROVE JournalSound
  OBVIOUS
<1>1. JournalTypes
  BY JournalInitTyped
<1>2. \A c \in Calls : /\ call[c].pc = "idle" /\ call[c].op = "none" /\ call[c].counts = << >>
                       /\ call[c].begin = [aged |-> 0, length |-> 0, closed |-> {}]
  BY DEF JournalInit, Idle
<1>3. Closed = {}
  <2>1. rows = << >> \/ rows = <<OldRow>>
    BY DEF JournalInit
  <2>2. OldRow.result = Open
    BY DEF OldRow
  <2> QED
    BY <2>1, <2>2 DEF Closed
<1>4. aged \in Nat /\ Len(rows) \in Nat
  BY <1>1 DEF JournalTypes
<1> QED
  BY <1>1, <1>2, <1>3, <1>4 DEF JournalSound, PatchesSound, OutcomeWhole, BeginningsSound, ReadingsBracketed

\* The journal's invariant, whatever database the bridge finds.
LEMMA JournalInductive == JournalSpec => []JournalSound
<1>1. JournalSound /\ [JournalNext]_journalVars => JournalSound'
  BY JournalStepTyped, PatchesStep, OutcomeStep, BeginningsStep, ReadingsStep DEF JournalSound
<1> QED
  BY <1>1, JournalInitSound, PTL DEF JournalSpec

\* THEOREM: outcome, price, R and money of a row are one PATCH's, reckoned by
\* that row's plan (dashboard update_outcome).
THEOREM OutcomesAreWhole == JournalSpec => []OutcomeWhole
<1>1. JournalSound => OutcomeWhole
  BY DEF JournalSound
<1> QED
  BY <1>1, JournalInductive, PTL

\* THEOREM: a SELECT of an answer counts what held all the while and nothing
\* that never did (_stats_blocking, _winrate_blocking).
THEOREM AnswersAreBracketed == JournalSpec => []ReadingsBracketed
<1>1. JournalSound => ReadingsBracketed
  BY DEF JournalSound
<1> QED
  BY <1>1, JournalInductive, PTL

\* THEOREM: the journal is never rewritten: no step withdraws a row, changes the
\* plan or the order it was recorded with, or opens a closed one again.
THEOREM JournalIsKept == JournalSpec => [][RowsKept]_journalVars
<1>1. JournalSound /\ [JournalNext]_journalVars => [RowsKept]_journalVars
  BY RowsStep DEF JournalSound
<1> QED
  BY <1>1, JournalInductive, PTL DEF JournalSpec

\* THEOREM: whatever database the bridge finds, however many instances migrate it
\* at a time, whatever the database refuses and whenever a worker dies, an instance
\* that takes the schema for ready lacks no column but one whose ALTER it saw
\* refused, and no call fails for another (_init_schema_blocking, init_schema).
THEOREM MigrationSucceeds == JournalSpec => []MissingOnlyIfRefused
<1>1. SchemaSound => MissingOnlyIfRefused
  BY DEF SchemaSound, MissingOnlyIfRefused
<1>2. JournalSound => JournalTypes
  BY DEF JournalSound
<1> QED
  BY <1>1, <1>2, SchemaInit, SchemaStep, JournalInductive, PTL DEF JournalSpec

\* Every plan recorded is one of an alert's.
LEMMA PlansRecorded ==
  ASSUME JournalTypes, NEW i \in 1..Len(rows), rows[i].plan # None
  PROVE  \E alert \in Alerts, rr \in Rrs : rows[i].plan = BuildPlan("hybrid", alert, rr, Budget)
<1>1. rows[i] \in Rows
  BY DEF JournalTypes
<1> QED
  BY <1>1 DEF Rows, Plans

\* The stop of a plan is away from its entry.
LEMMA PlanPositive ==
  ASSUME NEW alert \in PlannedAlert, NEW rr, NEW budget
  PROVE  BuildPlan("hybrid", alert, rr, budget).distance \in Nat \ {0}
<1>1. StopOf("hybrid", alert, alert.price) \in Nat \ {0}
  BY StopOfPositive DEF PlannedAlert
<1> QED
  BY <1>1 DEF BuildPlan

\* THEOREM: the R multiple of an outcome never divides by zero, and its points
\* are those from the entry of its own row's plan to its exit
\* (compute_outcome_pnl on what build_plan has journaled).
THEOREM OutcomesAreReckoned ==
  ASSUME Alerts \subseteq PlannedAlert
  PROVE  JournalSpec => [](\A i \in Closed : LET settled == rows[i].result IN
           settled.r # << >> =>
             /\ rows[i].plan # None /\ settled.r[2] \in Nat \ {0}
             /\ settled.r[1] = OutcomePoints(rows[i].plan, settled.exit))
<1> DEFINE Reckoned == \A i \in Closed : rows[i].result.r # << >> =>
             /\ rows[i].plan # None /\ rows[i].result.r[2] \in Nat \ {0}
             /\ rows[i].result.r[1] = OutcomePoints(rows[i].plan, rows[i].result.exit)
<1>1. JournalSound => Reckoned
  <2> SUFFICES ASSUME JournalSound, NEW i \in Closed, rows[i].result.r # << >>
               PROVE  /\ rows[i].plan # None /\ rows[i].result.r[2] \in Nat \ {0}
                      /\ rows[i].result.r[1] = OutcomePoints(rows[i].plan, rows[i].result.exit)
    OBVIOUS
  <2> DEFINE plan == rows[i].plan
  <2>1. i \in 1..Len(rows) /\ JournalTypes
    BY DEF Closed, JournalSound
  <2>2. PICK body \in Bodies : rows[i].result = Settled(plan, body)
    BY DEF JournalSound, OutcomeWhole
  <2> HIDE DEF plan
  <2>3. /\ plan # None /\ Settled(plan, body).exit = body.exit
        /\ Settled(plan, body).r = <<OutcomePoints(plan, body.exit), plan.distance>>
    BY <2>2 DEF Settled
  <2>4. PICK alert \in Alerts, rr \in Rrs : plan = BuildPlan("hybrid", alert, rr, Budget)
    BY <2>1, <2>3, PlansRecorded DEF plan
  <2>5. plan.distance \in Nat \ {0}
    BY <2>4, PlanPositive
  <2> QED
    BY <2>2, <2>3, <2>5 DEF plan
<1> QED
  BY <1>1, JournalInductive, PTL

=============================================================================
