------------------------------ MODULE Simulator ------------------------------
(***************************************************************************)
(* The walk of one signal through the bars after it: simulate_trades        *)
(* (app/backtest/simulator.py), with the stop policies of Risk and the      *)
(* breakeven check of app/risk/breakeven.py.  A bar is its low, close and   *)
(* high and whether the EMAs cross against the trade on it; the bars are    *)
(* chosen as the walk goes.                                                 *)
(***************************************************************************)
EXTENDS Risk, Sequences

CONSTANTS MaxPrice,    \* bound of the model: bars trade at 1..MaxPrice
          Entry,       \* price of the signal
          Atrs,        \* ATR of the signal, 0 when it has none
          Rr,          \* rr
          MaxBars,     \* max_bars
          Data,        \* bounds of the model: bars of data after the signal's
          TriggerR,    \* breakeven_trigger_r, in tenths
          BufferMult   \* breakeven_buffer_atr_mult

ASSUME SimulatorAssumption ==
  /\ MaxPrice \in Nat /\ Entry \in 1..MaxPrice
  /\ Atrs \subseteq Nat /\ Rr \in Nat \ {0} /\ MaxBars \in Nat \ {0}
  /\ Data \subseteq Nat /\ TriggerR \in Nat \ {0} /\ BufferMult \in Nat

VARIABLES setup,    \* the call: side, policy, ATR, exit mode, breakeven, bars of data
          stop,     \* current_sl
          shifted,  \* was_shifted
          path,     \* the bars walked so far
          result    \* the TradeResult, or why there is none yet

vars == <<setup, stop, shifted, path, result>>

Bars == {b \in [low : 1..MaxPrice, close : 1..MaxPrice, high : 1..MaxPrice, cross : BOOLEAN] :
           b.low <= b.close /\ b.close <= b.high}

Setups == [side : Sides, policy : {"hybrid", "psar", "atr"}, atr : Atrs,
           mode : {"fixed_rr", "indicator"}, breakeven : BOOLEAN, data : Data]

NoResult == [reason |-> "none", exit |-> Entry, outcome |-> "none"]
Skipped  == [reason |-> "skipped", exit |-> Entry, outcome |-> "none"]

\* _build_stop_calc and calculate: a SignalRow has no PSAR, so that every
\* policy takes its path without one.
Distance ==
  CASE setup.policy = "hybrid" -> HybridATRPsarStop(setup.side, Entry, setup.atr, 0)
    [] setup.policy = "psar"   -> PSARStop(setup.side, Entry, setup.atr, 0)
    [] OTHER                   -> ATRStop(setup.atr)

InitialStop == Towards(setup.side, Entry, -Distance)
Take        == Towards(setup.side, Entry, Distance * Rr)
Buffered    == Towards(setup.side, Entry, BufferMult * setup.atr)
Gain(at)    == Points(setup.side, Entry, at)

\* The extremes of a bar seen from the trade.
Worst(b) == IF setup.side = "long" THEN b.low ELSE b.high
Best(b)  == IF setup.side = "long" THEN b.high ELSE b.low

\* The last bar of the walk, counted from the signal's.
Last == Smaller(setup.data, MaxBars)

Init ==
  /\ setup \in Setups
  /\ stop = InitialStop
  /\ shifted = FALSE
  /\ path = << >>
  /\ result = NoResult

Walking == result = NoResult /\ setup.data > 0

\* The signal is on the last bar, or accept_fn refuses it: no trade.
Skip ==
  /\ result = NoResult /\ path = << >>
  /\ result' = Skipped
  /\ UNCHANGED <<setup, stop, shifted, path>>

Outcome(reason, exit) ==
  CASE reason = "tp" -> "win"
    [] reason = "sl" -> "loss"
    [] OTHER -> IF Gain(exit) > 0 THEN "win" ELSE IF Gain(exit) < 0 THEN "loss" ELSE "breakeven"

Exit(b, reason, price) ==
  /\ path' = Append(path, b)
  /\ result' = [reason |-> reason, exit |-> price, outcome |-> Outcome(reason, price)]
  /\ UNCHANGED <<setup, stop, shifted>>

StopTouched(b) == Gain(Worst(b)) <= Gain(stop)
TakeTouched(b) == setup.mode = "fixed_rr" /\ Gain(Best(b)) >= Gain(Take)
CrossExit(b)   == setup.mode = "indicator" /\ b.cross

\* The stop comes first: a bar that touches both stops the trade out.
StoppedOut(b) ==
  /\ Walking
  /\ StopTouched(b)
  /\ Exit(b, IF shifted /\ Gain(stop) >= 0 THEN "sl_breakeven" ELSE "sl", stop)

TookProfit(b) ==
  /\ Walking
  /\ ~StopTouched(b) /\ TakeTouched(b)
  /\ Exit(b, "tp", Take)

IndicatorExit(b) ==
  /\ Walking
  /\ ~StopTouched(b) /\ CrossExit(b)
  /\ Exit(b, "indicator", b.close)

\* check_breakeven_long and _short at the close of the bar.
ShiftsAt(close) ==
  /\ setup.breakeven /\ ~shifted /\ setup.atr > 0
  /\ 10 * Gain(close) >= TriggerR * Distance
  /\ Gain(Buffered) > Gain(stop)

\* Fault: the stop is shifted by a bar's extreme instead of its close.
StaysOpenByExtreme(b) ==
  /\ Walking
  /\ ~StopTouched(b) /\ ~TakeTouched(b) /\ ~CrossExit(b)
  /\ path' = Append(path, b)
  /\ stop' = IF ShiftsAt(Best(b)) THEN Buffered ELSE stop
  /\ shifted' = (shifted \/ ShiftsAt(Best(b)))
  /\ result' = IF Len(path) + 1 < Last THEN NoResult
               ELSE [reason |-> "timeout", exit |-> b.close, outcome |-> Outcome("timeout", b.close)]
  /\ UNCHANGED setup

\* Fault: the shifted stop is the buffer on the losing side of the entry.
StaysOpenBufferedAway(b) ==
  /\ Walking
  /\ ~StopTouched(b) /\ ~TakeTouched(b) /\ ~CrossExit(b)
  /\ path' = Append(path, b)
  /\ stop' = IF ShiftsAt(b.close) THEN Towards(setup.side, Entry, -BufferMult * setup.atr) ELSE stop
  /\ shifted' = (shifted \/ ShiftsAt(b.close))
  /\ result' = IF Len(path) + 1 < Last THEN NoResult
               ELSE [reason |-> "timeout", exit |-> b.close, outcome |-> Outcome("timeout", b.close)]
  /\ UNCHANGED setup

\* Nothing is touched: the stop may be shifted for the bars to come, and the
\* last bar ends the trade at its close.
StaysOpen(b) ==
  /\ Walking
  /\ ~StopTouched(b) /\ ~TakeTouched(b) /\ ~CrossExit(b)
  /\ path' = Append(path, b)
  /\ stop' = IF ShiftsAt(b.close) THEN Buffered ELSE stop
  /\ shifted' = (shifted \/ ShiftsAt(b.close))
  /\ result' = IF Len(path) + 1 < Last THEN NoResult
               ELSE [reason |-> "timeout", exit |-> b.close, outcome |-> Outcome("timeout", b.close)]
  /\ UNCHANGED setup

Next ==
  \/ Skip
  \/ \E b \in Bars :
       /\ b.cross => setup.mode = "indicator"   \* the series are not built otherwise
       /\ \/ StoppedOut(b)
          \/ TookProfit(b)
          \/ IndicatorExit(b)
          \/ StaysOpen(b)

Spec == Init /\ [][Next]_vars

-----------------------------------------------------------------------------

Reasons == {"none", "skipped", "sl", "sl_breakeven", "tp", "indicator", "timeout"}

\* The variables keep their types, and the walk never passes its last bar.
TypeOK ==
  /\ setup \in Setups
  /\ stop \in Int
  /\ shifted \in BOOLEAN
  /\ path \in Seq(Bars) /\ Len(path) <= Last
  /\ result \in [reason : Reasons, exit : Int, outcome : {"none", "win", "loss", "breakeven"}]

Traded == result.reason \notin {"none", "skipped"}

\* What the backtest promises of a walk, said of the whole path: the stop of a
\* bar depends on the closes before it only.
StopOn(k) ==
  IF /\ setup.breakeven /\ setup.atr > 0
     /\ \E j \in 1..(k - 1) : 10 * Gain(path[j].close) >= TriggerR * Distance
  THEN Buffered ELSE InitialStop

StopsOn(k)   == Gain(Worst(path[k])) <= Gain(StopOn(k))
TakesOn(k)   == setup.mode = "fixed_rr" /\ Gain(Best(path[k])) >= Gain(Take)
CrossesOn(k) == setup.mode = "indicator" /\ path[k].cross

\* The trade ends on the first bar that touches the stop in force on it, the
\* take profit or the exit cross, the stop winning a tie, and at the close of
\* the last bar otherwise: no bar before looks ahead, none after is walked
\* (the bar loop of simulate_trades).
FirstTouch ==
  Traded =>
    LET n == Len(path) IN
      /\ \A k \in 1..(n - 1) : ~StopsOn(k) /\ ~TakesOn(k) /\ ~CrossesOn(k)
      /\ result.reason \in {"sl", "sl_breakeven"} <=> StopsOn(n)
      /\ result.reason = "tp" <=> ~StopsOn(n) /\ TakesOn(n)
      /\ result.reason = "indicator" <=> ~StopsOn(n) /\ CrossesOn(n)
      /\ result.reason = "timeout" => n = Last
      /\ result.exit = CASE StopsOn(n) -> StopOn(n)
                         [] ~StopsOn(n) /\ TakesOn(n) -> Take
                         [] OTHER -> path[n].close

\* No simulated trade loses more than the distance it was sized for, none whose
\* stop was shifted loses at all, and the outcome counted by summarise agrees
\* with the points (simulate_trades, pnl and outcome).
RiskBounded ==
  Traded =>
    /\ Gain(result.exit) >= -Distance
    /\ shifted => Gain(result.exit) >= 0
    /\ result.outcome = "win" <=> Gain(result.exit) > 0
    /\ result.outcome = "loss" <=> Gain(result.exit) < 0

=============================================================================
