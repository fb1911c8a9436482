------------------------------- MODULE Guards -------------------------------
(***************************************************************************)
(* The safety guards (app/guards/guards.py) and what a chain of them        *)
(* decides (app/guards/chain.py), as operators.  R is counted in tenths,    *)
(* prices and ranges in points, factors and percentages in hundredths.      *)
(***************************************************************************)
EXTENDS Integers, Sequences

CONSTANTS MaxDailyTrades,    \* guard_max_daily_trades
          MaxDrawdown,       \* guard_max_daily_drawdown_r, in tenths of R
          MaxSpread,         \* guard_max_spread_points
          MaxAtr,            \* guard_max_atr
          AtrPctMode,        \* MAX_ATR_USE_PCT
          AtrPctBlock,       \* MAX_ATR_PCT_BLOCK, in hundredths of a percent
          NewsBlackout       \* guard_news_blackout

ASSUME GuardSettingsAssumption ==
  /\ MaxDailyTrades \in Int /\ MaxDrawdown \in Int
  /\ MaxSpread \in Int /\ MaxAtr \in Int /\ AtrPctBlock \in Nat
  /\ AtrPctMode \in BOOLEAN /\ NewsBlackout \in BOOLEAN

NoData == -1                 \* a key the context does not hold

\* What the guards read of the context dict; an alert without ATR has atr = 0.
Context == [daily_trades : Nat, daily_pnl_r : Int, spread_points : Nat \cup {NoData},
            news_window : BOOLEAN, atr : Nat, price : Nat]

GuardVerdict == [verdict : {"PASS", "REDUCE", "BLOCK"}, factor : 0..100]

Pass         == [verdict |-> "PASS", factor |-> 100]
Block        == [verdict |-> "BLOCK", factor |-> 100]
Reduce(pct)  == [verdict |-> "REDUCE", factor |-> pct]
BlockIf(bad) == IF bad THEN Block ELSE Pass

-----------------------------------------------------------------------------

MaxDailyTradesGuard(ctx) == BlockIf(ctx.daily_trades >= MaxDailyTrades)

CautionThreshold == -15      \* reduce_threshold_r = -1.5, not configurable

\* Fault: the caution threshold is tested first and shadows the block.
CautionFirst(ctx) ==
  IF ctx.daily_pnl_r <= CautionThreshold THEN Reduce(50)
  ELSE BlockIf(ctx.daily_pnl_r <= MaxDrawdown)

DrawdownGuard(ctx) ==
  IF ctx.daily_pnl_r <= MaxDrawdown THEN Block
  ELSE IF ctx.daily_pnl_r <= CautionThreshold THEN Reduce(50) ELSE Pass

SpreadGuard(ctx) ==
  BlockIf(ctx.spread_points # NoData /\ ctx.spread_points > MaxSpread)

DefaultPrice == 4700         \* a missing or zero price

MaxATRGuard(ctx) ==
  LET price == IF ctx.price = 0 THEN DefaultPrice ELSE ctx.price
      tooHigh == IF AtrPctMode THEN ctx.atr * 10000 > price * AtrPctBlock
                               ELSE ctx.atr > MaxAtr
  IN  BlockIf(ctx.atr > 0 /\ tooHigh)

NewsBlackoutGuard(ctx) ==
  IF NewsBlackout /\ ctx.news_window THEN Reduce(25) ELSE Pass

\* The order in which build_default_chain adds the guards.
DefaultChain ==
  <<"max_daily_trades", "drawdown", "spread", "max_atr", "news_blackout">>

GuardNames == {DefaultChain[i] : i \in 1..5}

\* guard.evaluate(context) of the guard with this name.
Evaluate(name, ctx) ==
  CASE name = "max_daily_trades" -> MaxDailyTradesGuard(ctx)
    [] name = "drawdown"         -> DrawdownGuard(ctx)
    [] name = "spread"           -> SpreadGuard(ctx)
    [] name = "max_atr"          -> MaxATRGuard(ctx)
    [] name = "news_blackout"    -> NewsBlackoutGuard(ctx)

\* What a chain whose guards give these verdicts decides: any BLOCK wins, then
\* any REDUCE that really reduces.
ChainVerdict(verdicts) ==
  IF \E v \in verdicts : v.verdict = "BLOCK" THEN "BLOCK"
  ELSE IF \E v \in verdicts : v.verdict = "REDUCE" /\ v.factor < 100 THEN "REDUCE"
  ELSE "PASS"

\* The default chain on this context when no guard raises.
DefaultVerdict(ctx) == ChainVerdict({Evaluate(name, ctx) : name \in GuardNames})

=============================================================================
