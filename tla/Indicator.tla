----------------------------- MODULE Indicator -----------------------------
(***************************************************************************)
(* The TradingView indicator (pinescript/smart_gold_analyzer_v2_ai.pine)    *)
(* bar by bar: the entry conditions, the virtual position that counts its   *)
(* bars, the exits in their priority, and the alerts the bridge receives.   *)
(* A bar is what the script asks of the series at its close; bars are only  *)
(* looked at when confirmed, so that no intra-bar state is committed.       *)
(***************************************************************************)
EXTENDS Integers

CONSTANTS ExitMin, ExitMax   \* exit_min_bars, exit_max_bars

ASSUME IndicatorAssumption == ExitMin \in Nat \ {0} /\ ExitMax \in Nat /\ ExitMax >= 2

VARIABLES config,   \* inputs: ai_send_weak, ai_send_exits
          close,    \* where the bar before closed, against its EMA 20 and EMA 50
          posDir,   \* pos_dir
          posBars,  \* pos_bars
          alerts,   \* what this bar sent
          opener    \* history: the last position opened, whether its entry was sent,
                    \* the bars it was held since, and the exits sent for it

vars == <<config, close, posDir, posBars, alerts, opener>>

Relations == {"above", "at", "below"}
Closes    == [ema20 : Relations, ema50 : Relations]

\* What a confirmed bar shows; before50 is where the bar before closed, against the
\* EMA 50 of this one.  A trend orders the two EMAs, and vol_strong asks for more
\* volume than vol_rising.
Bars == {b \in [close : Closes, before50 : Relations, trend : {"bull", "bear", "none"},
                psar : Relations, volume : {"low", "rising", "strong"}, declining : BOOLEAN] :
           /\ b.trend = "bull" /\ b.close.ema20 # "below" => b.close.ema50 = "above"
           /\ b.trend = "bear" /\ b.close.ema20 # "above" => b.close.ema50 = "below"}

\* An EMA moves towards the close of its bar: after a close not above it, one
\* above it has it rise, and so leave the close before below.
Follows(b) ==
  /\ b.close.ema50 = "above" /\ close.ema50 # "above" => b.before50 = "below"
  /\ b.close.ema50 = "below" /\ close.ema50 # "below" => b.before50 = "above"
  /\ b.close.ema50 = "at" => b.before50 = close.ema50

NoOpener == [dir |-> 0, told |-> FALSE, age |-> 0, exits |-> 0]

Init ==
  /\ config \in [weak : BOOLEAN, exits : BOOLEAN]
  /\ close \in Closes
  /\ posDir = 0 /\ posBars = 0
  /\ alerts = {}
  /\ opener = NoOpener

-----------------------------------------------------------------------------
(* Entries.                                                                  *)

\* ta.crossover and ta.crossunder of the close over EMA 20.
CrossUp(b)   == b.close.ema20 = "above" /\ close.ema20 # "above"
CrossDown(b) == b.close.ema20 = "below" /\ close.ema20 # "below"

LongSignal(b) ==
  b.trend = "bull" /\ CrossUp(b) /\ b.volume # "low" /\ b.psar = "below"

ShortSignal(b) ==
  b.trend = "bear" /\ CrossDown(b) /\ b.volume # "low" /\ b.psar = "above"

StrongLong(b) ==
  /\ LongSignal(b) /\ b.volume = "strong"
  /\ b.close.ema50 = "above" /\ b.before50 = "below"

StrongShort(b) ==
  /\ ShortSignal(b) /\ b.volume = "strong"
  /\ b.close.ema50 = "below" /\ b.before50 = "above"

-----------------------------------------------------------------------------
(* The virtual position on a bar: opened if flat, counted, then closed.      *)

Opened(b) ==
  CASE posDir # 0      -> posDir
    [] posDir = 0 /\ LongSignal(b)  -> 1
    [] posDir = 0 /\ ShortSignal(b) -> -1
    [] OTHER -> 0

\* Fault: a bar that opens a position counts none of its own.
CountedLate(b) == IF Opened(b) # 0 /\ posDir # 0 THEN posBars + 1 ELSE posBars

\* The bar that opens a position is its first.
Counted(b) == IF Opened(b) # 0 THEN posBars + 1 ELSE posBars

\* The exit rules in their order, for the position the bar leaves open.
PsarFlip(b) ==
  \/ Opened(b) = 1 /\ b.psar = "above"
  \/ Opened(b) = -1 /\ b.psar = "below"

TrendBreak(b) ==
  \/ Opened(b) = 1 /\ b.close.ema20 = "below"
  \/ Opened(b) = -1 /\ b.close.ema20 = "above"

TimeMax(b)    == Opened(b) # 0 /\ Counted(b) >= ExitMax
VolumeFade(b) == Opened(b) # 0 /\ Counted(b) >= ExitMin /\ b.declining

ExitReason(b) ==
  CASE PsarFlip(b) -> "psar_flip"
    [] ~PsarFlip(b) /\ TrendBreak(b) -> "trend_break"
    [] ~PsarFlip(b) /\ ~TrendBreak(b) /\ TimeMax(b) -> "time_max"
    [] ~PsarFlip(b) /\ ~TrendBreak(b) /\ ~TimeMax(b) /\ VolumeFade(b) -> "volume_fade"
    [] OTHER -> ""

Exits(b) == ExitReason(b) # ""

-----------------------------------------------------------------------------
(* Alerts.  The payload is built after the position has been closed, so that *)
(* bars_since_entry is that of the state the bar ends in.                    *)

Payload(signal, reason, bars) == [signal |-> signal, reason |-> reason, bars |-> bars]

BarsAfter(b) == IF Exits(b) THEN 0 ELSE Counted(b)

\* Entries are sent whether or not the virtual position is flat.
EntryAlerts(b) ==
  {Payload(s, "", BarsAfter(b)) :
     s \in {s \in {"strong_long", "strong_short", "long", "short"} :
              \/ s = "strong_long"  /\ StrongLong(b)
              \/ s = "strong_short" /\ StrongShort(b)
              \/ s = "long"  /\ config.weak /\ LongSignal(b)  /\ ~StrongLong(b)
              \/ s = "short" /\ config.weak /\ ShortSignal(b) /\ ~StrongShort(b)}}

\* Fault: an exit is sent whenever its condition on the chart holds.
ExitAlertsWhenFlat(b) ==
  IF config.exits /\ (Exits(b) \/ b.psar = "above")
  THEN {Payload(IF Opened(b) = -1 THEN "exit_short" ELSE "exit_long", ExitReason(b), 0)}
  ELSE {}

ExitAlerts(b) ==
  IF config.exits /\ Exits(b)
  THEN {Payload(IF Opened(b) = 1 THEN "exit_long" ELSE "exit_short", ExitReason(b), 0)}
  ELSE {}

ClosedBar(b) ==
  /\ close' = b.close
  /\ posDir' = IF Exits(b) THEN 0 ELSE Opened(b)
  /\ posBars' = BarsAfter(b)
  /\ alerts' = EntryAlerts(b) \cup ExitAlerts(b)
  /\ opener' =
       LET now == IF posDir = 0 /\ Opened(b) # 0
                  THEN [dir |-> Opened(b), told |-> EntryAlerts(b) # {}, age |-> 0, exits |-> 0]
                  ELSE [opener EXCEPT !.age = IF Opened(b) # 0 THEN @ + 1 ELSE @]
       IN [now EXCEPT !.exits = IF ExitAlerts(b) # {} THEN @ + 1 ELSE @]
  /\ UNCHANGED config

Next == \E b \in Bars : Follows(b) /\ ClosedBar(b)

Spec == Init /\ [][Next]_vars

-----------------------------------------------------------------------------

\* A position the bridge was told of is over, and its exit sent, at most
\* ExitMax - 1 bars after the one that opened it, whatever the market does
\* ("Maximum bars before forced exit"; exit rules and alerts of the script).
HeldNoLonger ==
  /\ posDir # 0 => posBars < ExitMax
  /\ config.exits /\ opener.dir # 0 /\ opener.exits = 0 => opener.age < ExitMax - 1

\* Every exit sent closes a position of its direction that opened on an earlier
\* bar, no position is closed twice, and with ai_send_weak the bridge was told
\* of its entry (exit alerts of the script, for exit_min_bars above 1).
ExitsAnswerEntries ==
  \A a \in alerts : a.reason # "" =>
    /\ a.signal = IF opener.dir = 1 THEN "exit_long" ELSE "exit_short"
    /\ opener.dir # 0 /\ opener.exits = 1
    /\ ExitMin > 1 => opener.age > 0
    /\ config.weak => opener.told

=============================================================================
