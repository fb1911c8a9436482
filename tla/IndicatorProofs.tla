-------------------------- MODULE IndicatorProofs --------------------------
(***************************************************************************)
(* The indicator's virtual position and its exits, for every setting of     *)
(* exit_min_bars and exit_max_bars and every course of the market.          *)
(***************************************************************************)
EXTENDS Indicator, TLAPS

USE IndicatorAssumption

Types ==
  /\ config \in [weak : BOOLEAN, exits : BOOLEAN]
  /\ close \in Closes
  /\ posDir \in {-1, 0, 1} /\ posBars \in Nat
  /\ opener \in [dir : {-1, 0, 1}, told : BOOLEAN, age : Nat, exits : Nat]

\* The position that is open is the last one opened: it counts one bar more
\* than have passed since, and nothing has been sent to close it.
Held ==
  /\ posDir = 0 => posBars = 0
  /\ posDir # 0 => /\ opener.dir = posDir /\ posBars = opener.age + 1
                   /\ posBars < ExitMax /\ opener.exits = 0

\* With ai_send_exits the exit of a position is sent once, as it closes, and
\* with ai_send_weak its entry was.
Told ==
  /\ opener.dir # 0 /\ posDir = 0 /\ config.exits => opener.exits = 1
  /\ opener.dir # 0 /\ config.weak => opener.told

IInv == Types /\ Held /\ Told /\ ExitsAnswerEntries

\* A bar opens a position only when none is open, and only by its signal.
LEMMA OpenedFacts ==
  ASSUME Types, NEW b \in Bars
  PROVE  /\ Opened(b) \in {-1, 0, 1}
         /\ posDir # 0 => Opened(b) = posDir
         /\ posDir = 0 /\ Opened(b) = 1 => LongSignal(b)
         /\ posDir = 0 /\ Opened(b) = -1 => ShortSignal(b)
BY DEF Opened, Types

\* No rule but the fading volume can close a position on the bar that opens it,
\* and that one not before exit_min_bars.
LEMMA OpeningBarHolds ==
  ASSUME Types, Held, NEW b \in Bars, posDir = 0, Opened(b) # 0, ExitMin > 1
  PROVE  ~Exits(b)
<1>1. Counted(b) = 1
  BY DEF Counted, Held
<1>2. ~PsarFlip(b) /\ ~TrendBreak(b)
  BY OpenedFacts DEF PsarFlip, TrendBreak, LongSignal, ShortSignal, CrossUp, CrossDown
<1>3. ~TimeMax(b) /\ ~VolumeFade(b)
  BY <1>1 DEF TimeMax, VolumeFade
<1> QED
  BY <1>2, <1>3 DEF Exits, ExitReason

\* An exit needs a position.
LEMMA ExitsNeedPosition ==
  ASSUME NEW b \in Bars, Exits(b)
  PROVE  Opened(b) # 0
BY DEF Exits, ExitReason, PsarFlip, TrendBreak, TimeMax, VolumeFade

\* A bar that leaves a position open has not reached exit_max_bars.
LEMMA StaysBelowMax ==
  ASSUME NEW b \in Bars, Opened(b) # 0, ~Exits(b), Counted(b) \in Nat
  PROVE  Counted(b) < ExitMax
BY DEF Exits, ExitReason, TimeMax

\* With ai_send_weak the bar that opens a position sends an entry.
LEMMA EntryIsSent ==
  ASSUME Types, NEW b \in Bars, config.weak, posDir = 0, Opened(b) # 0
  PROVE  EntryAlerts(b) # {}
<1>1. CASE LongSignal(b)
  <2>1. PICK s \in {"strong_long", "long"} :
          \/ s = "strong_long" /\ StrongLong(b)
          \/ s = "long" /\ config.weak /\ LongSignal(b) /\ ~StrongLong(b)
    BY <1>1
  <2>2. Payload(s, "", BarsAfter(b)) \in EntryAlerts(b)
    BY <2>1 DEF EntryAlerts
  <2> QED
    BY <2>2
<1>2. CASE ShortSignal(b)
  <2>1. PICK s \in {"strong_short", "short"} :
          \/ s = "strong_short" /\ StrongShort(b)
          \/ s = "short" /\ config.weak /\ ShortSignal(b) /\ ~StrongShort(b)
    BY <1>2
  <2>2. Payload(s, "", BarsAfter(b)) \in EntryAlerts(b)
    BY <2>1 DEF EntryAlerts
  <2> QED
    BY <2>2
<1> QED
  BY <1>1, <1>2, OpenedFacts

\* The history after a bar, case by case.
LEMMA OpenerAfter ==
  ASSUME Types, NEW b \in Bars, ClosedBar(b)
  PROVE  /\ opener'.dir = IF posDir = 0 /\ Opened(b) # 0 THEN Opened(b) ELSE opener.dir
         /\ opener'.told = IF posDir = 0 /\ Opened(b) # 0 THEN EntryAlerts(b) # {} ELSE opener.told
         /\ opener'.age = IF posDir = 0 /\ Opened(b) # 0 THEN 0
                          ELSE IF Opened(b) # 0 THEN opener.age + 1 ELSE opener.age
         /\ opener'.exits = (IF posDir = 0 /\ Opened(b) # 0 THEN 0 ELSE opener.exits)
                              + (IF config.exits /\ Exits(b) THEN 1 ELSE 0)
         /\ opener' \in [dir : {-1, 0, 1}, told : BOOLEAN, age : Nat, exits : Nat]
<1>1. ExitAlerts(b) # {} <=> config.exits /\ Exits(b)
  BY DEF ExitAlerts
<1>2. Opened(b) \in {-1, 0, 1} /\ opener \in [dir : {-1, 0, 1}, told : BOOLEAN, age : Nat, exits : Nat]
  BY OpenedFacts DEF Types
<1> DEFINE sent == EntryAlerts(b) # {}
           now  == IF posDir = 0 /\ Opened(b) # 0
                   THEN [dir |-> Opened(b), told |-> sent, age |-> 0, exits |-> 0]
                   ELSE [opener EXCEPT !.age = IF Opened(b) # 0 THEN @ + 1 ELSE @]
<1>3. opener' = [now EXCEPT !.exits = IF ExitAlerts(b) # {} THEN @ + 1 ELSE @]
  BY DEF ClosedBar
<1>4. sent \in BOOLEAN
  OBVIOUS
<1> HIDE DEF sent
<1>5. /\ now \in [dir : {-1, 0, 1}, told : BOOLEAN, age : Nat, exits : Nat]
      /\ now.dir = IF posDir = 0 /\ Opened(b) # 0 THEN Opened(b) ELSE opener.dir
      /\ now.told = IF posDir = 0 /\ Opened(b) # 0 THEN sent ELSE opener.told
      /\ now.age = IF posDir = 0 /\ Opened(b) # 0 THEN 0
                   ELSE IF Opened(b) # 0 THEN opener.age + 1 ELSE opener.age
      /\ now.exits = IF posDir = 0 /\ Opened(b) # 0 THEN 0 ELSE opener.exits
  <2>1. CASE posDir = 0 /\ Opened(b) # 0
    BY <1>2, <1>4, <2>1
  <2>2. CASE ~(posDir = 0 /\ Opened(b) # 0)
    BY <1>2, <2>2
  <2> QED
    BY <2>1, <2>2
<1> HIDE DEF now
<1>6. /\ opener'.dir = now.dir /\ opener'.told = now.told /\ opener'.age = now.age
      /\ opener'.exits = now.exits + (IF config.exits /\ Exits(b) THEN 1 ELSE 0)
      /\ opener' \in [dir : {-1, 0, 1}, told : BOOLEAN, age : Nat, exits : Nat]
  BY <1>1, <1>3, <1>5
<1> QED
  BY <1>5, <1>6 DEF sent

\* Every bar keeps the invariant.
LEMMA BarStep ==
  ASSUME IInv, NEW b \in Bars, ClosedBar(b)
  PROVE  IInv'
<1> USE DEF IInv
<1>1. /\ close' = b.close /\ config' = config
      /\ posDir' = IF Exits(b) THEN 0 ELSE Opened(b)
      /\ posBars' = IF Exits(b) THEN 0 ELSE Counted(b)
      /\ alerts' = EntryAlerts(b) \cup ExitAlerts(b)
  BY DEF ClosedBar, BarsAfter
<1>2. Counted(b) \in Nat /\ Counted(b) = IF Opened(b) # 0 THEN posBars + 1 ELSE posBars
  BY DEF Counted, Types
<1>3. Types'
  BY <1>1, <1>2, OpenedFacts, OpenerAfter DEF Types, Bars, Closes
<1>4. Held'
  BY <1>1, <1>2, OpenedFacts, OpenerAfter, StaysBelowMax DEF Types, Held
<1>5. posDir # 0 => opener.exits = 0 /\ opener.age \in Nat /\ opener.dir = posDir /\ Opened(b) = posDir
  BY OpenedFacts DEF Types, Held
<1>6. Told'
  BY <1>1, OpenedFacts, OpenerAfter, EntryIsSent, ExitsNeedPosition DEF Types, Held, Told
<1>7. ASSUME config.exits, Exits(b)
      PROVE  /\ Opened(b) # 0 /\ opener'.dir = Opened(b) /\ opener'.exits = 1
             /\ ExitMin > 1 => opener'.age > 0
  <2>1. Opened(b) # 0
    BY <1>7, ExitsNeedPosition
  <2>2. CASE posDir = 0
    <3>1. ~(ExitMin > 1)
      BY <1>7, <2>1, <2>2, OpeningBarHolds
    <3> QED
      BY <1>7, <2>1, <2>2, <3>1, OpenerAfter DEF Types
  <2>3. CASE posDir # 0
    <3>1. opener'.dir = Opened(b) /\ opener'.exits = 0 + 1 /\ opener'.age = opener.age + 1
      BY <1>5, <1>7, <2>1, <2>3, OpenerAfter
    <3> QED
      BY <1>5, <2>1, <2>3, <3>1
  <2> QED
    BY <2>2, <2>3
<1>8. ExitsAnswerEntries'
  <2> SUFFICES ASSUME NEW a \in alerts', a.reason # ""
               PROVE  /\ a.signal = IF opener'.dir = 1 THEN "exit_long" ELSE "exit_short"
                      /\ opener'.dir # 0 /\ opener'.exits = 1
                      /\ ExitMin > 1 => opener'.age > 0
                      /\ config'.weak => opener'.told
    BY DEF ExitsAnswerEntries
  <2>1. a \in ExitAlerts(b)
    <3>1. ASSUME a \in EntryAlerts(b) PROVE FALSE
      <4>1. PICK s \in {"strong_long", "strong_short", "long", "short"} :
              a = Payload(s, "", BarsAfter(b))
        BY <3>1 DEF EntryAlerts
      <4> QED
        BY <4>1 DEF Payload
    <3> QED
      BY <1>1, <3>1
  <2>2. /\ config.exits /\ Exits(b)
        /\ a.signal = IF Opened(b) = 1 THEN "exit_long" ELSE "exit_short"
    <3>1. config.exits /\ Exits(b)
      BY <2>1 DEF ExitAlerts
    <3>2. a = Payload(IF Opened(b) = 1 THEN "exit_long" ELSE "exit_short", ExitReason(b), 0)
      BY <2>1, <3>1 DEF ExitAlerts
    <3> QED
      BY <3>1, <3>2 DEF Payload
  <2>3. /\ Opened(b) # 0 /\ opener'.dir = Opened(b) /\ opener'.exits = 1
        /\ ExitMin > 1 => opener'.age > 0
    BY <1>7, <2>2
  <2>4. config'.weak => opener'.told
    BY <1>6, <2>3 DEF Told
  <2> QED
    BY <2>2, <2>3, <2>4
<1> QED
  BY <1>3, <1>4, <1>6, <1>8

\* The invariant holds from the first bar on.
LEMMA Inductive == Spec => []IInv
<1>1. Init => IInv
  BY DEF Init, IInv, Types, Held, Told, ExitsAnswerEntries, NoOpener
<1>2. IInv /\ [Next]_vars => IInv'
  <2> SUFFICES ASSUME IInv, [Next]_vars PROVE IInv'
    OBVIOUS
  <2>1. CASE Next
    BY <2>1, BarStep DEF Next
  <2>2. CASE UNCHANGED vars
    BY <2>2 DEF vars, IInv, Types, Held, Told, ExitsAnswerEntries
  <2> QED
    BY <2>1, <2>2
<1> QED
  BY <1>1, <1>2, PTL DEF Spec

\* THEOREM: a position is over, and its exit sent, within exit_max_bars,
\* whatever the market does.
THEOREM PositionsEndInTime == Spec => []HeldNoLonger
<1>1. IInv => HeldNoLonger
  BY DEF IInv, Types, Held, Told, HeldNoLonger
<1> QED
  BY <1>1, Inductive, PTL

\* THEOREM: every exit sent answers a position of its direction, once.
THEOREM ExitsAnswerPositions == Spec => []ExitsAnswerEntries
BY Inductive, PTL DEF IInv

=============================================================================
