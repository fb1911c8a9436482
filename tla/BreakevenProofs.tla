-------------------------- MODULE BreakevenProofs --------------------------
(***************************************************************************)
(* What the breakeven reconciler keeps whatever the market does: a shift is *)
(* deserved and leaves no loss, and one loop alone never loosens a stop.    *)
(***************************************************************************)
EXTENDS Breakeven, FiniteSetTheorems, TLAPS

USE BreakevenAssumption

\* The part of TypeOK the invariant needs; it is inductive by itself.
Types ==
  /\ price \in Price /\ buffer \in Buffers
  /\ pos \in [Positions -> Position]
  /\ best \in [Positions -> Nat]
  /\ pc \in [Loops -> Places]
  /\ todo \in [Loops -> SUBSET Positions]
  /\ snap \in [Loops -> [Positions -> Position]]
  /\ current \in [Loops -> [ticket : Positions \cup {"none"}, tick : Price, stop : Int]]
  /\ \A l \in Loops : pc[l] \in {"rates", "send"} => current[l].ticket \in Positions

Deserved(p) == best[p] * 10 >= TriggerR * pos[p].risk

\* What holds of a position by itself, at the broker and in a snapshot: until
\* its first shift the stop is where it was opened, then it locks in no loss.
PositionSound(q) ==
  /\ q.shifted => q.state # "unborn" /\ Gain(q, q.stop) >= 0
  /\ ~q.shifted /\ q.state # "unborn" => Gain(q, q.stop) = -q.risk

AccountSound ==
  \A p \in Positions :
    /\ PositionSound(pos[p])
    /\ pos[p].shifted => Deserved(p)
    /\ pos[p].state = "open" => Gain(pos[p], price) <= best[p]

\* The position the scan of l is working on or has still to look at.
Pending(l, p) == p \in todo[l] \/ (pc[l] \in {"rates", "send"} /\ p = current[l].ticket)

\* A snapshot tells the side, entry and risk of a position, and no shift that
\* has not happened.
SnapshotSound ==
  \A l \in Loops, p \in Positions : Pending(l, p) =>
    /\ snap[l][p].state = "open" /\ pos[p].state # "unborn"
    /\ PositionSound(snap[l][p])
    /\ snap[l][p].side = pos[p].side /\ snap[l][p].entry = pos[p].entry
    /\ snap[l][p].risk = pos[p].risk
    /\ snap[l][p].shifted => pos[p].shifted

\* A tick that was read is a price the open position has seen; a stop about to
\* be sent is deserved and locks in no loss.
WorkSound ==
  \A l \in Loops, p \in Positions : p = current[l].ticket =>
    /\ pc[l] = "rates" /\ pos[p].state = "open" => Gain(pos[p], current[l].tick) <= best[p]
    /\ pc[l] = "send" => /\ pos[p].state = "open" => Deserved(p)
                         /\ Gain(pos[p], current[l].stop) >= 0

IInv == Types /\ AccountSound /\ SnapshotSound /\ WorkSound

\* The invariant holds before the first cycle.
LEMMA InitOK == Init => IInv
<1> SUFFICES ASSUME Init PROVE IInv
  OBVIOUS
<1>1. Types
  <2>1. Unborn \in Position /\ Nothing.tick \in Price /\ Nothing.stop \in Int
    BY DEF Unborn, Position, Sides, Price, Nothing
  <2>2. Nothing \in [ticket : Positions \cup {"none"}, tick : Price, stop : Int]
    BY <2>1 DEF Nothing
  <2>3. pc \in [Loops -> Places] /\ \A l \in Loops : pc[l] \notin {"rates", "send"}
    BY DEF Init, Places
  <2> QED
    BY <2>1, <2>2, <2>3 DEF Init, Types
<1>2. AccountSound
  BY DEF Init, AccountSound, PositionSound, Unborn
<1>3. SnapshotSound /\ WorkSound
  BY DEF Init, SnapshotSound, WorkSound, Pending
<1> QED
  BY <1>1, <1>2, <1>3 DEF IInv

\* No step breaks the types.
LEMMA TypesStep ==
  ASSUME Types, [Next]_vars
  PROVE  Types'
<1> USE DEF Types, marketVars, loopVars
<1>1. CASE UNCHANGED vars
  BY <1>1 DEF vars
<1>2. ASSUME NEW p \in Positions, NEW side \in Sides, NEW risk \in Risks, Open(p, side, risk)
      PROVE  Types'
  <2>1. DEFINE new == [state |-> "open", side |-> side, entry |-> price, risk |-> risk,
                       shifted |-> FALSE,
                       stop |-> IF side = "long" THEN price - risk ELSE price + risk]
  <2>2. price - risk \in Int /\ price + risk \in Int /\ risk \in Nat
    BY DEF Price
  <2>3. new \in Position
    BY <2>2 DEF Position, Sides
  <2>4. pos' = [pos EXCEPT ![p] = new]
    BY <1>2 DEF Open
  <2> HIDE DEF new
  <2> QED
    BY <1>2, <2>3, <2>4 DEF Open
<1>3. ASSUME NEW to \in Price, MarketMoves(to) PROVE Types'
  <2>1. best' \in [Positions -> Nat]
    BY <1>3 DEF MarketMoves, Position, Price, Gain
  <2>2. \A q \in Position : [q EXCEPT !.state = "closed"] \in Position
    BY DEF Position
  <2>3. pos' \in [Positions -> Position]
    BY <1>3, <2>2 DEF MarketMoves
  <2> QED
    BY <1>3, <2>1, <2>3 DEF MarketMoves
<1>4. ASSUME NEW b \in Buffers, NewBar(b) PROVE Types'
  BY <1>4 DEF NewBar
<1>5. ASSUME NEW l \in Loops, Loop(l) PROVE Types'
  <2> USE DEF GoTo, Places
  <2>0. /\ Nothing \in [ticket : Positions \cup {"none"}, tick : Price, stop : Int]
        /\ \A c \in [ticket : Positions \cup {"none"}, tick : Price, stop : Int], stop \in Int :
             /\ [c EXCEPT !.stop = stop]
                  \in [ticket : Positions \cup {"none"}, tick : Price, stop : Int]
             /\ [c EXCEPT !.stop = stop].ticket = c.ticket
    BY DEF Nothing, Price
  <2>1. CASE Scan(l)
    BY <2>1 DEF Scan
  <2>2. ASSUME NEW p \in Positions, ReadTick(l, p) PROVE Types'
    BY <2>2 DEF ReadTick
  <2>3. CASE Decide(l)
    <3> DEFINE q == snap[l][current[l].ticket]
               check == Check(q, current[l].tick, buffer)
    <3>1. q.entry \in Int
      BY <2>3 DEF Decide, Position, Price
    <3>2. check.stop \in Int
      BY <3>1 DEF Check
    <3>3. \/ check.shift /\ current' = [current EXCEPT ![l].stop = check.stop]
             /\ pc' = [pc EXCEPT ![l] = "send"]
          \/ current' = [current EXCEPT ![l] = Nothing] /\ pc' = [pc EXCEPT ![l] = "scan"]
      BY <2>3 DEF Decide
    <3>4. UNCHANGED <<price, buffer, pos, best, todo, snap>> /\ pc[l] = "rates"
      BY <2>3 DEF Decide
    <3> HIDE DEF check
    <3>5. CASE /\ current' = [current EXCEPT ![l].stop = check.stop]
               /\ pc' = [pc EXCEPT ![l] = "send"]
      <4>1. current' = [current EXCEPT ![l] = [@ EXCEPT !.stop = check.stop]]
        BY <3>5
      <4>2. /\ current[l] \in [ticket : Positions \cup {"none"}, tick : Price, stop : Int]
            /\ current[l].ticket \in Positions
        BY <3>4
      <4>3. /\ [current[l] EXCEPT !.stop = check.stop]
                 \in [ticket : Positions \cup {"none"}, tick : Price, stop : Int]
            /\ [current[l] EXCEPT !.stop = check.stop].ticket \in Positions
        BY <2>0, <3>2, <4>2
      <4> QED
        BY <3>4, <3>5, <4>1, <4>3
    <3>6. CASE /\ current' = [current EXCEPT ![l] = Nothing]
               /\ pc' = [pc EXCEPT ![l] = "scan"]
      BY <2>0, <3>4, <3>6
    <3> QED
      BY <3>3, <3>5, <3>6
  <2>4. CASE CycleEnds(l)
    BY <2>4 DEF CycleEnds
  <2>5. CASE WakeUp(l)
    BY <2>5 DEF WakeUp
  <2>6. CASE NoData(l)
    <3>1. /\ current' = [current EXCEPT ![l] = Nothing] /\ pc' = [pc EXCEPT ![l] = "scan"]
          /\ UNCHANGED <<price, buffer, pos, best, snap>>
      BY <2>6 DEF NoData
    <3>2. todo' \in [Loops -> SUBSET Positions]
      BY <2>6 DEF NoData
    <3> QED
      BY <2>0, <3>1, <3>2
  <2>7. CASE Shift(l)
    <3>1. \A q \in Position, stop \in Int :
            [q EXCEPT !.stop = stop, !.shifted = TRUE] \in Position
      BY DEF Position
    <3>2. pos' = [pos EXCEPT ![current[l].ticket] =
                    [@ EXCEPT !.stop = current[l].stop, !.shifted = TRUE]]
      BY <2>7 DEF Shift
    <3>3. /\ pc[l] = "send" /\ pc' = [pc EXCEPT ![l] = "scan"]
          /\ current' = [current EXCEPT ![l] = Nothing]
          /\ UNCHANGED <<price, buffer, best, todo, snap>>
      BY <2>7 DEF Shift
    <3>4. pos' \in [Positions -> Position]
      BY <3>1, <3>2, <3>3
    <3> QED
      BY <2>0, <3>3, <3>4
  <2>8. CASE ShiftFails(l)
    BY <2>0, <2>8 DEF ShiftFails
  <2>9. CASE CycleRaises(l)
    BY <2>0, <2>9 DEF CycleRaises
  <2> QED
    BY <1>5, <2>1, <2>2, <2>3, <2>4, <2>5, <2>6, <2>7, <2>8, <2>9 DEF Loop, Progress
<1> QED
  BY <1>1, <1>2, <1>3, <1>4, <1>5 DEF Next, Market

-----------------------------------------------------------------------------
(* The check.                                                                *)

\* The stop the check proposes locks in the buffer, and is tighter than the
\* one it was shown.
LEMMA CheckLocksIn ==
  ASSUME NEW q \in Position, NEW tick \in Int, NEW buf \in Nat
  PROVE  /\ Check(q, tick, buf).stop \in Int
         /\ Gain(q, Check(q, tick, buf).stop) = buf
         /\ Check(q, tick, buf).shift => Tighter(q, Check(q, tick, buf).stop, q.stop)
<1>1. q.entry \in Int
  BY DEF Position, Price
<1> QED
  BY <1>1 DEF Check, Gain

\* Before the first shift the distance to the stop is the risk of the position.
LEMMA FirstShiftDeserved ==
  ASSUME NEW q \in Position, NEW tick \in Int, NEW buf \in Nat,
         PositionSound(q), q.state # "unborn", ~q.shifted, Check(q, tick, buf).shift
  PROVE  Gain(q, tick) * 10 >= TriggerR * q.risk
<1> DEFINE distance == IF q.entry > q.stop THEN q.entry - q.stop ELSE q.stop - q.entry
<1>1. q.entry \in Int /\ q.stop \in Int /\ q.risk \in Nat
  BY DEF Position, Price
<1>2. distance = q.risk
  BY <1>1 DEF PositionSound, Gain
<1>3. Gain(q, tick) * 10 >= TriggerR * distance
  BY DEF Check
<1> QED
  BY <1>2, <1>3

\* What a snapshot and the position at the broker have in common.
SameDeal(q, r) == q.side = r.side /\ q.entry = r.entry /\ q.risk = r.risk

\* Points gained are a matter of side, entry and price alone.
LEMMA SameGain ==
  ASSUME NEW q, NEW r, NEW x, SameDeal(q, r)
  PROVE  Gain(q, x) = Gain(r, x)
BY DEF SameDeal, Gain

-----------------------------------------------------------------------------
(* The steps.                                                                *)

\* Opening a position keeps the invariant.
LEMMA OpenStep ==
  ASSUME IInv, Types', NEW p \in Positions, NEW side \in Sides, NEW risk \in Risks,
         Open(p, side, risk)
  PROVE  AccountSound' /\ SnapshotSound' /\ WorkSound'
<1> USE DEF IInv, Types
<1>1. /\ pos[p].state = "unborn"
      /\ \A r \in Positions : r # p => pos'[r] = pos[r]
      /\ pos'[p].state = "open" /\ pos'[p].side = side /\ pos'[p].entry = price
      /\ pos'[p].risk = risk /\ pos'[p].shifted = FALSE
      /\ pos'[p].stop = IF side = "long" THEN price - risk ELSE price + risk
      /\ UNCHANGED <<price, buffer, best, pc, todo, snap, current>>
  BY DEF Open, loopVars
<1>2. price \in Int /\ risk \in Nat /\ best[p] \in Nat
  BY DEF Price
<1>3. PositionSound(pos[p])' /\ Gain(pos[p], price)' = 0
  BY <1>1, <1>2 DEF PositionSound, Gain, Sides
<1>4. AccountSound'
  <2> SUFFICES ASSUME NEW r \in Positions
               PROVE  /\ PositionSound(pos[r])' /\ (pos[r].shifted => Deserved(r))'
                      /\ (pos[r].state = "open" => Gain(pos[r], price) <= best[r])'
    BY DEF AccountSound
  <2>1. CASE r = p
    BY <2>1, <1>1, <1>2, <1>3
  <2>2. CASE r # p
    BY <2>2, <1>1 DEF AccountSound, Deserved, PositionSound, Gain
  <2> QED
    BY <2>1, <2>2
<1>5. \A l \in Loops : ~Pending(l, p)
  BY <1>1 DEF SnapshotSound
<1>6. \A l \in Loops, r \in Positions : Pending(l, r)' <=> Pending(l, r)
  BY <1>1 DEF Pending
<1>7. SnapshotSound'
  BY <1>1, <1>5, <1>6 DEF SnapshotSound, PositionSound, Gain
<1>8. WorkSound'
  BY <1>1, <1>5 DEF WorkSound, Pending, Deserved, Gain
<1> QED
  BY <1>4, <1>7, <1>8

\* Only the state of a position changes and only from open; its history grows.
LEMMA MarketStep ==
  ASSUME IInv, Types', NEW to \in Price, MarketMoves(to)
  PROVE  AccountSound' /\ SnapshotSound' /\ WorkSound'
<1> USE DEF IInv, Types
<1>1. \A p \in Positions :
        /\ SameDeal(pos'[p], pos[p]) /\ pos'[p].stop = pos[p].stop
        /\ pos'[p].shifted = pos[p].shifted
        /\ pos'[p].state = "open" => pos[p].state = "open"
        /\ pos'[p].state = "unborn" <=> pos[p].state = "unborn"
  BY DEF MarketMoves, StopHit, SameDeal, Position
<1>2. price' = to /\ UNCHANGED <<pc, todo, snap, current>>
  BY DEF MarketMoves, loopVars
<1>3. \A p \in Positions : Gain(pos[p], to) \in Int
  BY DEF Position, Price, Gain
<1>4. \A p \in Positions :
        /\ best'[p] >= best[p]
        /\ pos[p].state = "open" => best'[p] >= Gain(pos[p], to)
  BY <1>3 DEF MarketMoves
<1>5. \A p \in Positions : PositionSound(pos[p]) => PositionSound(pos[p])'
  BY <1>1 DEF PositionSound, Gain, SameDeal
<1>6. \A p \in Positions : Deserved(p) => Deserved(p)'
  <2> SUFFICES ASSUME NEW p \in Positions, Deserved(p) PROVE Deserved(p)'
    OBVIOUS
  <2>1. TriggerR * pos[p].risk \in Int /\ pos'[p].risk = pos[p].risk
    BY <1>1 DEF Position, SameDeal
  <2> DEFINE bar == TriggerR * pos[p].risk
  <2>2. best[p] * 10 >= bar /\ bar \in Int
    BY <2>1 DEF Deserved
  <2>3. best[p] \in Nat /\ best'[p] \in Nat /\ best'[p] >= best[p]
    BY <1>4
  <2> HIDE DEF bar
  <2>4. best'[p] * 10 >= bar
    BY <2>2, <2>3
  <2> QED
    BY <2>1, <2>4 DEF Deserved, bar
<1>7. AccountSound'
  <2> SUFFICES ASSUME NEW p \in Positions
               PROVE  /\ PositionSound(pos[p])' /\ (pos[p].shifted => Deserved(p))'
                      /\ (pos[p].state = "open" => Gain(pos[p], price) <= best[p])'
    BY DEF AccountSound
  <2>1. Gain(pos'[p], to) = Gain(pos[p], to)
    BY <1>1, SameGain
  <2> QED
    BY <1>1, <1>2, <1>4, <1>5, <1>6, <2>1 DEF AccountSound
<1>8. SnapshotSound'
  <2> SUFFICES ASSUME NEW l \in Loops, NEW p \in Positions, Pending(l, p)
               PROVE  /\ snap[l][p].state = "open" /\ pos'[p].state # "unborn"
                      /\ PositionSound(snap[l][p])
                      /\ snap[l][p].side = pos'[p].side /\ snap[l][p].entry = pos'[p].entry
                      /\ snap[l][p].risk = pos'[p].risk
                      /\ snap[l][p].shifted => pos'[p].shifted
    BY <1>2 DEF SnapshotSound, Pending, PositionSound, Gain
  <2> QED
    BY <1>1 DEF SnapshotSound, SameDeal
<1>9. WorkSound'
  <2> SUFFICES ASSUME NEW l \in Loops, NEW p \in Positions, p = current[l].ticket
               PROVE  /\ (pc[l] = "rates" /\ pos[p].state = "open"
                            => Gain(pos[p], current[l].tick) <= best[p])'
                      /\ (pc[l] = "send" => /\ pos[p].state = "open" => Deserved(p)
                                            /\ Gain(pos[p], current[l].stop) >= 0)'
    BY <1>2 DEF WorkSound
  <2>1. /\ Gain(pos'[p], current[l].tick) = Gain(pos[p], current[l].tick)
        /\ Gain(pos'[p], current[l].stop) = Gain(pos[p], current[l].stop)
    BY <1>1, SameGain
  <2>2. Gain(pos[p], current[l].tick) \in Int
    BY DEF Position, Price, Gain
  <2>3. best[p] \in Nat /\ best'[p] \in Nat /\ best'[p] >= best[p]
    BY <1>4
  <2>4. pc[l] = "rates" /\ pos'[p].state = "open" => Gain(pos[p], current[l].tick) <= best[p]
    BY <1>1 DEF WorkSound
  <2>5. pc[l] = "send" => /\ pos'[p].state = "open" => Deserved(p)'
                          /\ Gain(pos[p], current[l].stop) >= 0
    BY <1>1, <1>6 DEF WorkSound
  <2> QED
    BY <1>2, <2>1, <2>2, <2>3, <2>4, <2>5
<1> QED
  BY <1>7, <1>8, <1>9

\* A loop that touches neither an account nor what another loop knows keeps the
\* invariant if it keeps its own part of it.
LEMMA OwnPart ==
  ASSUME IInv, Types', NEW l \in Loops, UNCHANGED <<price, pos, best>>,
         \A k \in Loops \ {l} : /\ pc'[k] = pc[k] /\ todo'[k] = todo[k]
                                /\ snap'[k] = snap[k] /\ current'[k] = current[k],
         \A p \in Positions : Pending(l, p)' =>
            /\ snap'[l][p].state = "open" /\ pos[p].state # "unborn"
            /\ PositionSound(snap'[l][p]) /\ SameDeal(snap'[l][p], pos[p])
            /\ snap'[l][p].shifted => pos[p].shifted,
         \A p \in Positions : p = current'[l].ticket =>
            /\ pc'[l] = "rates" /\ pos[p].state = "open"
                 => Gain(pos[p], current'[l].tick) <= best[p]
            /\ pc'[l] = "send" => /\ pos[p].state = "open" => Deserved(p)
                                 /\ Gain(pos[p], current'[l].stop) >= 0
  PROVE  AccountSound' /\ SnapshotSound' /\ WorkSound'
<1>1. AccountSound'
  BY DEF IInv, AccountSound, PositionSound, Deserved, Gain
<1>2. SnapshotSound'
  <2> SUFFICES ASSUME NEW k \in Loops, NEW p \in Positions, Pending(k, p)'
               PROVE  /\ snap'[k][p].state = "open" /\ pos[p].state # "unborn"
                      /\ PositionSound(snap'[k][p]) /\ SameDeal(snap'[k][p], pos[p])
                      /\ snap'[k][p].shifted => pos[p].shifted
    BY DEF SnapshotSound, SameDeal, PositionSound, Gain
  <2>1. CASE k = l
    BY <2>1
  <2>2. CASE k # l
    <3>1. Pending(k, p) /\ snap'[k] = snap[k]
      BY <2>2 DEF Pending
    <3> QED
      BY <3>1 DEF IInv, SnapshotSound, SameDeal
  <2> QED
    BY <2>1, <2>2
<1>3. WorkSound'
  BY DEF IInv, WorkSound, Deserved, Gain
<1> QED
  BY <1>1, <1>2, <1>3

\* A step of a loop keeps the invariant.
LEMMA LoopStep ==
  ASSUME IInv, Types', NEW l \in Loops, Loop(l)
  PROVE  AccountSound' /\ SnapshotSound' /\ WorkSound'
<1> USE DEF IInv, Types, GoTo, marketVars
<1>1. CASE Scan(l)
  <2>1. /\ snap' = [snap EXCEPT ![l] = pos] /\ pc' = [pc EXCEPT ![l] = "scan"]
        /\ todo' = [todo EXCEPT ![l] = {p \in Positions : pos[p].state = "open"}]
        /\ UNCHANGED <<price, pos, best, current>>
    BY <1>1 DEF Scan
  <2>2. \A p \in Positions : Pending(l, p)' => pos[p].state = "open" /\ snap'[l][p] = pos[p]
    BY <2>1 DEF Pending
  <2>3. \A p \in Positions : PositionSound(pos[p]) /\ SameDeal(pos[p], pos[p])
    BY DEF AccountSound, SameDeal
  <2> QED
    BY <2>1, <2>2, <2>3, OwnPart
<1>2. ASSUME NEW q \in Positions, ReadTick(l, q)
      PROVE  AccountSound' /\ SnapshotSound' /\ WorkSound'
  <2>1. /\ q \in todo[l] /\ todo' = [todo EXCEPT ![l] = @ \ {q}]
        /\ current' = [current EXCEPT ![l] = [ticket |-> q, tick |-> price, stop |-> 0]]
        /\ pc' = [pc EXCEPT ![l] = "rates"] /\ UNCHANGED <<price, pos, best, snap>>
    BY <1>2 DEF ReadTick
  <2>2. \A p \in Positions : Pending(l, p)' => Pending(l, p)
    BY <2>1 DEF Pending
  <2>3. pos[q].state = "open" => Gain(pos[q], price) <= best[q]
    BY DEF AccountSound
  <2> QED
    BY <2>1, <2>2, <2>3, OwnPart DEF SnapshotSound, SameDeal
<1>3. CASE Decide(l)
  <2> DEFINE t == current[l].ticket
             q == snap[l][t]
             tick == current[l].tick
             check == Check(q, tick, buffer)
  <2>1. pc[l] = "rates" /\ t \in Positions /\ q \in Position /\ tick \in Int /\ buffer \in Nat
    BY <1>3 DEF Decide, Price
  <2>2. \A p \in Positions : Pending(l, p)' => Pending(l, p)
    BY <1>3, <2>1 DEF Decide, Pending
  <2>3. /\ q.state = "open" /\ PositionSound(q) /\ SameDeal(q, pos[t])
        /\ q.shifted => pos[t].shifted
    BY <2>1 DEF SnapshotSound, Pending, SameDeal
  <2>4. ASSUME check.shift PROVE Gain(pos[t], check.stop) >= 0
    BY <2>1, <2>3, CheckLocksIn, SameGain
  <2>5. ASSUME check.shift, pos[t].state = "open" PROVE Deserved(t)
    <3>1. CASE q.shifted
      BY <2>1, <2>3, <3>1 DEF AccountSound
    <3>2. CASE ~q.shifted
      <4>1. Gain(q, tick) * 10 >= TriggerR * q.risk
        BY <2>1, <2>3, <2>5, <3>2, FirstShiftDeserved
      <4>2. Gain(q, tick) = Gain(pos[t], tick) /\ q.risk = pos[t].risk
        <5>1. SameDeal(q, pos[t])
          BY <2>3
        <5>2. Gain(q, tick) = Gain(pos[t], tick)
          BY <5>1, SameGain
        <5> QED
          BY <5>1, <5>2 DEF SameDeal
      <4>3. Gain(pos[t], tick) <= best[t] /\ best[t] \in Nat
        BY <2>1, <2>5 DEF WorkSound
      <4>4. Gain(pos[t], tick) \in Int /\ TriggerR * pos[t].risk \in Int
        BY <2>1 DEF Position, Price, Gain
      <4> DEFINE bar == TriggerR * pos[t].risk
                 gain == Gain(pos[t], tick)
      <4>5. gain * 10 >= bar /\ gain <= best[t] /\ gain \in Int /\ bar \in Int
        BY <4>1, <4>2, <4>3, <4>4
      <4> HIDE DEF bar, gain
      <4>6. best[t] * 10 >= bar
        BY <4>3, <4>5
      <4> QED
        BY <4>6 DEF Deserved, bar
    <3> QED
      BY <3>1, <3>2
  <2>6. \/ /\ check.shift /\ pc' = [pc EXCEPT ![l] = "send"]
           /\ current' = [current EXCEPT ![l] = [@ EXCEPT !.stop = check.stop]]
        \/ current' = [current EXCEPT ![l] = Nothing] /\ pc' = [pc EXCEPT ![l] = "scan"]
    BY <1>3 DEF Decide
  <2>7. UNCHANGED <<price, pos, best, todo, snap>>
    BY <1>3 DEF Decide
  <2> HIDE DEF check
  <2>8. pc'[l] = "send" => check.shift /\ current'[l].ticket = t /\ current'[l].stop = check.stop
    BY <2>1, <2>6
  <2>9. pc'[l] # "rates"
    BY <2>6
  <2>10. \A k \in Loops \ {l} : pc'[k] = pc[k] /\ current'[k] = current[k]
    BY <2>6
  <2>11. \A p \in Positions : Pending(l, p)' =>
           /\ snap'[l][p].state = "open" /\ pos[p].state # "unborn"
           /\ PositionSound(snap'[l][p]) /\ SameDeal(snap'[l][p], pos[p])
           /\ snap'[l][p].shifted => pos[p].shifted
    BY <2>2, <2>7 DEF SnapshotSound, SameDeal
  <2>12. \A p \in Positions : p = current'[l].ticket =>
           /\ pc'[l] = "rates" /\ pos[p].state = "open"
                => Gain(pos[p], current'[l].tick) <= best[p]
           /\ pc'[l] = "send" => /\ pos[p].state = "open" => Deserved(p)
                                /\ Gain(pos[p], current'[l].stop) >= 0
    BY <2>4, <2>5, <2>8, <2>9
  <2> QED
    BY <2>7, <2>10, <2>11, <2>12, OwnPart
<1>4. CASE CycleEnds(l) \/ WakeUp(l) \/ NoData(l) \/ ShiftFails(l) \/ CycleRaises(l)
  <2>1. /\ pc' \in {[pc EXCEPT ![l] = place] : place \in {"ready", "scan", "sleep"}}
        /\ \/ current' = [current EXCEPT ![l] = Nothing] \/ UNCHANGED current
        /\ \A k \in Loops : todo'[k] \subseteq todo[k] /\ (k # l => todo'[k] = todo[k])
        /\ UNCHANGED <<price, pos, best, snap>>
    BY <1>4 DEF CycleEnds, WakeUp, NoData, ShiftFails, CycleRaises
  <2>2. \A p \in Positions : Pending(l, p)' => Pending(l, p)
    BY <2>1 DEF Pending
  <2>3. pc'[l] \notin {"rates", "send"} /\ \A k \in Loops \ {l} :
          pc'[k] = pc[k] /\ current'[k] = current[k]
    BY <2>1
  <2> QED
    BY <2>1, <2>2, <2>3, OwnPart DEF SnapshotSound, SameDeal
<1>5. CASE Shift(l)
  <2> PICK t \in Positions : t = current[l].ticket
    BY <1>5 DEF Shift
  <2>1. /\ pc[l] = "send" /\ pos[t].state = "open"
        /\ pos' = [pos EXCEPT ![t] = [@ EXCEPT !.stop = current[l].stop, !.shifted = TRUE]]
        /\ current' = [current EXCEPT ![l] = Nothing] /\ pc' = [pc EXCEPT ![l] = "scan"]
        /\ UNCHANGED <<price, best, todo, snap>>
    BY <1>5 DEF Shift, Modifiable
  <2>2. Deserved(t) /\ Gain(pos[t], current[l].stop) >= 0
    BY <2>1 DEF WorkSound
  <2>3. /\ pos'[t].stop = current[l].stop /\ pos'[t].shifted = TRUE /\ pos'[t].state = "open"
        /\ \A p \in Positions : p # t => pos'[p] = pos[p]
    BY <2>1 DEF Position
  <2>4. \A p \in Positions : SameDeal(pos'[p], pos[p]) /\ pos'[p].state = pos[p].state
    BY <2>1 DEF Position, SameDeal
  <2>5. \A p \in Positions : \A x : Gain(pos'[p], x) = Gain(pos[p], x)
    BY <2>4, SameGain
  <2>6. \A p \in Positions : Deserved(p) => Deserved(p)'
    BY <2>1, <2>4 DEF Deserved, SameDeal
  <2>7. AccountSound'
    <3> SUFFICES ASSUME NEW p \in Positions
                 PROVE  /\ PositionSound(pos[p])' /\ (pos[p].shifted => Deserved(p))'
                        /\ (pos[p].state = "open" => Gain(pos[p], price) <= best[p])'
      BY DEF AccountSound
    <3>1. CASE p = t
      <4>1. Gain(pos'[t], pos'[t].stop) >= 0
        <5>1. Gain(pos'[t], current[l].stop) = Gain(pos[t], current[l].stop)
          BY <2>5
        <5> QED
          BY <2>2, <2>3, <5>1
      <4>2. PositionSound(pos[t])'
        BY <2>3, <4>1 DEF PositionSound
      <4>3. Gain(pos'[t], price) <= best[t]
        BY <2>1, <2>5 DEF AccountSound
      <4> QED
        BY <2>1, <2>2, <2>6, <3>1, <4>2, <4>3
    <3>2. CASE p # t
      BY <2>1, <2>3, <2>5, <2>6, <3>2 DEF AccountSound, PositionSound
    <3> QED
      BY <3>1, <3>2
  <2>8. \A k \in Loops, p \in Positions : Pending(k, p)' => Pending(k, p)
    BY <2>1 DEF Pending
  <2>9. \A p \in Positions : pos[p].shifted => pos'[p].shifted
    BY <2>1, <2>3
  <2>10. SnapshotSound'
    <3> SUFFICES ASSUME NEW k \in Loops, NEW p \in Positions, Pending(k, p)
                 PROVE  /\ snap[k][p].state = "open" /\ pos'[p].state # "unborn"
                        /\ PositionSound(snap[k][p])
                        /\ snap[k][p].side = pos'[p].side /\ snap[k][p].entry = pos'[p].entry
                        /\ snap[k][p].risk = pos'[p].risk
                        /\ snap[k][p].shifted => pos'[p].shifted
      BY <2>1, <2>8 DEF SnapshotSound, PositionSound, Gain
    <3> QED
      BY <2>4, <2>9 DEF SnapshotSound, SameDeal
  <2>11. WorkSound'
    <3> SUFFICES ASSUME NEW k \in Loops, NEW p \in Positions, k # l, p = current[k].ticket
                 PROVE  /\ (pc[k] = "rates" /\ pos[p].state = "open"
                              => Gain(pos[p], current[k].tick) <= best[p])'
                        /\ (pc[k] = "send" => /\ pos[p].state = "open" => Deserved(p)
                                              /\ Gain(pos[p], current[k].stop) >= 0)'
      BY <2>1 DEF WorkSound
    <3>1. pc'[k] = pc[k] /\ current'[k] = current[k]
      BY <2>1
    <3> QED
      BY <2>1, <2>4, <2>5, <2>6, <3>1 DEF WorkSound
  <2> QED
    BY <2>7, <2>10, <2>11
<1> QED
  BY <1>1, <1>2, <1>3, <1>4, <1>5 DEF Loop, Progress

\* Every step keeps the invariant.
LEMMA InvariantStep ==
  ASSUME IInv, [Next]_vars
  PROVE  IInv'
<1>1. Types'
  BY TypesStep DEF IInv
<1>2. CASE UNCHANGED vars
  BY <1>1, <1>2 DEF IInv, vars, marketVars, loopVars, AccountSound, SnapshotSound, WorkSound,
                    PositionSound, Deserved, Pending, Gain
<1>3. ASSUME NEW b \in Buffers, NewBar(b) PROVE IInv'
  BY <1>1, <1>3 DEF IInv, NewBar, loopVars, AccountSound, SnapshotSound, WorkSound,
                    PositionSound, Deserved, Pending, Gain
<1> QED
  BY <1>1, <1>2, <1>3, OpenStep, MarketStep, LoopStep DEF IInv, Next, Market

\* THEOREM: account, snapshots and work under way agree in every reachable state.
THEOREM Invariant == Spec => []IInv
BY InitOK, InvariantStep, PTL DEF Spec

\* For any number of loops, positions and failures, no position is shifted before
\* the market has once gone the trigger's multiple of the original risk.
THEOREM ShiftsAreDeserved == Spec => []TriggerHonoured
<1>1. IInv => TriggerHonoured
  BY DEF IInv, AccountSound, Deserved, TriggerHonoured
<1> QED
  BY <1>1, Invariant, PTL

\* For any number of loops a position that was shifted can lose no more.
THEOREM ShiftsLockInNoLoss == Spec => []NoLossAfterShift
<1>1. IInv => NoLossAfterShift
  BY DEF IInv, AccountSound, PositionSound, NoLossAfterShift
<1> QED
  BY <1>1, Invariant, PTL

-----------------------------------------------------------------------------
(* The pauses.                                                               *)

\* The backoff counts subsets: a power of two is a natural number.
LEMMA PowerOfTwo == ASSUME NEW n \in Nat PROVE 2^n \in Nat
<1>1. IsFiniteSet(1..n) /\ Cardinality(1..n) = n
  BY FS_Interval
<1>2. IsFiniteSet(SUBSET (1..n)) /\ Cardinality(SUBSET (1..n)) = 2^n
  BY <1>1, FS_SUBSET
<1> QED
  BY <1>2, FS_CardinalityType

\* Whatever the number of failures, the pause is at most MaxBackoff.
LEMMA BackoffBounded == ASSUME NEW n \in Nat PROVE Backoff(n) \in 0..MaxBackoff
<1> DEFINE power == 2^n
<1>1. power \in Nat
  BY PowerOfTwo
<1> HIDE DEF power
<1>2. IF Interval * power < MaxBackoff THEN Interval * power \in 0..MaxBackoff
                                      ELSE MaxBackoff \in 0..MaxBackoff
  BY <1>1 DEF Interval, MaxBackoff
<1> QED
  BY <1>2 DEF Backoff, power

Pauses ==
  /\ failures \in [Loops -> 0..MaxFailures]
  /\ wait \in [Loops -> 0..MaxBackoff]

\* A step leaves every pause a power of two under the cap.
LEMMA PausesStep ==
  ASSUME Pauses, [Next]_vars
  PROVE  Pauses'
<1>1. CASE UNCHANGED <<failures, wait>>
  BY <1>1 DEF Pauses
<1>2. ASSUME NEW l \in Loops, CycleEnds(l) PROVE Pauses'
  <2>1. 0 \in 0..MaxFailures /\ Interval \in 0..MaxBackoff
    BY DEF Interval, MaxBackoff
  <2> QED
    BY <1>2, <2>1 DEF CycleEnds, Pauses
<1>3. ASSUME NEW l \in Loops, CycleRaises(l) PROVE Pauses'
  <2>1. failures[l] + 1 \in 0..MaxFailures
    BY <1>3 DEF CycleRaises, Pauses
  <2>2. Backoff(failures[l] + 1) \in 0..MaxBackoff
    BY <2>1, BackoffBounded
  <2> QED
    BY <1>3, <2>1, <2>2 DEF CycleRaises, Pauses
<1> QED
  BY <1>1, <1>2, <1>3 DEF Next, Market, Open, MarketMoves, NewBar, Loop, Progress, Scan, ReadTick,
     Decide, WakeUp, NoData, Shift, ShiftFails, vars, loopVars, marketVars

\* THEOREM: the variables keep their types for any number of loops and failures:
\* in particular no pause grows beyond MaxBackoff.
THEOREM TypeCorrect == Spec => []TypeOK
<1>1. Init => Pauses
  BY DEF Init, Pauses, MaxBackoff
<1>2. Pauses /\ [Next]_vars => Pauses'
  BY PausesStep
<1>3. IInv /\ Pauses => TypeOK
  BY DEF IInv, Types, Pauses, TypeOK
<1> QED
  BY <1>1, <1>2, <1>3, Invariant, PTL DEF Spec

-----------------------------------------------------------------------------
(* One loop alone.                                                           *)

\* Nobody but the loop itself moves a stop it has read.
StopsUpToDate ==
  \A l \in Loops, p \in Positions : Pending(l, p) =>
    /\ snap[l][p].stop = pos[p].stop
    /\ p \in todo[l] => ~(pc[l] \in {"rates", "send"} /\ p = current[l].ticket)
    /\ pc[l] = "send" /\ p = current[l].ticket
         => Gain(pos[p], current[l].stop) > Gain(pos[p], pos[p].stop)

\* With one loop, a step keeps what the scan has read of the stops true.
LEMMA StopsStep ==
  ASSUME \A k, l \in Loops : k = l, IInv, StopsUpToDate, [Next]_vars
  PROVE  StopsUpToDate'
<1> USE DEF IInv, Types, GoTo, marketVars, loopVars
<1>1. CASE UNCHANGED vars
  BY <1>1 DEF vars, StopsUpToDate, Pending, Gain
<1>2. ASSUME NEW q \in Positions, NEW side \in Sides, NEW risk \in Risks, Open(q, side, risk)
      PROVE  StopsUpToDate'
  <2>1. /\ pos[q].state = "unborn" /\ UNCHANGED <<pc, todo, snap, current>>
        /\ \A p \in Positions : p # q => pos'[p] = pos[p]
    BY <1>2 DEF Open
  <2>2. \A l \in Loops, p \in Positions : Pending(l, p)' => Pending(l, p) /\ p # q
    BY <2>1 DEF Pending, SnapshotSound
  <2> QED
    BY <2>1, <2>2 DEF StopsUpToDate, Gain
<1>3. ASSUME NEW to \in Price, MarketMoves(to) PROVE StopsUpToDate'
  <2>1. /\ UNCHANGED <<pc, todo, snap, current>>
        /\ \A p \in Positions : pos'[p].stop = pos[p].stop /\ SameDeal(pos'[p], pos[p])
    BY <1>3 DEF MarketMoves, Position, SameDeal
  <2> QED
    BY <2>1, SameGain DEF StopsUpToDate, Pending
<1>4. ASSUME NEW b \in Buffers, NewBar(b) PROVE StopsUpToDate'
  BY <1>4 DEF NewBar, StopsUpToDate, Pending, Gain
<1>5. ASSUME NEW l \in Loops, Loop(l) PROVE StopsUpToDate'
  <2>1. CASE Scan(l)
    <3>1. /\ snap'[l] = pos /\ pc'[l] = "scan" /\ UNCHANGED pos
      BY <2>1 DEF Scan
    <3> QED
      BY <3>1 DEF StopsUpToDate
  <2>2. ASSUME NEW q \in Positions, ReadTick(l, q) PROVE StopsUpToDate'
    <3>1. /\ q \in todo[l] /\ todo'[l] = todo[l] \ {q} /\ current'[l].ticket = q
          /\ pc'[l] = "rates" /\ UNCHANGED <<pos, snap>>
      BY <2>2 DEF ReadTick
    <3>2. \A p \in Positions : Pending(l, p)' => Pending(l, p)
      BY <3>1 DEF Pending
    <3> QED
      BY <3>1, <3>2 DEF StopsUpToDate
  <2>3. CASE Decide(l)
    <3> PICK t \in Positions : t = current[l].ticket
      BY <2>3 DEF Decide
    <3> DEFINE q == snap[l][t]
               check == Check(q, current[l].tick, buffer)
    <3>1. pc[l] = "rates" /\ q \in Position /\ current[l].tick \in Int /\ buffer \in Nat
      BY <2>3 DEF Decide, Price
    <3>2. /\ SameDeal(q, pos[t]) /\ q.stop = pos[t].stop /\ UNCHANGED <<pos, snap, todo>>
      BY <2>3 DEF Decide, Pending, SnapshotSound, SameDeal, StopsUpToDate
    <3>3. \/ /\ check.shift /\ pc' = [pc EXCEPT ![l] = "send"]
             /\ current' = [current EXCEPT ![l] = [@ EXCEPT !.stop = check.stop]]
          \/ current' = [current EXCEPT ![l] = Nothing] /\ pc' = [pc EXCEPT ![l] = "scan"]
      BY <2>3 DEF Decide
    <3>4. check.shift => Gain(q, check.stop) > Gain(q, q.stop)
      BY <3>1, CheckLocksIn DEF Tighter
    <3>5. /\ Gain(q, check.stop) = Gain(pos[t], check.stop)
          /\ Gain(q, q.stop) = Gain(pos[t], pos[t].stop)
      BY <3>2, SameGain
    <3> HIDE DEF check
    <3>6. pc'[l] = "send" => check.shift /\ current'[l].ticket = t /\ current'[l].stop = check.stop
      BY <3>1, <3>3
    <3>7. \A p \in Positions : Pending(l, p)' => Pending(l, p)
      BY <3>1, <3>2, <3>3, <3>6 DEF Pending
    <3>8. \A p \in Positions : p \in todo'[l] => ~(pc'[l] \in {"rates", "send"} /\ p = current'[l].ticket)
      BY <3>1, <3>2, <3>3, <3>6 DEF StopsUpToDate, Pending
    <3>9. pc'[l] = "send" => Gain(pos[t], current'[l].stop) > Gain(pos[t], pos[t].stop)
      BY <3>4, <3>5, <3>6
    <3> QED
      BY <3>2, <3>6, <3>7, <3>8, <3>9 DEF StopsUpToDate
  <2>4. CASE CycleEnds(l) \/ WakeUp(l) \/ NoData(l) \/ ShiftFails(l) \/ CycleRaises(l)
    <3>1. /\ pc'[l] \in {"ready", "scan", "sleep"} /\ todo'[l] \subseteq todo[l]
          /\ UNCHANGED <<pos, snap>>
      BY <2>4 DEF CycleEnds, WakeUp, NoData, ShiftFails, CycleRaises
    <3> QED
      BY <3>1 DEF StopsUpToDate, Pending
  <2>5. CASE Shift(l)
    <3>1. /\ pc[l] = "send" /\ pc'[l] = "scan" /\ UNCHANGED <<todo, snap>>
          /\ \A p \in Positions : p # current[l].ticket => pos'[p] = pos[p]
      BY <2>5 DEF Shift
    <3>2. \A p \in Positions : Pending(l, p)' => p # current[l].ticket /\ Pending(l, p)
      BY <3>1 DEF Pending, StopsUpToDate
    <3> QED
      BY <3>1, <3>2 DEF StopsUpToDate
  <2> QED
    BY <1>5, <2>1, <2>2, <2>3, <2>4, <2>5 DEF Loop, Progress
<1> QED
  BY <1>1, <1>2, <1>3, <1>4, <1>5 DEF Next, Market

\* A bridge that runs one loop never loosens a stop, however old the snapshot
\* and the tick of a scan are; with two loops it may.
THEOREM OneLoopNeverLoosens ==
  ASSUME \A k, l \in Loops : k = l
  PROVE  Spec => NeverLoosened
<1> DEFINE Tightened ==
      \A p \in Positions :
        pos[p].state = "open" /\ pos'[p].stop # pos[p].stop
          => Tighter(pos[p], pos'[p].stop, pos[p].stop)
<1>1. Init => StopsUpToDate
  BY DEF Init, StopsUpToDate, Pending
<1>2. ASSUME IInv, StopsUpToDate, [Next]_vars PROVE [Tightened]_vars
  <2> USE DEF IInv, Types, marketVars
  <2>1. CASE UNCHANGED vars
    BY <2>1
  <2>2. ASSUME NEW q \in Positions, NEW side \in Sides, NEW risk \in Risks, Open(q, side, risk)
        PROVE  Tightened
    BY <1>2, <2>2 DEF Open
  <2>3. ASSUME NEW to \in Price, MarketMoves(to) PROVE Tightened
    BY <1>2, <2>3 DEF MarketMoves, Position
  <2>4. CASE UNCHANGED pos
    BY <2>4
  <2>5. ASSUME NEW l \in Loops, Shift(l) PROVE Tightened
    <3> PICK t \in Positions : t = current[l].ticket
      BY <1>2, <2>5 DEF Shift
    <3>1. /\ pc[l] = "send"
          /\ pos' = [pos EXCEPT ![t] = [@ EXCEPT !.stop = current[l].stop, !.shifted = TRUE]]
      BY <1>2, <2>5 DEF Shift
    <3>2. Gain(pos[t], current[l].stop) > Gain(pos[t], pos[t].stop)
      BY <1>2, <3>1 DEF StopsUpToDate, Pending
    <3>3. /\ pos'[t].stop = current[l].stop
          /\ \A p \in Positions : p # t => pos'[p] = pos[p]
      BY <1>2, <3>1 DEF Position
    <3> QED
      BY <3>2, <3>3 DEF Tighter
  <2>6. [Next]_vars => \/ UNCHANGED vars \/ UNCHANGED pos
                       \/ \E q \in Positions, side \in Sides, risk \in Risks : Open(q, side, risk)
                       \/ \E to \in Price : MarketMoves(to)
                       \/ \E l \in Loops : Shift(l)
    BY DEF Next, Market, NewBar, Loop, Progress, Scan, ReadTick, Decide, CycleEnds, WakeUp,
           NoData, ShiftFails, CycleRaises
  <2> QED
    BY <1>2, <2>1, <2>2, <2>3, <2>4, <2>5, <2>6
<1>3. IInv /\ StopsUpToDate /\ [Next]_vars => StopsUpToDate'
  BY StopsStep
<1>4. Spec => []IInv
  BY Invariant
<1>5. IInv /\ StopsUpToDate /\ [Next]_vars => [Tightened]_vars
  BY <1>2
<1> QED
  BY <1>1, <1>3, <1>4, <1>5, PTL DEF Spec, NeverLoosened

=============================================================================
