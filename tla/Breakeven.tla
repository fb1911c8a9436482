----------------------------- MODULE Breakeven -----------------------------
(***************************************************************************)
(* The breakeven reconciler: the background loop of every worker process    *)
(* (app/main.py), the scan of MT5Executor.reconcile_breakeven and the two   *)
(* check functions (app/risk/breakeven.py), against an account whose        *)
(* positions open and stop out while a scan is under way.  Prices are in    *)
(* points above some base, so that 0 is a price like another and every      *)
(* position has a stop, as execute() opens it; the quote is the side of the *)
(* spread a position closes at.                                             *)
(***************************************************************************)
EXTENDS Integers

CONSTANTS Loops,         \* worker processes that run _breakeven_loop
          Positions,     \* tickets with the bridge's magic number
          MaxPrice,      \* bound of the model: prices are 0..MaxPrice
          Buffers,       \* values of sl_breakeven_buffer_atr_mult * ATR(14)
          Risks,         \* stop distances positions are opened with
          TriggerR,      \* sl_breakeven_trigger_r, in tenths
          MaxFailures    \* bound of the model: failures in a row

ASSUME BreakevenAssumption ==
  /\ MaxPrice \in Nat /\ MaxFailures \in Nat
  /\ Buffers \subseteq Nat /\ Risks \subseteq Nat \ {0} /\ TriggerR \in Nat \ {0}

VARIABLES
  price,     \* the market
  buffer,    \* buffer_atr_mult * ATR(14) of the last H1 bars
  pos,       \* pos[p]: the position at the broker
  best,      \* history: best[p], the largest gain p has seen since it opened
  pc,        \* pc[l]: where the loop of l stands
  todo,      \* todo[l]: positions of the scan not looked at yet
  snap,      \* snap[l]: what positions_get returned
  current,   \* current[l]: position, tick and new stop being worked on
  failures,  \* failures[l]: consecutive_failures
  wait       \* wait[l]: seconds the loop sleeps

loopVars   == <<pc, todo, snap, current, failures, wait>>
marketVars == <<price, buffer, pos, best>>
vars == <<marketVars, loopVars>>

-----------------------------------------------------------------------------

Sides == {"long", "short"}
Price == 0..MaxPrice
Position == [state : {"unborn", "open", "closed"}, side : Sides, entry : Price,
             stop : Int, risk : Nat, shifted : BOOLEAN]
Unborn == [state |-> "unborn", side |-> "long", entry |-> 0, stop |-> 0, risk |-> 0,
           shifted |-> FALSE]

Gain(q, at) == IF q.side = "long" THEN at - q.entry ELSE q.entry - at

\* A stop is a price: what it locks in is the gain at which it would close q.
Tighter(q, a, b) == Gain(q, a) > Gain(q, b)

\* Fault: a stop that is already tighter is moved all the same.
CheckIgnoringStop(q, tick, buf) ==
  LET distance == IF q.entry > q.stop THEN q.entry - q.stop ELSE q.stop - q.entry
      newStop  == IF q.side = "long" THEN q.entry + buf ELSE q.entry - buf
  IN [shift |-> /\ distance > 0
                /\ Gain(q, tick) * 10 >= TriggerR * distance
                /\ newStop # q.stop,
      stop  |-> newStop]

\* Fault: the check of a short is that of a long.
CheckLongOnly(q, tick, buf) ==
  LET distance == IF q.entry > q.stop THEN q.entry - q.stop ELSE q.stop - q.entry
      newStop  == q.entry + buf
  IN [shift |-> /\ distance > 0
                /\ Gain(q, tick) * 10 >= TriggerR * distance
                /\ newStop # q.stop,
      stop  |-> newStop]

\* Fault: the gain is compared with the trigger the wrong way round.
CheckBeforeTrigger(q, tick, buf) ==
  LET distance == IF q.entry > q.stop THEN q.entry - q.stop ELSE q.stop - q.entry
      newStop  == IF q.side = "long" THEN q.entry + buf ELSE q.entry - buf
  IN [shift |-> /\ distance > 0
                /\ Gain(q, tick) * 10 <= TriggerR * distance
                /\ Tighter(q, newStop, q.stop),
      stop  |-> newStop]

\* check_breakeven_long and _short on a position as positions_get described it.
\* The distance is taken from the current stop, not from the original one.
Check(q, tick, buf) ==
  LET distance == IF q.entry > q.stop THEN q.entry - q.stop ELSE q.stop - q.entry
      newStop  == IF q.side = "long" THEN q.entry + buf ELSE q.entry - buf
  IN [shift |-> /\ distance > 0
                /\ Gain(q, tick) * 10 >= TriggerR * distance
                /\ Tighter(q, newStop, q.stop),
      stop  |-> newStop]

Places == {"ready", "scan", "rates", "send", "sleep", "stopped"}

Nothing == [ticket |-> "none", tick |-> 0, stop |-> 0]

Interval   == 10
MaxBackoff == 300

\* Fault: the pause is not capped.
BackoffUncapped(n) == Interval * 2^n

\* The pause after the n-th failure in a row.
Backoff(n) == IF Interval * 2^n < MaxBackoff THEN Interval * 2^n ELSE MaxBackoff

\* A loop whose executor is a noop at startup, or that is disabled, returns.
Init ==
  /\ price \in Price /\ buffer \in Buffers
  /\ pos = [p \in Positions |-> Unborn]
  /\ best = [p \in Positions |-> 0]
  /\ pc \in [Loops -> {"ready", "stopped"}]
  /\ todo = [l \in Loops |-> {}]
  /\ snap = [l \in Loops |-> [p \in Positions |-> Unborn]]
  /\ current = [l \in Loops |-> Nothing]
  /\ failures = [l \in Loops |-> 0]
  /\ wait = [l \in Loops |-> 0]

-----------------------------------------------------------------------------
(* The account and the market.                                               *)

\* execute() of a handler opens p at the market with its protective stop.
Open(p, side, risk) ==
  /\ pos[p].state = "unborn"
  /\ pos' = [pos EXCEPT ![p] =
       [state |-> "open", side |-> side, entry |-> price, risk |-> risk, shifted |-> FALSE,
        stop |-> IF side = "long" THEN price - risk ELSE price + risk]]
  /\ UNCHANGED <<price, buffer, best, loopVars>>

StopHit(q, at) == q.state = "open" /\ Gain(q, at) <= Gain(q, q.stop)

\* The market moves by a point; the broker closes what it stops out.
MarketMoves(to) ==
  /\ to \in {price - 1, price + 1} \cap Price
  /\ price' = to
  /\ pos' = [p \in Positions |-> IF StopHit(pos[p], to) THEN [pos[p] EXCEPT !.state = "closed"]
                                                        ELSE pos[p]]
  /\ best' = [p \in Positions |->
                IF pos[p].state = "open" /\ Gain(pos[p], to) > best[p]
                THEN Gain(pos[p], to) ELSE best[p]]
  /\ UNCHANGED <<buffer, loopVars>>

\* The H1 bar being formed, or a new one, changes the ATR.
NewBar(b) ==
  /\ b # buffer
  /\ buffer' = b
  /\ UNCHANGED <<price, pos, best, loopVars>>

-----------------------------------------------------------------------------
(* One cycle of a loop.                                                      *)

GoTo(l, place) == pc' = [pc EXCEPT ![l] = place]

\* positions_get: one snapshot for the whole scan.
Scan(l) ==
  /\ pc[l] = "ready"
  /\ snap' = [snap EXCEPT ![l] = pos]
  /\ todo' = [todo EXCEPT ![l] = {p \in Positions : pos[p].state = "open"}]
  /\ GoTo(l, "scan")
  /\ UNCHANGED <<marketVars, current, failures, wait>>

\* symbol_info_tick of the next position.
ReadTick(l, p) ==
  /\ pc[l] = "scan" /\ p \in todo[l]
  /\ todo' = [todo EXCEPT ![l] = @ \ {p}]
  /\ current' = [current EXCEPT ![l] = [ticket |-> p, tick |-> price, stop |-> 0]]
  /\ GoTo(l, "rates")
  /\ UNCHANGED <<marketVars, snap, failures, wait>>

\* copy_rates_from_pos, the ATR and the check.
Decide(l) ==
  /\ pc[l] = "rates"
  /\ LET check == Check(snap[l][current[l].ticket], current[l].tick, buffer) IN
       IF check.shift
       THEN /\ current' = [current EXCEPT ![l].stop = check.stop]
            /\ GoTo(l, "send")
       ELSE /\ current' = [current EXCEPT ![l] = Nothing]
            /\ GoTo(l, "scan")
  /\ UNCHANGED <<marketVars, todo, snap, failures, wait>>

\* A tick or rates are not to be had: the position is left for the next cycle.
NoData(l) ==
  /\ \/ pc[l] = "scan" /\ \E p \in todo[l] : todo' = [todo EXCEPT ![l] = @ \ {p}]
     \/ pc[l] = "rates" /\ UNCHANGED todo
  /\ current' = [current EXCEPT ![l] = Nothing]
  /\ GoTo(l, "scan")
  /\ UNCHANGED <<marketVars, snap, failures, wait>>

\* The broker takes a stop for an open position on the far side of the market.
Modifiable(p, stop) ==
  pos[p].state = "open" /\ Gain(pos[p], price) > Gain(pos[p], stop)

\* order_send(TRADE_ACTION_SLTP) is done.
Shift(l) ==
  /\ pc[l] = "send"
  /\ Modifiable(current[l].ticket, current[l].stop)
  /\ pos' = [pos EXCEPT ![current[l].ticket] =
               [@ EXCEPT !.stop = current[l].stop, !.shifted = TRUE]]
  /\ current' = [current EXCEPT ![l] = Nothing]
  /\ GoTo(l, "scan")
  /\ UNCHANGED <<price, buffer, best, todo, snap, failures, wait>>

\* It is refused, unanswered, or raises inside its own try block.
ShiftFails(l) ==
  /\ pc[l] = "send"
  /\ current' = [current EXCEPT ![l] = Nothing]
  /\ GoTo(l, "scan")
  /\ UNCHANGED <<marketVars, todo, snap, failures, wait>>

\* The scan is through, or the terminal is not ready or reports no position:
\* the reconciler returns, which counts as a success.
CycleEnds(l) ==
  /\ \/ pc[l] = "scan" /\ todo[l] = {}
     \/ pc[l] = "ready"
  /\ failures' = [failures EXCEPT ![l] = 0]
  /\ wait' = [wait EXCEPT ![l] = Interval]
  /\ GoTo(l, "sleep")
  /\ UNCHANGED <<marketVars, todo, snap, current>>

\* Fault: the exception is not caught and ends the loop.
CycleRaisesFatally(l) ==
  /\ pc[l] \in {"ready", "scan", "rates"}
  /\ failures[l] < MaxFailures
  /\ failures' = [failures EXCEPT ![l] = @ + 1]
  /\ wait' = [wait EXCEPT ![l] = Backoff(failures[l] + 1)]
  /\ todo' = [todo EXCEPT ![l] = {}]
  /\ current' = [current EXCEPT ![l] = Nothing]
  /\ GoTo(l, "stopped")
  /\ UNCHANGED <<marketVars, snap>>

\* A call of the terminal raised: the rest of the scan is dropped.
CycleRaises(l) ==
  /\ pc[l] \in {"ready", "scan", "rates"}
  /\ failures[l] < MaxFailures
  /\ failures' = [failures EXCEPT ![l] = @ + 1]
  /\ wait' = [wait EXCEPT ![l] = Backoff(failures[l] + 1)]
  /\ todo' = [todo EXCEPT ![l] = {}]
  /\ current' = [current EXCEPT ![l] = Nothing]
  /\ GoTo(l, "sleep")
  /\ UNCHANGED <<marketVars, snap>>

WakeUp(l) ==
  /\ pc[l] = "sleep"
  /\ GoTo(l, "ready")
  /\ UNCHANGED <<marketVars, todo, snap, current, failures, wait>>

Progress(l) ==
  \/ Scan(l) \/ Decide(l) \/ CycleEnds(l) \/ WakeUp(l)
  \/ \E p \in Positions : ReadTick(l, p)

Market ==
  \/ \E p \in Positions, side \in Sides, risk \in Risks : Open(p, side, risk)
  \/ \E to \in Price : MarketMoves(to)
  \/ \E b \in Buffers : NewBar(b)

Loop(l) == Progress(l) \/ NoData(l) \/ Shift(l) \/ ShiftFails(l) \/ CycleRaises(l)

Next == Market \/ \E l \in Loops : Loop(l)

Spec == Init /\ [][Next]_vars

\* The loop goes on after every await and every exception, and the terminal
\* does not fail for ever: what is tried again and again succeeds at last.
Fairness ==
  \A l \in Loops :
    /\ WF_vars(Loop(l)) /\ SF_vars(Scan(l)) /\ SF_vars(Decide(l)) /\ SF_vars(Shift(l))
    /\ \A p \in Positions : SF_vars(ReadTick(l, p))

FairSpec == Spec /\ Fairness

-----------------------------------------------------------------------------

\* The variables keep their types (main.py, mt5.py).
TypeOK ==
  /\ price \in Price /\ buffer \in Buffers
  /\ pos \in [Positions -> Position]
  /\ best \in [Positions -> Nat]
  /\ pc \in [Loops -> Places]
  /\ todo \in [Loops -> SUBSET Positions]
  /\ snap \in [Loops -> [Positions -> Position]]
  /\ current \in [Loops -> [ticket : Positions \cup {"none"}, tick : Price, stop : Int]]
  /\ failures \in [Loops -> 0..MaxFailures]
  /\ wait \in [Loops -> 0..MaxBackoff]

\* A stop is only ever tightened, although the decision rests on a snapshot, a
\* tick and an ATR of three different moments ("never loosen an
\* already-tightened stop", breakeven.py:51).
NeverLoosened ==
  [][\A p \in Positions :
       pos[p].state = "open" /\ pos'[p].stop # pos[p].stop
         => Tighter(pos[p], pos'[p].stop, pos[p].stop)]_vars

\* No position is shifted before the market has once gone the trigger's multiple
\* of its original risk (main.py:69-86, breakeven.py:41).  A later shift of the same
\* position may come at a smaller gain, as the distance is then that of the last
\* shift (mt5.py:312).
TriggerHonoured ==
  \A p \in Positions : pos[p].shifted => best[p] * 10 >= TriggerR * pos[p].risk

\* A position that was shifted cannot lose any more: its stop is on the entry
\* or beyond it, on either side of the market (breakeven.py:50, 89).
NoLossAfterShift ==
  \A p \in Positions : pos[p].shifted => Gain(pos[p], pos[p].stop) >= 0

\* p is open and beyond the trigger of the distance it was opened with.
Triggered(p) ==
  pos[p].state = "open" /\ Gain(pos[p], price) * 10 >= TriggerR * pos[p].risk

\* A position that stays beyond the trigger, with a gain the buffer does not eat
\* up, is shifted by the loop that is active, whatever cycles failed before
\* (main.py:69-86).
Protected ==
  \A p \in Positions : (\E l \in Loops : pc[l] # "stopped") =>
    (<>[](Triggered(p) /\ buffer < Gain(pos[p], price)) => <>(pos[p].shifted))

=============================================================================
