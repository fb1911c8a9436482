---------------------------- MODULE SignalLedger ----------------------------
(***************************************************************************)
(* What the webhook promises of every signal, whatever the workers, the     *)
(* broker and the database do: it is refused or taken up once; while it is  *)
(* open, and only then, at most one order and then at most one journal row  *)
(* are written for it; it ends with or without them, and orders and rows    *)
(* are never withdrawn.                                                     *)
(***************************************************************************)
EXTENDS Naturals, Sequences

CONSTANT Requests

VARIABLES stage,    \* stage[r]: "waiting", "open" or "closed"
          orders,   \* the requests whose orders the broker took, in order
          rows      \* the requests recorded, in order

vars == <<stage, orders, rows>>

Occurs(r, seq) == \E i \in DOMAIN seq : seq[i] = r

Init ==
  /\ stage = [r \in Requests |-> "waiting"]
  /\ orders = << >> /\ rows = << >>

Refuse(r) ==
  /\ stage[r] = "waiting"
  /\ stage' = [stage EXCEPT ![r] = "closed"]
  /\ UNCHANGED <<orders, rows>>

TakeUp(r) ==
  /\ stage[r] = "waiting"
  /\ stage' = [stage EXCEPT ![r] = "open"]
  /\ UNCHANGED <<orders, rows>>

PlaceOrder(r) ==
  /\ stage[r] = "open"
  /\ ~Occurs(r, orders) /\ ~Occurs(r, rows)
  /\ orders' = Append(orders, r)
  /\ UNCHANGED <<stage, rows>>

Record(r) ==
  /\ stage[r] = "open"
  /\ ~Occurs(r, rows)
  /\ rows' = Append(rows, r)
  /\ UNCHANGED <<stage, orders>>

\* One signal ends, or a crash ends several, wherever they stand.
End(S) ==
  /\ \A r \in S : stage[r] = "open"
  /\ stage' = [r \in Requests |-> IF r \in S THEN "closed" ELSE stage[r]]
  /\ UNCHANGED <<orders, rows>>

Next ==
  \/ \E r \in Requests : Refuse(r) \/ TakeUp(r) \/ PlaceOrder(r) \/ Record(r)
  \/ \E S \in SUBSET Requests : End(S)

Spec == Init /\ [][Next]_vars

=============================================================================
