----------------------------- MODULE MCJournal -----------------------------
(* Two calls at a time, so that every pair of operations interleaves; a row *)
(* an older bridge left without a plan beside one with a plan; PATCHes with *)
(* a price and with money.                                                  *)
EXTENDS Journal, TLC

MCAlerts == {[signal |-> "exit_short", price |-> 10, atr |-> 2, psar |-> 13]}

MCBodies == {[outcome |-> "win", pnl |-> 0, exit |-> 6],
             [outcome |-> "loss", pnl |-> 5, exit |-> 0]}

MCRrs == {0}

Symmetry == Permutations(Calls) \cup Permutations(Workers)

Found == {"none", "v1", "v2"}
First == {"v1"}

=============================================================================
