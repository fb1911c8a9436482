---------------------------- MODULE MCSimulator ----------------------------
(* Five prices around an entry in the middle, stops of one to two quanta,   *)
(* up to three bars: every order in which three bars can touch the stop,    *)
(* the take profit, the breakeven trigger and the cross.                    *)
EXTENDS Simulator

MCAtrs == {0, 1}
MCData == {0, 2, 4}

=============================================================================
