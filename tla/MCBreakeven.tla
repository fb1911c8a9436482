---------------------------- MODULE MCBreakeven ----------------------------
(***************************************************************************)
(* Model-checking values for Breakeven: the sets are given in the cfg.      *)
(***************************************************************************)
EXTENDS Breakeven, TLC

Symmetry == Permutations(Loops)

=============================================================================
