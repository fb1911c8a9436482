-------------------------- MODULE MCCTraderSession --------------------------
(***************************************************************************)
(* CTraderSession for TLC.  Three clients are the executor's, the one the   *)
(* loop may still hold and the one being made; four HTTP clients, one for   *)
(* a request of a client that has been given a new one.  Names are chosen,  *)
(* not enumerated, so no symmetry is declared.                              *)
(***************************************************************************)
EXTENDS CTraderSession

=============================================================================
