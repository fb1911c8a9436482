---------------------------- MODULE MCHeartbeat ----------------------------
(***************************************************************************)
(* Heartbeat for TLC: the times are given in the cfg; the threshold is the  *)
(* smallest one under which no silence is overlooked; the shipped one is    *)
(* twelve intervals.                                                        *)
(***************************************************************************)
EXTENDS Heartbeat

=============================================================================
