---------------------------- MODULE MCGuardChain ----------------------------
(***************************************************************************)
(* Model-checking values for GuardChain: the default chain on contexts at   *)
(* and around every threshold.                                              *)
(***************************************************************************)
EXTENDS GuardChain

MCMaxDrawdown == -30

MCContexts ==
  [daily_trades : {0, 5}, daily_pnl_r : {-40, -30, -29, -15, 0},
   spread_points : {NoData, 150, 151}, news_window : BOOLEAN,
   atr : {0, 37, 38}, price : {0, 4700}]

=============================================================================
