---------------------------- MODULE MCDriverCall ----------------------------
(***************************************************************************)
(* Every function of the extension that has a driver, with answers of up   *)
(* to three rows.                                                          *)
(***************************************************************************)
EXTENDS DriverCall

AllFunctions ==
  {_vrp_pickdeliver, _vrp_pickdeliverraw, _vrp_pgr_pickdeliver, _vrp_pgr_pickdelivereuclidean,
   _vrp_optimize, _vrp_compatiblevehicles, _vrp_vroom(0), _vrp_vroom(1), _vrp_vroom(2)}
=============================================================================
