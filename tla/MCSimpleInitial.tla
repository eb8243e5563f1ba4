-------------------------- MODULE MCSimpleInitial --------------------------
(***************************************************************************)
(* Every kind of initial solution for every problem with some of four      *)
(* orders and some of two vehicles.  Two of the orders are too large for   *)
(* the small truck; orders 1 and 2 are picked up at the same time, far     *)
(* apart, so no vehicle serves both.                                       *)
(***************************************************************************)
EXTENDS SimpleInitial, LineProblem

MCOrderRow ==
  [o \in Order |-> [LineOrders[o] EXCEPT
     !.demand = IF o = 0 THEN 4 ELSE @,
     !.pick_open_t = IF o = 1 THEN 16 ELSE @,
     !.pick_close_t = IF o \in {1, 2} THEN 20 ELSE @]]
MCTruckRow == [v \in Truck |-> LineTrucks[v]]

=============================================================================
