---------------------------- MODULE MCFastTruck ----------------------------
(***************************************************************************)
(* The same orders with a truck of speed 2 whose day is too short to serve *)
(* them at speed 1.  The phony vehicle has the speed of the first vehicle. *)
(***************************************************************************)
EXTENDS SimpleInitial, LineProblem

MCOrderRow == [o \in Order |-> LineOrders[o]]
MCTruckRow == 0 :> Van(9, 2, 0, 20, 1) @@ 2 :> Van(99, 2, 0, 999, 0)

=============================================================================
