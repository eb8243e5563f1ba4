----------------------------- MODULE MCVehicle -----------------------------
(***************************************************************************)
(* Four orders and three vehicles on a line: a small truck, a truck with   *)
(* a narrower day and room for everything, and the phony vehicle.  Order 2 *)
(* is picked up at one instant, and delivered so late that the other       *)
(* deliveries can not follow it.                                           *)
(***************************************************************************)
EXTENDS Vehicle, LineProblem

MCOrderRow ==
  [o \in Order |->
     IF o = 2 THEN [LineOrders[o] EXCEPT !.pick_close_t = 16, !.deliver_open_t = 46]
     ELSE LineOrders[o]]
MCTruckRow == [v \in Truck |-> LineTrucks[v]]

\* No stops, a whole solution, one that is late, one whose first order is never
\* delivered.
MCInitialStops == {<<>>, <<0, 1, 0, 1>>, <<2, 2, 1, 1>>, <<0, 1, 1>>}

\* Nothing is on its way, order 0 is, and all but order 3 are.
MCExecutionDates == {0, 3, 17}

=============================================================================
