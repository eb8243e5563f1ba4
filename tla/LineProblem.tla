---------------------------- MODULE LineProblem ----------------------------
(***************************************************************************)
(* Orders and vehicles on a line of sites, for model checking: a small     *)
(* truck, a truck with a narrower day and room for everything, and the     *)
(* phony vehicle.  A configuration with fewer orders or vehicles uses      *)
(* those it has.                                                           *)
(***************************************************************************)
EXTENDS Integers, TLC

LineSite == 0..7

\* Even distances, so that dividing by the speed 2 never truncates.
LineDist == [i \in LineSite |-> [j \in LineSite |-> 2 * (IF i < j THEN j - i ELSE i - j)]]

NoMultipliers == <<[start_time |-> 0, multiplier |-> 1]>>

\* <<demand, site, opens, closes of the pickup, the same of the delivery,
\* service time>>
LineRows ==
  0 :> <<2, 1,  0, 40, 5,  0, 60, 1>> @@
  1 :> <<2, 3,  4, 24, 7, 10, 50, 0>> @@
  2 :> <<1, 6, 16, 40, 2, 20, 48, 1>> @@
  3 :> <<5, 2, 20, 36, 4, 24, 44, 1>>

LineOrder(row) ==
  [demand |-> row[1],
   pick_node_id |-> row[2], pick_open_t |-> row[3], pick_close_t |-> row[4],
   pick_service_t |-> row[8],
   deliver_node_id |-> row[5], deliver_open_t |-> row[6],
   deliver_close_t |-> row[7], deliver_service_t |-> row[8]]

LineOrders == [o \in 0..3 |-> LineOrder(LineRows[o])]

Van(capacity, speed, open, close, service) ==
  [capacity |-> capacity, speed |-> speed,
   start_node_id |-> 0, start_open_t |-> open, start_close_t |-> close,
   start_service_t |-> service,
   end_node_id |-> 0, end_open_t |-> open, end_close_t |-> close,
   end_service_t |-> 0]

LineTrucks ==
  0 :> Van(3, 1, 0, 70, 1) @@
  1 :> Van(9, 1, 4, 52, 1) @@
  2 :> Van(99, 1, 0, 999, 0)

=============================================================================
