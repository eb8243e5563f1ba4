----------------------------- MODULE MCOptimize -----------------------------
(***************************************************************************)
(* Three vehicles with shifts that overlap in part and three orders; a     *)
(* vehicle and an order come twice with different data; one order may be   *)
(* missing, and one does not fit and is picked up in an instant.  Some     *)
(* stops pick up without delivering, or name an order on two vehicles or   *)
(* three times.                                                            *)
(***************************************************************************)
EXTENDS OptimizeDriver, TLC

Order(i, open, close) ==
  [id |-> i, pick_open_t |-> open, pick_close_t |-> open + 1,
   times |-> {open, open + 1, close}, fits |-> TRUE]
Instant(i, open, close) ==
  [id |-> i, pick_open_t |-> open, pick_close_t |-> open,
   times |-> {open, close}, fits |-> FALSE]
Vehicle(i, open, close, stops) ==
  [id |-> i, cant_v |-> 1, ok |-> TRUE, start_open_t |-> open, end_close_t |-> close,
   times |-> {open, close}, stops |-> stops]

Twice(orders_) == [o \in orders_ |-> 2]

MCOrderData ==
  {{Order(1, 0, 3), Order(2, 2, 5), Order(3, 4, 7), Order(3, 1, 7), Order(9, 0, 7)},
   {Order(1, 0, 3), Instant(2, 2, 5), Order(3, 4, 7)},
   {Order(1, 0, 3), Order(3, 4, 7)}}

Overlapping ==
  {{Vehicle(1, 0, 4, Twice(s)), Vehicle(2, 2, 6, Twice(t)),
    Vehicle(3, 4, 8, Twice({1, 2, 3} \ (s \cup t))), Vehicle(2, 3, 5, Twice(t))} :
     s \in {{}, {1}, {1, 2}}, t \in {{3}, {}}}

\* All vehicles have closed on the last date; copies of a vehicle.
Closed == {{Vehicle(1, 0, 4, Twice({1})), Vehicle(2, 2, 4, Twice({3}))}}
Trio == {{[Vehicle(1, 0, 4, Twice({})) EXCEPT !.cant_v = 2], Vehicle(2, 2, 6, Twice({1, 2, 3}))}}
NoCapacity ==
  {{[Vehicle(1, 0, 4, Twice({1})) EXCEPT !.ok = FALSE], Vehicle(2, 0, 6, Twice({2, 3}))}}

\* The first vehicle has an order on board; both deliver one; three times one.
OnBoard == {{Vehicle(1, 0, 4, 1 :> 1 @@ 2 :> 2), Vehicle(2, 2, 6, Twice({3}))}}
Both == {{Vehicle(1, 0, 4, Twice({1, 2})), Vehicle(2, 2, 6, Twice({2, 3}))}}
Thrice == {{Vehicle(1, 0, 4, 1 :> 3), Vehicle(2, 2, 6, Twice({3}))}}

MCVehicleData ==
  Overlapping \cup Closed \cup Trio \cup NoCapacity \cup OnBoard \cup Both \cup Thrice
=============================================================================
