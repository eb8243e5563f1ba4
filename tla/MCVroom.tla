------------------------------ MODULE MCVroom ------------------------------
(***************************************************************************)
(* Two vehicles, a job and a shipment among the locations 2, 4 and 7; the  *)
(* location 3 is in the matrix only.                                       *)
(***************************************************************************)
EXTENDS Vroom

Vehicle(i, start, end, capacity, factor) ==
  [id |-> i, start_id |-> start, end_id |-> end, capacity |-> capacity, speed_factor |-> factor]
Job(i, location, amount, setup) ==
  [id |-> i, location_id |-> location, pickup |-> amount, delivery |-> 0,
   setup |-> setup, service |-> 3]
Shipment(i, from, to, amount) ==
  [id |-> i, p_location_id |-> from, d_location_id |-> to, amount |-> amount, service |-> 1]
Cell(from, to, duration) ==
  [start_id |-> from, end_id |-> to, duration |-> duration, cost |-> duration]

\* Speed factors count halves.
Problem(second, jobs, amount) ==
  [vehicles |-> <<Vehicle(1, 4, 4, 1, 4), second>>,
   breaks |-> {[id |-> 8, vehicle_id |-> 1]},
   jobs |-> jobs,
   shipments |-> <<Shipment(1, 4, 7, amount)>>]

NoSetup == {<<Job(1, 2, 1, 0)>>, <<Job(1, 2, 0, 0), Job(5, 7, 0, 0)>>, <<>>}
SecondVehicles == {Vehicle(2, -1, 7, 1, 2), Vehicle(2, 2, -1, 1, 8), Vehicle(2, 4, 2, 1, 23),
                   Vehicle(2, 7, 7, 2, 4)}

\* Also: two factors that rounding makes one, and a shipment without amount.
MCProblems ==
  {Problem(v, j, 1) : v \in SecondVehicles, j \in NoSetup \cup {<<Job(1, 2, 1, 5)>>}}
    \cup {Problem(Vehicle(2, 7, 7, 1, 5), <<>>, 1),
          Problem(Vehicle(2, 7, 7, 1, 4), <<Job(1, 2, 0, 0)>>, 0)}

MCMatrixQueries ==
  {<<Cell(3, 7, 90), Cell(2, 4, 6), Cell(4, 7, 8), Cell(7, 2, 11), Cell(7, 4, 10), Cell(4, 2, 6)>>,
   <<Cell(7, 4, 12), Cell(2, 3, 70), Cell(4, 2, 4), Cell(2, 4, 4), Cell(2, 4, 7), Cell(2, 7, 15)>>,
   <<Cell(7, 4, 12), Cell(2, 4, 5)>>}
=============================================================================
