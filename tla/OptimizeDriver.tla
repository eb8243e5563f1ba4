--------------------------- MODULE OptimizeDriver ---------------------------
(***************************************************************************)
(* vrp_optimize: the preparation of its data, the optimization of all the  *)
(* data at once or in subdivisions by time, and the rows of its answer.    *)
(*                                                                         *)
(* The optimization of a subdivision is the tabu search of other modules:  *)
(* here it may leave any order on any vehicle, except that orders which    *)
(* open before the execution date stay where they are, and so does a       *)
(* pickup without a delivery.                                              *)
(*                                                                         *)
(* The stops of a vehicle are the bag of the orders they name: an order    *)
(* named once is picked up, one named twice is delivered too.  The         *)
(* sequence of the stops is not modelled.                                  *)
(***************************************************************************)
EXTENDS Integers, Sequences, FiniteSets, Bags, FiniteSetsExt, Functions

\* An order fits if a phony vehicle can serve it, whose sites are those of the
\* first vehicle: otherwise the initial solution may drop it.
CONSTANTS
  OrderData,     \* results of the orders query: sets of rows
  VehicleData,   \* results of the vehicles query: sets of rows
  Dates,         \* the execution dates
  SubdivisionKinds

ASSUME OptimizeDriverAssumption == SubdivisionKinds \subseteq 0..2

\* A vehicle with a negative identifier counts as phony.
ASSUME VehicleIds == \A rows \in VehicleData : \A r \in rows : r.id \in Nat

VARIABLES
  order_rows, vehicle_rows, execution_date, subdivision_kind,   \* the arguments
  orders, vehicles,   \* the data that remain, by identifier
  the_stops,          \* the history: the stops of each vehicle
  processing_times,   \* the times that are left
  prev_orders_in_stops,
  allocated, written, return_count,
  error,
  pc

arguments == <<order_rows, vehicle_rows, execution_date, subdivision_kind>>
data == <<orders, vehicles>>
answer == <<allocated, written, return_count>>
vars == <<arguments, data, the_stops, processing_times, prev_orders_in_stops, answer, error, pc>>

-----------------------------------------------------------------------------

Ids(rows) == {r.id : r \in rows}

\* One row for each identifier.  The sort is not stable, so that any one of the
\* duplicates may be the first.
Unique(rows) == {f \in [Ids(rows) -> rows] : \A i \in DOMAIN f : f[i].id = i}

\* The vehicles that do not close before the execution date.
Open(f) == Restrict(f, {i \in DOMAIN f : f[i].end_close_t >= execution_date})

Copies(o, bag) == IF o \in BagToSet(bag) THEN bag[o] ELSE 0

\* The orders that stops name.
Named(stops) == UNION {BagToSet(stops[i]) : i \in DOMAIN stops}

StopsOf(f) == UNION {BagToSet(f[i].stops) : i \in DOMAIN f}

processing_times_by_order == UNION {orders[o].times : o \in DOMAIN orders}
processing_times_by_vehicle == UNION {vehicles[v].times : v \in DOMAIN vehicles}

get_initial_stops == [v \in DOMAIN vehicles |-> vehicles[v].stops]

Active(t) == {v \in DOMAIN vehicles : vehicles[v].start_open_t <= t /\ t <= vehicles[v].end_close_t}

\* Fault: the stops are those of the data.
OrdersInData(active) == UNION {BagToSet(vehicles[v].stops) : v \in active}

OrdersInStops(active) == UNION {BagToSet(the_stops[v]) : v \in active}

-----------------------------------------------------------------------------
(* The optimization of some vehicles and of the orders in their stops.  A  *)
(* row stands for cant_v trucks.  A vehicle that is not ok (capacity 0) is *)
(* not in the fleet of the solution.                                       *)

Trucks(active) ==
  UNION {{<<v, k>> : k \in 1..vehicles[v].cant_v} : v \in {w \in active : vehicles[w].ok}}

Phony == <<-1, 1>>
Nowhere == <<-1, 0>>

\* Fault: an order that is named once is on its way like the others.
GivenTwice(v, stops) ==
  IF vehicles[v].cant_v = 1 THEN [o \in BagToSet(stops[v]) |-> 2] ELSE EmptyBag

\* The stops that the problem is given: the override, if there is one, and only
\* for rows that stand for one truck.
Given(v, stops) == IF vehicles[v].cant_v = 1 THEN stops[v] ELSE EmptyBag

PickedUp(v, stops) == {o \in BagToSet(Given(v, stops)) : Given(v, stops)[o] = 1}
Delivered(v, stops) == {o \in BagToSet(Given(v, stops)) : Given(v, stops)[o] = 2}

\* set_unmovable.  A pickup whose window is an instant does not count as one.
Unmovable(o) ==
  orders[o].pick_open_t < orders[o].pick_close_t /\ orders[o].pick_open_t < execution_date

\* The fleet is sorted: the stops of v are set before those of w.
Before(v, w) ==
  LET a == vehicles[v]
      b == vehicles[w]
  IN  \/ a.start_open_t < b.start_open_t
      \/ a.start_open_t = b.start_open_t /\ a.end_close_t < b.end_close_t
      \/ a.start_open_t = b.start_open_t /\ a.end_close_t = b.end_close_t /\ v < w

\* The initial solution asserts that an order is not named any more when it is
\* assigned.  A movable one is not if its vehicle violates something, as one
\* without capacity does: it has been taken off.
Again(o, v, active, stops) ==
  o \in Delivered(v, stops) /\ \E w \in active : Before(v, w) /\ o \in BagToSet(Given(w, stops))

\* Fault: a third stop for an order is taken for its pickup again.
RefusedLater(active, stops) ==
  \E v \in active : \E o \in Delivered(v, stops) : Unmovable(o) /\ Again(o, v, active, stops)

Refused(active, stops) ==
  \E v \in active : \E o \in BagToSet(Given(v, stops)) :
    Given(v, stops)[o] > 2 \/ (Unmovable(o) /\ Again(o, v, active, stops))

\* The initial solution may also refuse stops that deliver an order which no
\* vehicle can serve.
MayBeRefused(active, stops) ==
  \/ Refused(active, stops)
  \/ \E v \in active : \E o \in Delivered(v, stops) :
       ~orders[o].fits \/ (vehicles[v].ok /\ Again(o, v, active, stops))

\* Fault: the execution date is not considered.
AnyPlacement(active, served, stops) == [served -> Trucks(active) \cup {Phony}]

\* Where the orders may be delivered after an optimization of stops that are
\* not refused.  An order that does not fit may be dropped.
Placements(active, served, stops) ==
  {p \in [served -> Trucks(active) \cup {Phony, Nowhere}] :
     \A o \in served :
       /\ \A v \in active : Unmovable(o) /\ o \in Delivered(v, stops) =>
            p[o] = IF vehicles[v].ok THEN <<v, 1>> ELSE Nowhere
       /\ p[o] = Nowhere => \/ ~orders[o].fits
                            \/ Unmovable(o) /\ \E v \in active : o \in Delivered(v, stops)}

\* Is there a phony vehicle in the solution?  One with orders, or an empty one
\* that the optimizer left there.
PhonyLeft(p) == IF \E o \in DOMAIN p : p[o] = Phony THEN {TRUE} ELSE BOOLEAN

OrdersOf(p, truck) == {o \in DOMAIN p : p[o] = truck}

\* Solution::get_stops of a truck: two stops for an order it delivers, and the
\* pickups it was given without a delivery.  A phony vehicle has none.
get_stops(p, stops, truck) ==
  IF truck = Phony THEN EmptyBag
  ELSE [o \in OrdersOf(p, truck) \cup PickedUp(truck[1], stops) |->
          (IF o \in OrdersOf(p, truck) THEN 2 ELSE 0)
            + (IF o \in PickedUp(truck[1], stops) THEN 1 ELSE 0)]

\* Fault: a vehicle that gets orders does not lose the ones it had.
AddStops(active, p) ==
  [v \in DOMAIN the_stops |->
     IF \E k \in 1..vehicles[v].cant_v : <<v, k>> \in Trucks(active)
     THEN the_stops[v] (+) get_stops(p, the_stops, <<v, vehicles[v].cant_v>>)
     ELSE the_stops[v]]

\* The stops of a vehicle are replaced by those of its last truck.
update_stops(active, p) ==
  [v \in DOMAIN the_stops |->
     IF \E k \in 1..vehicles[v].cant_v : <<v, k>> \in Trucks(active)
     THEN get_stops(p, the_stops, <<v, vehicles[v].cant_v>>) ELSE the_stops[v]]

-----------------------------------------------------------------------------

Init ==
  /\ order_rows \in OrderData /\ vehicle_rows \in VehicleData
  /\ execution_date \in Dates /\ subdivision_kind \in SubdivisionKinds
  /\ orders = <<>> /\ vehicles = <<>> /\ the_stops = <<>>
  /\ processing_times = {} /\ prev_orders_in_stops = {}
  /\ allocated = 0 /\ written = 0 /\ return_count = 0
  /\ error = "" /\ pc = "prepare"

\* Remove the vehicles that close too early and the orders that no stop names.
Prepare ==
  /\ pc = "prepare"
  /\ \E v \in Unique(vehicle_rows) : vehicles' = Open(v)
  /\ \E o \in Unique(order_rows) : orders' = Restrict(o, DOMAIN o \cap StopsOf(vehicles'))
  /\ pc' = "verify"
  /\ UNCHANGED <<arguments, the_stops, processing_times, prev_orders_in_stops, answer, error>>

MissingOrders ==
  /\ pc = "verify" /\ ~(StopsOf(vehicles) \subseteq DOMAIN orders)
  /\ error' = "Missing orders for processing" /\ pc' = "returned"
  /\ UNCHANGED <<arguments, data, the_stops, processing_times, prev_orders_in_stops, answer>>

\* subdivide_processing begins.
Subdivide ==
  /\ pc = "verify" /\ StopsOf(vehicles) \subseteq DOMAIN orders /\ subdivision_kind # 0
  /\ the_stops' = get_initial_stops
  /\ processing_times' = IF subdivision_kind = 1 THEN processing_times_by_vehicle
                                                 ELSE processing_times_by_order
  /\ pc' = "subdivide"
  /\ UNCHANGED <<arguments, data, prev_orders_in_stops, answer, error>>

\* The whole data are processed at once.
RefuseAll ==
  /\ pc = "verify" /\ StopsOf(vehicles) \subseteq DOMAIN orders /\ subdivision_kind = 0
  /\ MayBeRefused(DOMAIN vehicles, get_initial_stops)
  /\ error' = "AssertFailedException" /\ pc' = "returned"
  /\ UNCHANGED <<arguments, data, the_stops, processing_times, prev_orders_in_stops, answer>>

ProcessAll ==
  /\ pc = "verify" /\ StopsOf(vehicles) \subseteq DOMAIN orders /\ subdivision_kind = 0
  /\ ~Refused(DOMAIN vehicles, get_initial_stops)
  /\ \E p \in Placements(DOMAIN vehicles, DOMAIN orders, get_initial_stops) :
       \E phony \in PhonyLeft(p) :
         the_stops' = [t \in Trucks(DOMAIN vehicles) \cup (IF phony THEN {Phony} ELSE {}) |->
                         get_stops(p, get_initial_stops, t)]
  /\ pc' = "rows"
  /\ UNCHANGED <<arguments, data, processing_times, prev_orders_in_stops, answer, error>>

Time == Min(processing_times)

NothingToDo(served) == served = {} \/ served = prev_orders_in_stops

\* Fault: the time stays when there is nothing to do.
SkipNothing ==
  /\ pc = "subdivide" /\ processing_times # {}
  /\ NothingToDo(OrdersInStops(Active(Time)))
  /\ UNCHANGED vars

SkipTime ==
  /\ pc = "subdivide" /\ processing_times # {}
  /\ NothingToDo(OrdersInStops(Active(Time)))
  /\ processing_times' = processing_times \ {Time}
  /\ UNCHANGED <<arguments, data, the_stops, prev_orders_in_stops, answer, error, pc>>

\* The active vehicles and their orders are optimized, unless the initial
\* solution refuses their stops.
Process(served) ==
  /\ ~NothingToDo(served)
  /\ prev_orders_in_stops' = served
  /\ processing_times' = processing_times \ {Time}
  /\ UNCHANGED <<arguments, data, answer>>

RefuseTime ==
  /\ pc = "subdivide" /\ processing_times # {}
  /\ Process(OrdersInStops(Active(Time)))
  /\ MayBeRefused(Active(Time), the_stops)
  /\ error' = "AssertFailedException" /\ pc' = "returned"
  /\ UNCHANGED the_stops

\* The assertion of update_stops fails when the solution has a phony vehicle.
ProcessTime ==
  /\ pc = "subdivide" /\ processing_times # {}
  /\ \E active \in {Active(Time)} : \E served \in {OrdersInStops(active)} :
       /\ Process(served)
       /\ ~Refused(active, the_stops)
       /\ \E p \in Placements(active, served, the_stops) : \E phony \in PhonyLeft(p) :
            /\ the_stops' = update_stops(active, p)
            /\ IF phony THEN error' = "AssertFailedException" /\ pc' = "returned"
                        ELSE UNCHANGED <<error, pc>>

EndSubdivide ==
  /\ pc = "subdivide" /\ processing_times = {}
  /\ pc' = "rows"
  /\ UNCHANGED <<arguments, data, the_stops, processing_times, prev_orders_in_stops, answer, error>>

StopsWritten == FoldFunction(LAMBDA s, n : BagCardinality(s) + n, 0, the_stops)

\* Fault: an order is one row.
WriteRowsOfOrders ==
  /\ pc = "rows"
  /\ allocated' = Cardinality(DOMAIN orders)
  /\ written' = StopsWritten
  /\ return_count' = Cardinality(DOMAIN orders) * 2
  /\ pc' = "returned"
  /\ UNCHANGED <<arguments, data, the_stops, processing_times, prev_orders_in_stops, error>>

\* Two rows are allocated for an order and reported, whatever the stops are
\* that are written, a row for each.
WriteRows ==
  /\ pc = "rows"
  /\ allocated' = IF the_stops # <<>> THEN Cardinality(DOMAIN orders) * 2 ELSE 0
  /\ written' = StopsWritten
  /\ return_count' = Cardinality(DOMAIN orders) * 2
  /\ pc' = "returned"
  /\ UNCHANGED <<arguments, data, the_stops, processing_times, prev_orders_in_stops, error>>

Terminated == pc = "returned" /\ UNCHANGED vars

Next ==
  \/ Prepare \/ MissingOrders \/ Subdivide \/ RefuseAll \/ ProcessAll
  \/ SkipTime \/ RefuseTime \/ ProcessTime \/ EndSubdivide \/ WriteRows \/ Terminated

Spec == Init /\ [][Next]_vars /\ WF_vars(Next)

-----------------------------------------------------------------------------

TypeOK ==
  /\ order_rows \in OrderData /\ vehicle_rows \in VehicleData
  /\ DOMAIN orders \subseteq Ids(order_rows) /\ Range(orders) \subseteq order_rows
  /\ DOMAIN vehicles \subseteq Ids(vehicle_rows) /\ Range(vehicles) \subseteq vehicle_rows
  /\ Named(the_stops) \subseteq StopsOf(vehicles)
  /\ prev_orders_in_stops \subseteq DOMAIN orders
  /\ allocated \in {0, return_count}
  /\ pc \in {"prepare", "verify", "subdivide", "rows", "returned"}

Prepared == pc \in {"subdivide", "rows", "returned"} /\ error # "Missing orders for processing"

\* Every vehicle has room, and no two have one identifier.
AllInFleet == \A r \in vehicle_rows : r.ok /\ r.cant_v = 1

\* The stops of the data deliver what they pick up, each order on one vehicle.
\* The code asserts a part of this only: it takes an order that is named once,
\* and then one vehicle picks it up and another one picks it up and delivers it.
StopsDeliver ==
  /\ \A v \in DOMAIN vehicles : \A o \in BagToSet(vehicles[v].stops) : vehicles[v].stops[o] = 2
  /\ \A v, w \in DOMAIN vehicles :
       v # w => BagToSet(vehicles[v].stops) \cap BagToSet(vehicles[w].stops) = {}

\* From such stops the history never has an order on two vehicles, nor more or
\* less than picked up and delivered, although each subdivision knows some of
\* the vehicles only (subdivide_processing).  A vehicle that is not in the
\* fleet would keep the stops that the others have taken over.
EachOrderOnOneVehicle ==
  Prepared /\ AllInFleet /\ StopsDeliver =>
    /\ \A v \in DOMAIN the_stops : \A o \in BagToSet(the_stops[v]) : the_stops[v][o] = 2
    /\ \A v, w \in DOMAIN the_stops :
         v # w => BagToSet(the_stops[v]) \cap BagToSet(the_stops[w]) = {}

\* The vehicles whose stops reach the problem and come back from it.
InFleet == {v \in DOMAIN vehicles : vehicles[v].ok /\ vehicles[v].cant_v = 1}

\* Whatever the stops are, an order they deliver that opens before the
\* execution date stays on its vehicle through all the subdivisions.
UnmovableStay ==
  Prepared /\ subdivision_kind # 0 =>
    \A v \in InFleet : \A o \in BagToSet(vehicles[v].stops) :
      vehicles[v].stops[o] = 2 /\ Unmovable(o) => Copies(o, the_stops[v]) = 2

\* And a pickup that is given without its delivery never leaves its vehicle,
\* though the same order come to it, or to another one, by the optimization.
PickupsStay ==
  Prepared /\ subdivision_kind # 0 =>
    \A v \in InFleet : \A o \in BagToSet(vehicles[v].stops) :
      vehicles[v].stops[o] = 1 => Copies(o, the_stops[v]) \in {1, 3}

\* What the subdivisions know of the vehicles they leave alone stays true.
HistoryIsKept == TypeOK /\ EachOrderOnOneVehicle /\ UnmovableStay /\ PickupsStay

\* The call ends.  If the stops of the data deliver what they pick up, its rows
\* fit in the memory that is allocated; and if every order fits in addition, an
\* answer by subdivisions has all the rows that are reported.
EndsWithRowsThatFit ==
  <>(/\ pc = "returned"
     /\ AllInFleet /\ StopsDeliver =>
          /\ written <= allocated
          /\ error = "" /\ subdivision_kind # 0 /\ (\A o \in DOMAIN orders : orders[o].fits)
               => written = return_count)

\* There is a first vehicle for the phony one to start at (Fleet::build_fleet).
FirstVehicleExists == pc = "rows" /\ subdivision_kind = 0 => vehicles # <<>>

=============================================================================
