---------------------------- MODULE ProblemBuild ----------------------------
(***************************************************************************)
(* The construction of problem::PickDeliver from the rows of its queries:  *)
(* Orders::build_orders, Fleet::build_fleet, Fleet::clean and the two      *)
(* set_compatibles; and the answer of vrp_compatibleVehicles, which stops  *)
(* there.                                                                  *)
(*                                                                         *)
(* The vectors are sequences and the idx they store counts from 0, as in   *)
(* the code.  What VrpData assumes of the problem, this module builds: it  *)
(* instantiates VehicleRoute with the orders and the vehicles of its       *)
(* state.  An assertion that does not hold ends in "failed".               *)
(***************************************************************************)
EXTENDS TimeMatrix, SequencesExt

CONSTANTS
  OrderQueries,    \* results of the orders query: sequences of rows
  VehicleQueries,  \* results of the vehicles query: sequences of rows
  NewStops,        \* the stops the caller overrides, by vehicle identifier
  MaxTime,         \* the last moment
  MaxAmount        \* the largest capacity

\* The drivers answer before they build a problem without orders or vehicles.
ASSUME ProblemBuildAssumption ==
  /\ OrderQueries # {} /\ VehicleQueries # {}
  /\ <<>> \notin OrderQueries \cup VehicleQueries

VARIABLES
  order_rows, vehicle_rows, new_stops,  \* the arguments
  m_nodes,          \* the nodes of the problem
  m_orders,         \* the orders
  sorted,           \* the vehicle rows, once they are sorted
  m_trucks,         \* the vehicles of the fleet
  m_unused, m_used, m_invalid,
  feasible_orders,  \* what set_compatibles finds for each vehicle
  compatible,       \* the pairs <<i, j>> of orders where j is in i's m_compatibleJ
  rows,             \* the rows of vrp_compatibleVehicles
  pc

arguments == <<order_rows, vehicle_rows, new_stops>>
sets == <<m_unused, m_used, m_invalid>>
found == <<feasible_orders, compatible, rows>>
vars == <<arguments, m_nodes, m_orders, sorted, m_trucks, sets, found, pc>>

-----------------------------------------------------------------------------

Positions(s) == 0..(Len(s) - 1)

\* The arrangements of the rows that std::sort may leave: rows whose keys are
\* equal come in any order.
Arrangements(given, Precedes(_, _)) ==
  {[k \in DOMAIN given |-> given[p[k]]] :
     p \in {q \in [DOMAIN given -> DOMAIN given] :
              /\ \A k, l \in DOMAIN given : k # l => q[k] # q[l]
              /\ \A k, l \in DOMAIN given : k < l => ~Precedes(given[q[l]], given[q[k]])}}

KeyPrecedes(a, b) ==
  \E k \in 1..3 : a[k] < b[k] /\ \A l \in 1..(k - 1) : a[l] = b[l]

OrderPrecedes(r, s) ==
  KeyPrecedes(<<r.pick_open_t, r.deliver_close_t, r.id>>,
              <<s.pick_open_t, s.deliver_close_t, s.id>>)
VehiclePrecedes(r, s) ==
  KeyPrecedes(<<r.start_open_t, r.end_close_t, r.id>>,
              <<s.start_open_t, s.end_close_t, s.id>>)

\* Two nodes, numbered on from those the problem has.
AddNodes(nodes, first, second, id) ==
  nodes \o <<[idx |-> Len(nodes), type |-> first, of |-> id],
             [idx |-> Len(nodes) + 1, type |-> second, of |-> id]>>

\* Both sites of the row are well formed; add_vehicle throws when a window is
\* reversed and asserts is_start and is_end otherwise.
IllegalWindows(r) == r.start_close_t < r.start_open_t \/ r.end_close_t < r.end_open_t
SitesAreOk(r) == r.start_open_t < r.start_close_t /\ r.end_open_t < r.end_close_t

\* Fault: all the copies have the stops.
StopsOfCopy(r) == IF r.id \in DOMAIN new_stops THEN new_stops[r.id] ELSE r.stops
\* The stops belong to a row for one vehicle only.
StopsOf(r) ==
  IF r.cant_v # 1 THEN {}
  ELSE IF r.id \in DOMAIN new_stops THEN new_stops[r.id] ELSE r.stops

\* Fault: the copies of a vehicle have its index.
CopiesOfOne(size, r, nodes) ==
  [c \in 1..r.cant_v |->
     [idx |-> size, id |-> r.id, start |-> nodes, end |-> nodes + 1,
      stops |-> StopsOf(r), row |-> r]]
\* The vehicles of a row: they share the nodes of their sites.
Copies(size, r, nodes) ==
  [c \in 1..r.cant_v |->
     [idx |-> size + c - 1, id |-> r.id, start |-> nodes, end |-> nodes + 1,
      stops |-> StopsOf(r), row |-> r]]

\* Can the row be added?  A vehicle divides by its speed when it is built.
Buildable(r) ==
  ~IllegalWindows(r) /\ SitesAreOk(r) /\ (r.cant_v > 0 => r.speed # 0)

add_vehicle(r) ==
  /\ m_nodes' = AddNodes(m_nodes, "kStart", "kEnd", r.id)
  /\ m_trucks' = m_trucks \o Copies(Len(m_trucks), r, Len(m_nodes))

\* The phony vehicle works at the sites of the first vehicle, at its speed.
Phony(r) ==
  [id |-> -1, capacity |-> MaxAmount, speed |-> r.speed, cant_v |-> 1, stops |-> {},
   start_node_id |-> r.start_node_id, start_open_t |-> 0,
   start_close_t |-> MaxTime, start_service_t |-> 0,
   end_node_id |-> r.end_node_id, end_open_t |-> 0,
   end_close_t |-> MaxTime, end_service_t |-> 0]

\* The operations on the orders and the vehicles built so far.
Built == INSTANCE VehicleRoute WITH
  Order <- Positions(m_orders),
  Truck <- Positions(m_trucks),
  PhonyTruck <- Len(m_trucks) - 1,
  OrderRow <- [o \in Positions(m_orders) |-> m_orders[o + 1].row],
  TruckRow <- [v \in Positions(m_trucks) |-> m_trucks[v + 1].row]

\* Fault: a vehicle with room for one thing is not enough.
is_ok_for_two(t) ==
  /\ t.row.start_open_t <= t.row.start_close_t
  /\ t.row.end_open_t <= t.row.end_close_t
  /\ t.row.capacity > 1
is_ok(t) ==
  /\ t.row.start_open_t <= t.row.start_close_t
  /\ t.row.end_open_t <= t.row.end_close_t
  /\ t.row.capacity > 0

\* Fault: an order that opens at the moment the vehicle closes is skipped too.
SkippedEarly(t, o) ==
  t.row.end_close_t <= o.row.pick_open_t \/ o.row.deliver_close_t < t.row.start_open_t
\* The orders that set_compatibles does not even try on a vehicle.
Skipped(t, o) ==
  t.row.end_close_t < o.row.pick_open_t \/ o.row.deliver_close_t < t.row.start_open_t

\* May order j follow order i?  At the default speed.
\* Fault: only one order after the other, never one within the other.
FollowsAfter(i, j) ==
  /\ Built!is_compatible_IJ(Built!Pickup(i), Built!Pickup(j), SpeedUnit)
  /\ Built!is_compatible_IJ(Built!Delivery(i), Built!Pickup(j), SpeedUnit)
  /\ Built!is_compatible_IJ(Built!Delivery(i), Built!Delivery(j), SpeedUnit)
Follows(i, j) == Built!isCompatibleIJ(i, j)

\* The vehicles that are reported.
Reported == {v \in Positions(m_trucks) : m_trucks[v + 1].id >= 0}

-----------------------------------------------------------------------------

Init ==
  /\ order_rows \in OrderQueries
  /\ vehicle_rows \in VehicleQueries
  /\ new_stops \in NewStops
  /\ m_nodes = <<>> /\ m_orders = <<>> /\ sorted = <<>> /\ m_trucks = <<>>
  /\ m_unused = {} /\ m_used = {} /\ m_invalid = {}
  /\ feasible_orders = <<>> /\ compatible = {} /\ rows = EmptyBag
  /\ pc = "orders"

\* Orders::build_orders: sorts the rows and numbers the orders and their nodes.
BuildOrders ==
  /\ pc = "orders"
  /\ \E arranged \in Arrangements(order_rows, OrderPrecedes) :
       /\ m_orders' =
            [k \in DOMAIN arranged |->
               [idx |-> k - 1, id |-> arranged[k].id, pickup |-> 2 * (k - 1),
                delivery |-> 2 * (k - 1) + 1, row |-> arranged[k]]]
       /\ m_nodes' = FoldLeft(LAMBDA nodes, r : AddNodes(nodes, "kPickup", "kDelivery", r.id),
                              <<>>, arranged)
  /\ pc' = "sort"
  /\ UNCHANGED <<arguments, sorted, m_trucks, sets, found>>

SortVehicles ==
  /\ pc = "sort"
  /\ sorted' \in Arrangements(vehicle_rows, VehiclePrecedes)
  /\ pc' = "fleet"
  /\ UNCHANGED <<arguments, m_nodes, m_orders, m_trucks, sets, found>>

\* The rows whose vehicles are in the fleet: each one has brought two nodes.
Added == (Len(m_nodes) \div 2) - Len(m_orders)

AddVehicle ==
  /\ pc = "fleet" /\ Added < Len(sorted)
  /\ IF Buildable(sorted[Added + 1])
     THEN add_vehicle(sorted[Added + 1]) /\ pc' = pc
     ELSE pc' = "failed" /\ UNCHANGED <<m_nodes, m_trucks>>
  /\ UNCHANGED <<arguments, m_orders, sorted, sets, found>>

\* All the vehicles.
Unused(size) == 0..(size - 1)

AddPhony ==
  /\ pc = "fleet" /\ Added = Len(sorted)
  /\ IF Buildable(Phony(sorted[1]))
     THEN /\ add_vehicle(Phony(sorted[1]))
          /\ m_unused' = Unused(Len(m_trucks'))
          /\ pc' = "clean"
     ELSE pc' = "failed" /\ UNCHANGED <<m_nodes, m_trucks, m_unused>>
  /\ UNCHANGED <<arguments, m_orders, sorted, m_used, m_invalid, found>>

\* Fleet::clean puts the vehicles that are not ok aside.
Clean ==
  /\ pc = "clean"
  /\ LET bad == {m_trucks[k].idx : k \in {l \in DOMAIN m_trucks : ~is_ok(m_trucks[l])}}
     IN  m_invalid' = m_invalid \cup bad /\ m_unused' = m_unused \ bad
  /\ pc' = "compatible"
  /\ UNCHANGED <<arguments, m_nodes, m_orders, sorted, m_trucks, m_used, found>>

\* Orders::set_compatibles, at the default speed.
SetCompatibleOrders ==
  /\ pc = "compatible"
  /\ compatible' = {p \in Positions(m_orders) \X Positions(m_orders) :
                      p[1] # p[2] /\ Follows(p[1], p[2])}
  /\ pc' = "feasible"
  /\ UNCHANGED <<arguments, m_nodes, m_orders, sorted, m_trucks, sets, feasible_orders, rows>>

\* Fleet::set_compatibles: the phony vehicle, the last one, is tried again
\* without the shortcut.
SetFeasibleOrders ==
  /\ pc = "feasible"
  /\ feasible_orders' =
       [v \in Positions(m_trucks) |->
          {o \in Positions(m_orders) :
             /\ v = Len(m_trucks) - 1 \/ ~Skipped(m_trucks[v + 1], m_orders[o + 1])
             /\ Built!is_order_feasible(v, o)}]
  /\ pc' = "ready"
  /\ UNCHANGED <<arguments, m_nodes, m_orders, sorted, m_trucks, sets, compatible, rows>>

\* get_pg_compatibleVehicles: one row for each vehicle, copies included.
GetRows ==
  /\ pc = "ready"
  /\ rows' = BagOfAll(LAMBDA p : <<m_orders[p[2] + 1].id, m_trucks[p[1] + 1].id>>,
                      SetToBag({p \in Reported \X Positions(m_orders) :
                                  p[2] \in feasible_orders[p[1]]}))
  /\ pc' = "done"
  /\ UNCHANGED <<arguments, m_nodes, m_orders, sorted, m_trucks, sets, feasible_orders,
                 compatible>>

Terminated == pc \in {"done", "failed"} /\ UNCHANGED vars

Next ==
  \/ BuildOrders \/ SortVehicles \/ AddVehicle \/ AddPhony \/ Clean
  \/ SetCompatibleOrders \/ SetFeasibleOrders \/ GetRows
  \/ Terminated

Spec == Init /\ [][Next]_vars

-----------------------------------------------------------------------------

\* Every idx is a position, and the sites of a vehicle are its own nodes.
IndicesAgree ==
  /\ \A k \in DOMAIN m_nodes : m_nodes[k].idx = k - 1
  /\ \A k \in DOMAIN m_orders :
       /\ m_orders[k].idx = k - 1
       /\ \A n \in {m_orders[k].pickup, m_orders[k].delivery} :
            m_nodes[n + 1].of = m_orders[k].id
  /\ \A k \in DOMAIN m_trucks :
       /\ m_trucks[k].idx = k - 1
       /\ m_nodes[m_trucks[k].start + 1].type = "kStart"
       /\ m_nodes[m_trucks[k].end + 1].type = "kEnd"
       /\ \A n \in {m_trucks[k].start, m_trucks[k].end} :
            m_nodes[n + 1].of = m_trucks[k].id

\* The types of the variables, and the indices kept in them: an idx is used to
\* subscript the vector it counts, wherever a vehicle or an order is copied to.
TypeOK ==
  /\ order_rows \in OrderQueries /\ vehicle_rows \in VehicleQueries
  /\ \A s \in {m_unused, m_used, m_invalid} : s \subseteq Positions(m_trucks)
  /\ compatible \subseteq Positions(m_orders) \X Positions(m_orders)
  /\ IsABag(rows)
  /\ IndicesAgree
  /\ pc \in {"orders", "sort", "fleet", "clean", "compatible", "feasible", "ready",
             "done", "failed"}

\* A trip on which a vehicle of the row r visits the stops in order.
Trip(r, visits) ==
  FoldLeft(LAMBDA trip, n :
             LET arrival == trip.time + (Dist[trip.site][n.site] * SpeedUnit) \div r.speed
             IN  [site |-> n.site, time |-> Max({arrival, n.opens}) + n.service,
                  load |-> trip.load + n.demand,
                  ok |-> trip.ok /\ arrival <= n.closes
                                /\ trip.load + n.demand <= r.capacity],
           [site |-> r.start_node_id, time |-> r.start_open_t + r.start_service_t,
            load |-> 0, ok |-> TRUE],
           Append(visits, [site |-> r.end_node_id, opens |-> r.end_open_t,
                           closes |-> r.end_close_t, service |-> 0, demand |-> 0]))

Loading(o) == [site |-> o.pick_node_id, opens |-> o.pick_open_t, closes |-> o.pick_close_t,
               service |-> o.pick_service_t, demand |-> o.demand]
Unloading(o) == [site |-> o.deliver_node_id, opens |-> o.deliver_open_t,
                 closes |-> o.deliver_close_t, service |-> o.deliver_service_t,
                 demand |-> -o.demand]

\* Can a vehicle of the row r serve the row o and nothing else?
Serves(r, o) == Trip(r, <<Loading(o), Unloading(o)>>).ok

\* Fleet::invariant, and what clean adds to it: once the fleet is built each
\* vehicle is in exactly one of the sets, and the ones set aside are those that
\* no order could be placed on.
FleetIsSplit ==
  pc \in {"compatible", "feasible", "ready", "done"} =>
    /\ m_used \cup m_unused \cup m_invalid = Positions(m_trucks)
    /\ m_unused \cap m_invalid = {} /\ m_used = {}
    /\ \A v \in Positions(m_trucks) :
         v \in m_invalid => ~\E o \in Range(order_rows) : Serves(m_trucks[v + 1].row, o)

\* vrp_compatibleVehicles answers the question its name asks, as often as the
\* vehicle has copies: whatever the order the rows came in, the shortcut of
\* set_compatibles, the numbering and the phony vehicle make of it, the rows
\* are the pairs of a given order and a given vehicle that can serve it.
RowsAreThePairsThatFit ==
  pc = "done" =>
    \A pair \in {<<o.id, r.id>> : o \in Range(order_rows), r \in Range(vehicle_rows)} \cup DOMAIN rows :
      CopiesIn(pair, rows) =
        MapThenSumSet(LAMBDA q : vehicle_rows[q[2]].cant_v,
                      {q \in (DOMAIN order_rows) \X (DOMAIN vehicle_rows) :
                         /\ <<order_rows[q[1]].id, vehicle_rows[q[2]].id>> = pair
                         /\ Serves(vehicle_rows[q[2]], order_rows[q[1]])})

\* The compatibility sets leave nothing out for vehicles at the default speed:
\* the orders of any pair that such a vehicle can serve on one trip are
\* compatible one way or the other.  The searches that narrow what they offer a
\* vehicle to the companions of an order rest on it.
CompanionsAreFound ==
  pc = "done" =>
    \A i, j \in DOMAIN m_orders :
      i < j /\ (\E t \in Range(m_trucks) :
                 /\ t.row.speed = SpeedUnit
                 /\ \E trip \in {q \in [1..4 -> {<<"P", i>>, <<"D", i>>, <<"P", j>>, <<"D", j>>}] :
                                  /\ \A a, b \in 1..4 : q[a] = q[b] => a = b
                                  /\ \A a, b \in 1..4 :
                                       a < b => ~(q[a][2] = q[b][2] /\ q[a][1] = "D")} :
                      Trip(t.row, [a \in 1..4 |->
                                     IF trip[a][1] = "P" THEN Loading(m_orders[trip[a][2]].row)
                                     ELSE Unloading(m_orders[trip[a][2]].row)]).ok)
        => {<<i - 1, j - 1>>, <<j - 1, i - 1>>} \cap compatible # {}

\* Stops that the rows keep apart stay apart: no order is a stop of two
\* vehicles, which set_initial_solution would then put on both.
StopsStayApart ==
  (\A k, l \in DOMAIN vehicle_rows :
     k # l => (vehicle_rows[k].stops \cap vehicle_rows[l].stops = {})) =>
    \A k, l \in DOMAIN m_trucks : k # l => m_trucks[k].stops \cap m_trucks[l].stops = {}

\* The fleet is what the rows of the vehicles describe.
FleetIsSound == TypeOK /\ FleetIsSplit /\ StopsStayApart

=============================================================================
