------------------------------ MODULE VrpData ------------------------------
(***************************************************************************)
(* The data of a pick and deliver problem: the orders, the vehicles and    *)
(* the nodes they are visited at (problem::Tw_node, problem::Order and the *)
(* compatibility sets of problem::Orders).                                 *)
(*                                                                         *)
(* An order or a vehicle is its index in the vector it is kept in, after   *)
(* build_orders and build_fleet have sorted them; the last vehicle is the  *)
(* phony one that build_fleet adds.  A node is <<kind, index>>.            *)
(***************************************************************************)
EXTENDS TimeMatrix, FiniteSets

CONSTANTS
  Order,       \* the indices of the orders
  Truck,       \* the indices of the vehicles of the fleet
  PhonyTruck,  \* the index of the vehicle with identifier -1
  OrderRow,    \* OrderRow[o]: the fields of Orders_t
  TruckRow     \* TruckRow[v]: the fields of Vehicle_t

OrderFields ==
  [demand : Nat \ {0},
   pick_node_id : Site, pick_open_t : Nat, pick_close_t : Nat,
   pick_service_t : Nat,
   deliver_node_id : Site, deliver_open_t : Nat, deliver_close_t : Nat,
   deliver_service_t : Nat]

TruckFields ==
  [capacity : Nat, speed : Nat \ {0},
   start_node_id : Site, start_open_t : Nat, start_close_t : Nat,
   start_service_t : Nat,
   end_node_id : Site, end_open_t : Nat, end_close_t : Nat,
   end_service_t : Nat]

\* The windows of a vehicle's sites are not empty: add_vehicle asserts
\* is_start and is_end of the sites it builds.
ASSUME DataAssumption ==
  /\ Order \in SUBSET Nat /\ IsFiniteSet(Order)
  /\ Truck \in SUBSET Nat /\ IsFiniteSet(Truck)
  /\ PhonyTruck \in Truck
  /\ \A v \in Truck : v <= PhonyTruck
  /\ OrderRow \in [Order -> OrderFields]
  /\ TruckRow \in [Truck -> TruckFields]
  /\ \A v \in Truck : /\ TruckRow[v].start_open_t < TruckRow[v].start_close_t
                      /\ TruckRow[v].end_open_t < TruckRow[v].end_close_t

-----------------------------------------------------------------------------

Pickup(o) == <<"kPickup", o>>
Delivery(o) == <<"kDelivery", o>>
StartSite(v) == <<"kStart", v>>
EndSite(v) == <<"kEnd", v>>

Node == {Pickup(o) : o \in Order} \cup {Delivery(o) : o \in Order}
          \cup {StartSite(v) : v \in Truck} \cup {EndSite(v) : v \in Truck}

\* What a node's constructor copies from the row of its order or vehicle.
TwNode(id, opens, closes, service_time, demand) ==
  [id |-> id, opens |-> opens, closes |-> closes,
   service_time |-> service_time, demand |-> demand]

PickupNode(r) ==
  TwNode(r.pick_node_id, r.pick_open_t, r.pick_close_t, r.pick_service_t, r.demand)
DeliveryNode(r) ==
  TwNode(r.deliver_node_id, r.deliver_open_t, r.deliver_close_t,
         r.deliver_service_t, -r.demand)
StartNode(r) ==
  TwNode(r.start_node_id, r.start_open_t, r.start_close_t, r.start_service_t, 0)
EndNode(r) ==
  TwNode(r.end_node_id, r.end_open_t, r.end_close_t, r.end_service_t, 0)

Tw_node ==
  [n \in Node |->
     CASE n[1] = "kPickup"   -> PickupNode(OrderRow[n[2]])
       [] n[1] = "kDelivery" -> DeliveryNode(OrderRow[n[2]])
       [] n[1] = "kStart"    -> StartNode(TruckRow[n[2]])
       [] n[1] = "kEnd"      -> EndNode(TruckRow[n[2]])]

IsStart(n) == n[1] = "kStart"
IsEnd(n) == n[1] = "kEnd"

\* is_pickup and is_delivery hold of well formed nodes only.
IsPickup(n) == /\ n[1] = "kPickup"
               /\ Tw_node[n].opens < Tw_node[n].closes
               /\ Tw_node[n].demand > 0
IsDelivery(n) == /\ n[1] = "kDelivery"
                 /\ Tw_node[n].opens < Tw_node[n].closes
                 /\ Tw_node[n].demand < 0

is_late_arrival(n, t) == t > Tw_node[n].closes
is_early_arrival(n, t) == t < Tw_node[n].opens

TravelTime(i, j, t, speed) ==
  travel_time_to(Tw_node[i].id, Tw_node[j].id, t, speed)

\* Arrival at j after serving i at the moment i opens.
arrival_j_opens_i(i, j, speed) ==
  LET departure == Tw_node[i].opens + Tw_node[i].service_time
  IN  departure + TravelTime(i, j, departure, speed)

\* May j be visited immediately after i?
is_compatible_IJ(i, j, speed) ==
  /\ ~IsStart(j)
  /\ ~IsEnd(i)
  /\ ~is_late_arrival(j, arrival_j_opens_i(i, j, speed))

-----------------------------------------------------------------------------

\* May order j follow order i?  (Order::isCompatibleIJ, at the default speed)
isCompatibleIJ(i, j) ==
  LET before(a, b) == is_compatible_IJ(a, b, SpeedUnit)
  IN  /\ before(Pickup(i), Pickup(j)) /\ before(Pickup(i), Delivery(j))
      /\ \/ before(Delivery(i), Pickup(j)) /\ before(Delivery(i), Delivery(j))
         \/ before(Pickup(j), Delivery(i)) /\ before(Delivery(i), Delivery(j))
         \/ before(Pickup(j), Delivery(i)) /\ before(Delivery(j), Delivery(i))

\* m_compatibleJ and m_compatibleI of every order.
compatibleJ == [i \in Order |-> {j \in Order \ {i} : isCompatibleIJ(i, j)}]
compatibleI == [j \in Order |-> {i \in Order \ {j} : isCompatibleIJ(i, j)}]

subsetJ(o, orders) == compatibleJ[o] \cap orders
subsetI(o, orders) == compatibleI[o] \cap orders

\* The first order of the set with the most companions; the front when no
\* order has any.
FirstWithMost(orders, companions(_)) ==
  Min({o \in orders :
         \A p \in orders : Cardinality(companions(p)) <= Cardinality(companions(o))})

find_best_J(orders) == FirstWithMost(orders, LAMBDA o : subsetJ(o, orders))
find_best_I(orders) == FirstWithMost(orders, LAMBDA o : subsetI(o, orders))

=============================================================================
