----------------------------- MODULE TabuInitial -----------------------------
(***************************************************************************)
(* initialsol::tabu::Initial_solution: the solution that the users' stops  *)
(* describe.  Vehicle by vehicle the stops become a path                   *)
(* (Fleet::set_initial_solution); then the vehicles in good order make up  *)
(* the fleet, and each order that is left gets a phony vehicle of its own. *)
(* An assertion that does not hold ends in the state "failed"; otherwise   *)
(* the solution is handed to TabuOptimizer, in the state "start".          *)
(*                                                                         *)
(* The loop that makes the orders of some vehicles unmovable is left out:  *)
(* it runs over m_fleet, which is empty then, because set_initial_solution *)
(* marks no vehicle as used.                                               *)
(***************************************************************************)
EXTENDS Solution

CONSTANT Calls   \* the arguments of the calls

Vehicles == Truck \ {PhonyTruck}

\* The vehicles in good order.
RealTrucks == {v \in Vehicles : CapacityOf(v) > 0}

\* The stops of the users, the date before which pickups are unmovable, and
\* the arguments of the search.
ASSUME CallsAssumption ==
  \A c \in Calls :
    /\ c.stops \in [Vehicles -> Seq(Nat)] /\ c.execution_date \in Nat
    /\ {c.optimize, c.stop_on_all_served} \subseteq BOOLEAN
    /\ c.max_cycles \in Nat

\* build_fleet gives the phony vehicle all the time there is: without orders it
\* is never late.
ASSUME PhonyAssumption == is_feasible(NewTruck(PhonyTruck))

VARIABLES
  call,         \* the arguments
  m_all_orders, m_unassigned, m_assigned,
  trucks,       \* Fleet: the vehicles with a path so far
  to_place,     \* the orders process_unassigned has not come to yet
  m_fleet,      \* the vehicles of the solution
  pc            \* "stops" | "unused" | "phony" | "start" | "failed" | TabuOptimizer's

orders == <<m_all_orders, m_unassigned, m_assigned>>
given == <<call, orders, trucks, to_place>>

stops == call.stops
execution_date == call.execution_date

-----------------------------------------------------------------------------

invariant(all, assigned, unassigned) ==
  all = assigned \cup unassigned /\ assigned \cap unassigned = {}

InitialInit ==
  /\ call \in Calls
  /\ m_all_orders = UNION {feasible_orders[v] : v \in Truck}
  /\ m_unassigned = m_all_orders
  /\ m_assigned = {}
  /\ trucks = <<>>
  /\ to_place = {}
  /\ m_fleet = <<>>
  /\ pc = "stops"

\* The vehicle whose stops are looked at next.
Waiting == Vehicles \ {trucks[k].idx : k \in DOMAIN trucks}

\* Stops that the assertions refuse: an order that is not of the problem or
\* has been assigned, be it to this vehicle.
Refused(visits) ==
  \E k \in DOMAIN visits :
    \/ visits[k] \notin Order
    \/ visits[k] \in m_assigned
    \/ Cardinality({l \in 1..k : visits[l] = visits[k]}) > 2

Delivered(visits) ==
  {o \in Range(visits) : Cardinality({k \in DOMAIN visits : visits[k] = o}) = 2}

\* Fault: orders taken off the vehicle stay assigned.
RemovedStay(delivered, t) == {}

\* The orders that are taken off a vehicle whose stops violate something.
Removed(delivered, t) == delivered \ OrdersDelivered(t.path)

Assign(t, delivered, removed) ==
  /\ trucks' = Append(trucks, t)
  /\ m_assigned' = (m_assigned \cup delivered) \ removed
  /\ m_unassigned' = (m_unassigned \ delivered) \cup removed

\* Vehicle_pickDeliver::set_initial_solution of the next vehicle.
SetStops ==
  /\ pc = "stops" /\ Waiting # {}
  /\ LET v == Min(Waiting)
         visits == stops[v]
     IN  IF Refused(visits)
         THEN pc' = "failed" /\ UNCHANGED <<orders, trucks>>
         ELSE /\ \E t \in {set_initial_solution(v, visits, execution_date, call.optimize)} :
                   Assign(t, Delivered(visits), Removed(Delivered(visits), t))
              /\ UNCHANGED <<m_all_orders, pc>>
  /\ UNCHANGED <<call, to_place, m_fleet>>

\* The end of process_given_solution_from_user: the vehicles that are used,
\* none, are the fleet.
UseGiven ==
  /\ pc = "stops" /\ Waiting = {}
  /\ m_fleet' = <<>>
  /\ pc' = IF invariant(m_all_orders, m_assigned, m_unassigned) THEN "unused" ELSE "failed"
  /\ UNCHANGED <<call, orders, trucks, to_place>>

\* The unused vehicles are those that clean has left: they are in good order.
AddUnused ==
  /\ pc = "unused"
  /\ m_fleet' = Kept(trucks, LAMBDA t : t.idx \in RealTrucks)
  /\ to_place' = m_unassigned
  /\ pc' = IF FleetFeasible(m_fleet') THEN "phony" ELSE "failed"
  /\ UNCHANGED <<call, orders, trucks>>

\* An unassigned order joins a phony vehicle of its own, or, when it can not
\* be served at all, leaves the problem.
PlaceOnPhony(o) ==
  /\ m_unassigned' = m_unassigned \ {o}
  /\ IF is_order_feasible(PhonyTruck, o)
     THEN /\ m_assigned' = m_assigned \cup {o}
          /\ m_fleet' = Append(m_fleet, push_back(NewTruck(PhonyTruck), o))
          /\ UNCHANGED m_all_orders
     ELSE /\ m_all_orders' = m_all_orders \ {o}
          /\ UNCHANGED <<m_assigned, m_fleet>>

Place ==
  /\ pc = "phony" /\ to_place # {}
  /\ PlaceOnPhony(Min(to_place))
  /\ to_place' = to_place \ {Min(to_place)}
  /\ pc' = IF invariant(m_all_orders', m_assigned', m_unassigned') THEN pc ELSE "failed"
  /\ UNCHANGED <<call, trucks>>

AllPlaced ==
  /\ pc = "phony" /\ to_place = {}
  /\ pc' = IF m_unassigned = {} THEN "start" ELSE "failed"
  /\ UNCHANGED <<call, orders, trucks, to_place, m_fleet>>

Initial_solution == SetStops \/ UseGiven \/ AddUnused \/ Place \/ AllPlaced

-----------------------------------------------------------------------------

\* The stops of the users ask for the impossible: an order that is unknown,
\* on two vehicles or three times on one, or that no vehicle could serve.
IllegalStops ==
  \/ \E v \in Vehicles : ~(Range(stops[v]) \subseteq Order)
  \/ \E v, w \in Vehicles : v # w /\ Delivered(stops[v]) \cap Range(stops[w]) # {}
  \/ \E v \in Vehicles : \E o \in Order :
       Cardinality({k \in DOMAIN stops[v] : stops[v][k] = o}) > 2
  \/ \E v \in Vehicles : ~(Delivered(stops[v]) \subseteq UNION {feasible_orders[t] : t \in Truck})

\* Every order that some vehicle can serve is delivered by one vehicle and one
\* only, when the search starts and when it is over: by a real one with stops
\* for it, though it be unmovable and not among the orders of the vehicle, or
\* by a phony one.  The orders of a vehicle that is not in good order are not
\* in the solution.
DeliveredOnce ==
  pc \in {"start", "done"} =>
    \A o \in m_all_orders :
      LET by == {k \in DOMAIN m_fleet : Delivery(o) \in Nodes(m_fleet[k].path)}
      IN  \/ Cardinality(by) = 1
          \/ by = {} /\ \E v \in Vehicles \ RealTrucks : o \in Range(stops[v])

\* The orders of a vehicle that open for pickup before the execution date.
FixedOf(v) == unmovable(Delivered(stops[v]), execution_date)

\* Whatever happens to the other stops, then and in the search, unmovable
\* orders stay where the user put them, one after the other as the user wanted
\* them, and they are not among the orders that may be moved.
UnmovableStay ==
  pc \in {"start", "done"} =>
    \A k \in DOMAIN m_fleet :
      LET t == m_fleet[k]
      IN  ~is_phony(t) =>
            /\ FixedOf(t.idx) \cap t.orders = {}
            /\ KeepsOrder(t.path, StopsPath(t.idx, stops[t.idx]), NodesOf(FixedOf(t.idx)))

=============================================================================
