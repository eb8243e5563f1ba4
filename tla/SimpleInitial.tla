--------------------------- MODULE SimpleInitial ---------------------------
(***************************************************************************)
(* The construction of an initial solution for pgr_pickDeliver:            *)
(* initialsol::simple::Initial_solution, with the bookkeeping of           *)
(* problem::Fleet it takes its vehicles from.                              *)
(*                                                                         *)
(* The outer loop takes a vehicle where the first unassigned order fits,   *)
(* the inner loop offers the vehicle the orders it may serve on its own,   *)
(* and the vehicle joins the solution.  An assertion of the code that does *)
(* not hold leads to the state "failed": the driver reports an error and   *)
(* returns no rows.                                                        *)
(*                                                                         *)
(* OneTruck is left out: no driver can ask for it.                         *)
(***************************************************************************)
EXTENDS VehicleRoute

CONSTANT
  Initials_code   \* the kinds of initial solution a user may ask for

ASSUME KindAssumption ==
  Initials_code \subseteq {"OnePerTruck", "FrontTruck", "BackTruck",
                           "BestInsert", "BestBack", "BestFront", "OneDepot"}

VARIABLES
  kind,              \* the initial solution that is built
  all_orders,        \* the orders of the problem
  unassigned,        \* the orders still to be placed
  assigned,          \* the orders placed
  trucks,            \* the vehicles of the problem
  m_unused,          \* Fleet: the vehicles get_truck chooses from
  m_used,            \* Fleet: the vehicles it has given away
  built,             \* m_fleet of the solution: its vehicles, in order
  truck,             \* the vehicle that is being filled
  current_feasible,  \* the orders it is still to be offered
  building           \* "outer" | "inner" | "done" | "failed"

fleetVars == <<trucks, m_unused, m_used>>
vars == <<kind, all_orders, unassigned, assigned, fleetVars, built, truck,
          current_feasible, building>>

-----------------------------------------------------------------------------

\* Solution::is_feasible: the vehicle that is being filled does not count.
SolutionFeasible == \A k \in DOMAIN built : is_feasible(built[k])

\* Vehicle::is_ok.  The windows are those of DataAssumption.
is_ok(v) == CapacityOf(v) > 0

\* The unused vehicles that can serve the order on their own.
Suitable(o) == {v \in m_unused : o \in feasible_orders[v]}

\* Fleet::get_truck of the order o gives v away.  When no unused vehicle
\* suits, the code dereferences the end of m_unused: any vehicle may be
\* returned, and nothing is marked.
get_truck(o, v) ==
  IF Suitable(o) # {}
  THEN /\ v = Min(Suitable(o))
       /\ m_used' = m_used \cup {v}
       /\ m_unused' = IF Cardinality(m_unused) > 1 THEN m_unused \ {v} ELSE m_unused
  ELSE UNCHANGED <<m_used, m_unused>>

\* The order the inner loop offers next.
NextOrder ==
  CASE kind = "BestBack"  -> find_best_J(current_feasible)
    [] kind = "BestFront" -> find_best_I(current_feasible)
    [] OTHER              -> Min(current_feasible)

\* Fault: OneDepot searches like the other kinds.
PlaceAnywhere(t, o) ==
  CASE kind = "FrontTruck" -> push_front(t, o)
    [] kind \in {"BackTruck", "OnePerTruck"} -> push_back(t, o)
    [] OTHER -> hillClimb(t, o)

\* How a kind puts the order on the vehicle.
Place(t, o) ==
  CASE kind = "FrontTruck" -> push_front(t, o)
    [] kind \in {"BackTruck", "OnePerTruck"} -> push_back(t, o)
    [] kind = "OneDepot" -> semiLIFO(t, o)
    [] OTHER -> hillClimb(t, o)

\* Faults: the companions are those of the whole problem; nothing is narrowed.
CompanionsOfAll(o) ==
  CASE kind = "BestBack"  -> compatibleJ[o]
    [] kind = "BestFront" -> compatibleI[o]
    [] kind = "OnePerTruck" -> {}
    [] OTHER -> current_feasible
CompanionsAny(o) == IF kind = "OnePerTruck" THEN {} ELSE current_feasible

\* The orders the vehicle is offered after it accepted o.
Companions(o) ==
  CASE kind = "BestBack"  -> subsetJ(o, current_feasible)
    [] kind = "BestFront" -> subsetI(o, current_feasible)
    [] kind = "OnePerTruck" -> {}
    [] OTHER -> current_feasible

\* The orders still to be offered after o.
Remaining(o, accepted) ==
  (IF accepted THEN Companions(o) ELSE current_feasible) \ {o}

\* Fault: also the orders that other vehicles have.
OffersAssigned(v) == feasible_orders[v] \cap all_orders

\* The orders a vehicle is offered when it is taken.
Offers(v) == feasible_orders[v] \cap unassigned

\* Fault: the inner loop is trusted.
ProgressAssumed == TRUE

\* Fewer orders are unassigned than when the vehicle was taken, which is to
\* say that it accepted one.
MadeProgress == truck.orders # {}

-----------------------------------------------------------------------------

\* The problem has some of the orders and some of the vehicles, the phony one
\* among them; clean has set the vehicles that are not ok aside.
Init ==
  /\ kind \in Initials_code
  /\ all_orders \in SUBSET Order
  /\ trucks \in {s \in SUBSET Truck : PhonyTruck \in s /\ s # {PhonyTruck}}
  /\ m_unused = {v \in trucks : is_ok(v)}
  /\ m_used = {}
  /\ unassigned = all_orders
  /\ assigned = {}
  /\ built = <<>>
  /\ truck = NewTruck(PhonyTruck)
  /\ current_feasible = {}
  /\ building = "outer"

\* The outer loop takes a vehicle for the first unassigned order and enters
\* the inner loop, which asserts that the solution so far is feasible.
GetTruck ==
  /\ building = "outer" /\ unassigned # {}
  /\ \E v \in trucks :
       /\ get_truck(Min(unassigned), v)
       /\ truck' = NewTruck(v)
       /\ current_feasible' = Offers(v)
  /\ building' = IF SolutionFeasible THEN "inner" ELSE "failed"
  /\ UNCHANGED <<kind, all_orders, unassigned, assigned, trucks, built>>

\* The other outcome of the dereference: not the index of a vehicle.
GetTruckThrows ==
  /\ building = "outer" /\ unassigned # {}
  /\ Suitable(Min(unassigned)) = {}
  /\ building' = "failed"
  /\ UNCHANGED <<kind, all_orders, unassigned, assigned, fleetVars, built,
                 truck, current_feasible>>

\* One turn of the inner loop.  The kinds that search may leave the vehicle
\* without the order; then the order stays unassigned.  The tests of
\* is_feasible in the loop are left out: they look at built, which GetTruck
\* has found feasible and the loop does not change, so they never fail.
OfferOrder ==
  /\ building = "inner" /\ current_feasible # {}
  /\ \E o \in {NextOrder} : \E placed \in {Place(truck, o)} :
       /\ truck' = placed
       /\ current_feasible' = Remaining(o, has_order(placed, o))
       /\ IF has_order(placed, o)
          THEN assigned' = assigned \cup {o} /\ unassigned' = unassigned \ {o}
          ELSE UNCHANGED <<assigned, unassigned>>
  /\ UNCHANGED <<kind, all_orders, fleetVars, built, building>>

\* Fault: an empty vehicle is put back instead of failing the assertion.
CloseTruckOrRetry ==
  /\ building = "inner" /\ current_feasible = {}
  /\ building' = "outer"
  /\ built' = IF MadeProgress THEN Append(built, truck) ELSE built
  /\ UNCHANGED <<kind, all_orders, unassigned, assigned, fleetVars, truck,
                 current_feasible>>

\* The inner loop has ended: the vehicle joins the solution, provided that
\* the loop made progress.
CloseTruck ==
  /\ building = "inner" /\ current_feasible = {}
  /\ IF MadeProgress
     THEN built' = Append(built, truck) /\ building' = "outer"
     ELSE building' = "failed" /\ UNCHANGED built
  /\ UNCHANGED <<kind, all_orders, unassigned, assigned, fleetVars, truck,
                 current_feasible>>

Finish ==
  /\ building = "outer" /\ unassigned = {}
  /\ building' = "done"
  /\ UNCHANGED <<kind, all_orders, unassigned, assigned, fleetVars, built,
                 truck, current_feasible>>

Next == GetTruck \/ GetTruckThrows \/ OfferOrder \/ CloseTruck \/ Finish

\* The construction runs in one thread and never waits.  Running is what
\* enables Next, so this is weak fairness of Next, spelled without ENABLED.
Running == building \in {"outer", "inner"}
Fairness == []<>~Running \/ []<><<Next>>_vars

Spec == Init /\ [][Next]_vars /\ Fairness

-----------------------------------------------------------------------------

\* The routes of the solution, the one under construction included.
Routes == IF building = "inner" THEN Append(built, truck) ELSE built

\* The shape of a vehicle, its path aside.
VehicleShape(t) ==
  /\ t = [idx |-> t.idx, path |-> t.path, orders |-> t.orders,
          user_twv |-> t.user_twv, user_cv |-> t.user_cv]
  /\ t.idx \in trucks
  /\ t.orders \in SUBSET all_orders

\* Every variable has its type.
TypeOK ==
  /\ kind \in Initials_code
  /\ all_orders \in SUBSET Order
  /\ unassigned \in SUBSET all_orders
  /\ assigned \in SUBSET all_orders
  /\ trucks \in SUBSET Truck
  /\ m_unused \in SUBSET trucks
  /\ m_used \in SUBSET trucks
  /\ built \in Seq(Range(built))
  /\ \A k \in DOMAIN built : VehicleShape(built[k])
  /\ VehicleShape(truck)
  /\ current_feasible \in SUBSET all_orders
  /\ building \in {"outer", "inner", "done", "failed"}

\* Initial_solution::invariant and what it is for: the assigned and the
\* unassigned orders are all the orders, and an order is assigned exactly when
\* one route, and no other, has it.
EachOrderOnce ==
  /\ assigned \cup unassigned = all_orders
  /\ assigned \cap unassigned = {}
  /\ \A o \in assigned : \E k \in DOMAIN Routes : o \in Routes[k].orders
  /\ \A k \in DOMAIN Routes : Routes[k].orders \subseteq assigned
  /\ \A k, l \in DOMAIN Routes :
       k # l => Routes[k].orders \cap Routes[l].orders = {}

\* do_while_feasible asserts that the solution is feasible before and after
\* it fills a vehicle, but never looks at the vehicle itself.  Of the kinds
\* that search, and of one order per vehicle, every route is feasible all the
\* same, also the one under construction as soon as it has an order.
SearchesAreFeasible ==
  kind \notin {"FrontTruck", "BackTruck"} =>
    \A k \in DOMAIN Routes : Routes[k].orders # {} => is_feasible(Routes[k])

\* The assertion of do_while_foo that the loop makes progress can not fail
\* with a vehicle that suits the order it was taken for: whatever the kind
\* offers first and wherever it looks for a place, the vehicle is not empty
\* when the inner loop ends.
SuitableVehicleTakesAnOrder ==
  building = "inner" /\ current_feasible = {} /\ truck.orders = {} =>
    Min(unassigned) \notin feasible_orders[truck.idx]

\* OneDepot, "pick at front, drop at back": no pickup follows a delivery.
PicksThenDrops ==
  kind = "OneDepot" =>
    \A k \in DOMAIN Routes : \A p, q \in DOMAIN Routes[k].path :
      IsDelivery(Routes[k].path[p].node) /\ IsPickup(Routes[k].path[q].node) => q < p

\* BestBack and BestFront narrow the orders to the companions of the last one
\* they placed.  So what is still offered can follow (BestFront: precede)
\* every order of the vehicle, and every two orders of a route are
\* compatible, whatever the order they were placed in.
RoutesAreCompatible ==
  /\ building = "inner" /\ kind = "BestBack" =>
       \A o \in truck.orders : current_feasible \subseteq compatibleJ[o]
  /\ building = "inner" /\ kind = "BestFront" =>
       \A o \in truck.orders : current_feasible \subseteq compatibleI[o]
  /\ kind \in {"BestBack", "BestFront"} =>
       \A k \in DOMAIN Routes : \A a, b \in Routes[k].orders :
         a # b => isCompatibleIJ(a, b) \/ isCompatibleIJ(b, a)

\* The routes are what the kind of construction promises of them.
RoutesFitTheKind == SearchesAreFeasible /\ PicksThenDrops /\ RoutesAreCompatible

\* The construction as an assignment of orders to routes.
Assignment ==
  INSTANCE OrderAssignment WITH
    waiting <- unassigned,
    routes <- [k \in DOMAIN built |-> built[k].orders],
    open <- IF building = "inner" THEN truck.orders ELSE {},
    state <- CASE building = "done" -> "complete"
               [] building = "failed" -> "abandoned"
               [] OTHER -> "running"

\* The construction keeps the promise of OrderAssignment, whatever the kind
\* and even when get_truck returns an arbitrary vehicle: one order at a time
\* goes to the route under construction, and no route is touched again.
ImplementsOrderAssignment == Assignment!Spec

\* The construction ends, with a solution or with a failed assertion: every
\* turn of the inner loop drops an order from current_feasible, and every
\* turn of the outer loop one from unassigned.
Terminates == Assignment!Ends

\* The assertion of do_while_foo after do_while_feasible: fewer orders are
\* unassigned than when the vehicle was taken.
LoopMakesProgress == building = "inner" /\ current_feasible = {} => truck.orders # {}

=============================================================================
