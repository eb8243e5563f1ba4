---------------------------- MODULE VehicleRoute ----------------------------
(***************************************************************************)
(* A vehicle and the operations on its path: problem::Vehicle_node,        *)
(* problem::Vehicle and problem::Vehicle_pickDeliver, as operators from a  *)
(* vehicle to the vehicle after the call.                                  *)
(*                                                                         *)
(* A path is the deque of the nodes from the starting to the ending site.  *)
(* Each of its elements, a stop, caches what evaluate computed for it; the *)
(* operations re-evaluate from the first position they disturb, as the     *)
(* code does.  Positions count from 1: position p is at(p - 1).            *)
(***************************************************************************)
EXTENDS VrpData, SequencesExt

SpeedOf(v) == TruckRow[v].speed
CapacityOf(v) == TruckRow[v].capacity

(***************************************************************************)
(* Stops.                                                                  *)
(***************************************************************************)

\* A node of the problem that no vehicle has visited yet.
Unvisited(n) ==
  [node |-> n, arrival |-> 0, departure |-> 0, travel |-> 0, wait |-> 0,
   cargo |-> 0, twvTot |-> 0, cvTot |-> 0]

\* Does a stop at n with this cargo violate the capacity of v?
has_cv(v, n, cargo) ==
  IF IsStart(n) \/ IsEnd(n) THEN cargo # 0
  ELSE cargo > CapacityOf(v) \/ cargo < 0

Count(b) == IF b THEN 1 ELSE 0

\* Vehicle_node::evaluate of the starting site.
EvaluateStart(v, n) ==
  LET tw == Tw_node[n]
  IN  [node |-> n,
       arrival |-> tw.opens,
       departure |-> tw.opens + tw.service_time,
       travel |-> 0,
       wait |-> 0,
       cargo |-> tw.demand,
       twvTot |-> 0,
       cvTot |-> Count(has_cv(v, n, tw.demand))]

\* A stop at n, whose data are tw, when v comes from the stop pred over leg.
StopAfter(v, pred, n, tw, leg) ==
  LET arrival == pred.departure + leg
      wait == IF is_early_arrival(n, arrival) THEN tw.opens - arrival ELSE 0
      cargo == pred.cargo + tw.demand
  IN  [node |-> n,
       arrival |-> arrival,
       departure |-> arrival + wait + tw.service_time,
       travel |-> pred.travel + leg,
       wait |-> pred.wait + wait,
       cargo |-> cargo,
       twvTot |-> pred.twvTot + Count(is_late_arrival(n, arrival)),
       cvTot |-> pred.cvTot + Count(has_cv(v, n, cargo))]

\* Vehicle_node::evaluate of a stop at n that follows the stop pred.
EvaluateAfter(v, pred, n) ==
  StopAfter(v, pred, n, Tw_node[n],
            TravelTime(pred.node, n, pred.departure, SpeedOf(v)))

\* The stop at position p of the path when it is evaluated from a position on
\* and the stops in front of p are done.
StopAt(v, path, from, done, p) ==
  IF p < from THEN path[p]
  ELSE IF p = 1 THEN EvaluateStart(v, path[p].node)
  ELSE EvaluateAfter(v, done[p - 1], path[p].node)

\* The result of the steps 1..n, which start from base.
Iterated(Step(_, _), base, n) ==
  LET after[k \in 0..n] == IF k = 0 THEN base ELSE Step(after[k - 1], k)
  IN  after[n]

\* Vehicle::evaluate(from): the stops before from keep what they cache.
Evaluate(v, path, from) ==
  Iterated(LAMBDA done, p : Append(done, StopAt(v, path, from, done, p)), <<>>, Len(path))

(***************************************************************************)
(* Paths of the vehicle v.                                                 *)
(***************************************************************************)

Nodes(path) == {path[p].node : p \in DOMAIN path}

PositionOf(path, n) == Min({p \in DOMAIN path : path[p].node = n})

\* How often the path has been at n when it leaves position q.
Times(path, n, q) == Cardinality({p \in 1..q : path[p].node = n})

InsertNode(path, pos, n) == InsertAt(path, pos, Unvisited(n))
Insert(v, path, pos, n) == Evaluate(v, InsertNode(path, pos, n), pos)

\* Fault: the stop that moves up to the erased position keeps its cache.
ErasePosLate(v, path, pos) == Evaluate(v, RemoveAt(path, pos), pos + 1)
ErasePos(v, path, pos) == Evaluate(v, RemoveAt(path, pos), pos)

\* Fault: every stop at the node is erased.
EraseVisits(v, path, n) == Evaluate(v, SelectSeq(path, LAMBDA s : s.node # n), 1)

\* erase(node): the first stop at the node, if there is one.
EraseNode(v, path, n) ==
  IF n \in Nodes(path) THEN ErasePos(v, path, PositionOf(path, n)) ELSE path

Swap(v, path, i, j) ==
  LET swapped == [path EXCEPT ![i] = path[j], ![j] = path[i]]
  IN  Evaluate(v, swapped, Min({i, j}))

NewPath(v) ==
  Evaluate(v, <<Unvisited(StartSite(v)), Unvisited(EndSite(v))>>, 1)

\* getPosLowLimit: n may precede everything from this position on.  The call
\* of is_compatible_IJ leaves the speed to its default value.
getPosLowLimit(path, n) ==
  Min({p \in 1..(Len(path) + 1) :
         \A q \in p..Len(path) : is_compatible_IJ(n, path[q].node, SpeedUnit)})

\* getDropPosLowLimit: the same at the speed of v, and not before a pickup.
getDropPosLowLimit(v, path, n) ==
  Min({p \in 1..(Len(path) + 1) :
         \A q \in p..Len(path) :
           /\ is_compatible_IJ(n, path[q].node, SpeedOf(v))
           /\ ~IsPickup(path[q].node)})

\* Fault: the position of the last stop that n may follow.
PosHighLimitShort(v, path, n) ==
  Max({p \in 0..Len(path) :
         \A q \in 1..p : is_compatible_IJ(path[q].node, n, SpeedOf(v))})

\* getPosHighLimit: n may follow everything before this position.
getPosHighLimit(v, path, n) ==
  Max({p \in 1..(Len(path) + 1) :
         \A q \in 1..(p - 1) : is_compatible_IJ(path[q].node, n, SpeedOf(v))})

(***************************************************************************)
(* Vehicles.                                                               *)
(***************************************************************************)

\* The vehicle v without orders.
NewTruck(v) ==
  [idx |-> v, path |-> NewPath(v), orders |-> {}, user_twv |-> 0, user_cv |-> 0]

is_phony(t) == t.idx = PhonyTruck
has_order(t, o) == o \in t.orders

twvTot(t) == Last(t.path).twvTot
cvTot(t) == Last(t.path).cvTot
is_feasible(t) == twvTot(t) <= t.user_twv /\ cvTot(t) <= t.user_cv

total_travel_time(t) == IF is_phony(t) THEN 0 ELSE Last(t.path).travel
objective(t) == total_travel_time(t)

\* S <nodes> E  becomes  S <nodes> P D E
push_back(t, o) ==
  LET n == Len(t.path)
      longer == InsertNode(InsertNode(t.path, n, Pickup(o)), n + 1, Delivery(o))
  IN  [t EXCEPT !.path = Evaluate(t.idx, longer, n), !.orders = @ \cup {o}]

\* S <nodes> E  becomes  S P D <nodes> E
push_front(t, o) ==
  LET longer == InsertNode(InsertNode(t.path, 2, Delivery(o)), 2, Pickup(o))
  IN  [t EXCEPT !.path = Evaluate(t.idx, longer, 1), !.orders = @ \cup {o}]

erase(t, o) ==
  [t EXCEPT !.path = EraseNode(t.idx, EraseNode(t.idx, @, Pickup(o)), Delivery(o)),
            !.orders = @ \ {o}]

\* The vehicle with the pickup inserted at position p and then the delivery
\* at position q.
WithOrderAt(t, o, p, q) ==
  [t EXCEPT
     !.path = Insert(t.idx, Insert(t.idx, @, p, Pickup(o)), q, Delivery(o)),
     !.orders = @ \cup {o}]

\* Fault: the limits of the delivery are not moved.
UnmovedPositions(t, o) ==
  {pq \in (getPosLowLimit(t.path, Pickup(o))..getPosHighLimit(t.idx, t.path, Pickup(o)))
      \X (getPosLowLimit(t.path, Delivery(o))..getPosHighLimit(t.idx, t.path, Delivery(o))) :
    pq[1] < pq[2]}

\* The pairs of positions hillClimb tries.  The positions of the delivery
\* were estimated on the path without the pickup, so they move by one.
HillClimbPositions(t, o) ==
  LET pick_low == getPosLowLimit(t.path, Pickup(o))
      pick_high == getPosHighLimit(t.idx, t.path, Pickup(o))
      deliver_low == getPosLowLimit(t.path, Delivery(o)) + 1
      deliver_high == getPosHighLimit(t.idx, t.path, Delivery(o)) + 1
  IN  {pq \in (pick_low..pick_high) \X (deliver_low..deliver_high) : pq[1] < pq[2]}

WithOrderAtPair(t, o, pq) == WithOrderAt(t, o, pq[1], pq[2])

\* Fault: nobody asks whether the vehicle is feasible.
AnyPositions(t, o) == HillClimbPositions(t, o)

\* Those that leave the vehicle feasible.
FeasiblePositions(t, o) ==
  {pq \in HillClimbPositions(t, o) : is_feasible(WithOrderAtPair(t, o, pq))}

\* Of the positions, those with the least objective.
ObjectiveAt(t, o, pq) == objective(WithOrderAtPair(t, o, pq))
Cheapest(t, o, positions) ==
  {pq \in positions : \A other \in positions :
     ObjectiveAt(t, o, pq) <= ObjectiveAt(t, o, other)}

\* The pair that the loops come to first.
FirstPair(positions) ==
  CHOOSE a \in positions : \A b \in positions :
    a[1] < b[1] \/ (a[1] = b[1] /\ a[2] <= b[2])

\* The first pair of the positions with the least objective, or the vehicle as
\* it was.
BestOf(t, o, positions) ==
  IF positions = {} THEN t
  ELSE WithOrderAtPair(t, o, FirstPair(Cheapest(t, o, positions)))

hillClimb(t, o) == BestOf(t, o, FeasiblePositions(t, o))

\* Fault: the delivery goes as late as possible, feasible or not.
semiLIFO_unchecked(t, o) ==
  LET picked == Insert(t.idx, t.path, 2, Pickup(o))
  IN  WithOrderAt(t, o, 2, Len(picked))

\* Where the delivery may go once the vehicle has picked the order up first,
\* which makes its path picked: it is feasible, and not before a pickup.
Drops(t, o, picked) ==
  LET Suits(dropped, q) == is_feasible(dropped) /\ ~IsPickup(dropped.path[q + 1].node)
  IN  {q \in getDropPosLowLimit(t.idx, picked, Delivery(o))
               ..getPosHighLimit(t.idx, picked, Delivery(o)) :
         Suits(WithOrderAt(t, o, 2, q), q)}

LatestDrop(t, o, drops) == IF drops = {} THEN t ELSE WithOrderAt(t, o, 2, Max(drops))

\* Pickup first, delivery as late as possible; or the vehicle as it was.
semiLIFO(t, o) == LatestDrop(t, o, Drops(t, o, Insert(t.idx, t.path, 2, Pickup(o))))

\* The path of the stops a user gives for a vehicle: the first occurrence of
\* an order is its pickup, the second one its delivery.
StopNode(stops, i) ==
  IF \E j \in 1..(i - 1) : stops[j] = stops[i] THEN Delivery(stops[i])
  ELSE Pickup(stops[i])

StopsPath(v, stops) ==
  Evaluate(v, <<Unvisited(StartSite(v))>>
                \o [i \in DOMAIN stops |-> Unvisited(StopNode(stops, i))]
                \o <<Unvisited(EndSite(v))>>, 1)

\* set_unmovable: these orders stay on the path but are not orders of the
\* vehicle any more.  A pickup whose window is an instant does not count as a
\* pickup: its order stays movable.
unmovable(orders, execution_date) ==
  {o \in orders : IsPickup(Pickup(o)) /\ Tw_node[Pickup(o)].opens < execution_date}

\* Fault: what is done before the execution date can be moved.
WithMovable(v, stops, onboard, execution_date) ==
  [NewTruck(v) EXCEPT !.path = StopsPath(v, stops), !.orders = onboard]

\* The vehicle v with the stops of a user.
WithStops(v, stops, onboard, execution_date) ==
  [NewTruck(v) EXCEPT !.path = StopsPath(v, stops),
                      !.orders = onboard \ unmovable(onboard, execution_date)]

OrdersDelivered(path) == {o \in Order : Delivery(o) \in Nodes(path)}

\* The nodes of the orders.
NodesOf(orders) == {Pickup(o) : o \in orders} \cup {Delivery(o) : o \in orders}

\* On the path there is a stop at a, and a stop at b behind it.
Follows(path, a, b) ==
  \E p, q \in DOMAIN path : p < q /\ path[p].node = a /\ path[q].node = b

\* The nodes are on the path, one behind the other as they are wanted: once
\* each, if they are wanted once.
KeepsOrder(path, wanted, nodes) ==
  /\ nodes \subseteq Nodes(path)
  /\ \A a, b \in nodes : Follows(path, a, b) <=> Follows(wanted, a, b)

\* The violations that the vehicle starts with are the user's, and are
\* tolerated from then on.
Tolerated(t) == [t EXCEPT !.user_twv = twvTot(t), !.user_cv = cvTot(t)]

\* The first of the orders that the vehicle still has is erased.
EraseFirst(t) == erase(t, Min(t.orders))

EraseAll(t) ==
  Iterated(LAMBDA left, n : EraseFirst(left), t, Cardinality(t.orders))

\* Fault: the violations of the stops are kept without being tolerated.
NeverTolerated(given, stops, optimize) == given
Settled(given, stops, optimize) ==
  IF stops = <<>> \/ is_feasible(given) THEN given
  ELSE Tolerated(IF optimize THEN EraseAll(given) ELSE given)

set_initial_solution(v, stops, execution_date, optimize) ==
  Settled(WithStops(v, stops, OrdersDelivered(StopsPath(v, stops)), execution_date),
          stops, optimize)

\* is_order_feasible of the empty vehicle v.
is_order_feasible(v, o) == is_feasible(push_back(NewTruck(v), o))

\* Fault: only the windows of the vehicle are compared with those of the order.
window_orders ==
  [v \in Truck |->
     {o \in Order :
        /\ Tw_node[EndSite(v)].closes >= Tw_node[Pickup(o)].opens
        /\ Tw_node[Delivery(o)].closes >= Tw_node[StartSite(v)].opens}]

\* Fleet::set_compatibles: the orders each vehicle can serve on its own.  The
\* window tests are skipped for the phony vehicle, which is tried again.
feasible_orders ==
  [v \in Truck |->
     {o \in Order :
        /\ \/ v = PhonyTruck
           \/ /\ Tw_node[EndSite(v)].closes >= Tw_node[Pickup(o)].opens
              /\ Tw_node[Delivery(o)].closes >= Tw_node[StartSite(v)].opens
        /\ is_order_feasible(v, o)}]

=============================================================================
