------------------------------ MODULE Vehicle ------------------------------
(***************************************************************************)
(* The life of one vehicle in a solution: it starts empty or with the      *)
(* stops a user gives, and the initial solutions and the optimizers put    *)
(* orders on it and take them off.  Nothing else changes a vehicle.        *)
(* hillClimb goes turn by turn, the other operations are a step each.      *)
(***************************************************************************)
EXTENDS HillClimb

CONSTANTS
  InitialStops,    \* the sequences of stops a user gives
  ExecutionDates   \* the execution dates a user gives

\* An order is picked up and delivered once: the code asserts that it does not
\* come a third time.
ASSUME StopsAssumption ==
  /\ InitialStops \subseteq Seq(Order)
  /\ \A stops \in InitialStops : \A i, j, k \in DOMAIN stops :
       i < j /\ j < k => ~(stops[i] = stops[j] /\ stops[j] = stops[k])
  /\ ExecutionDates \subseteq Nat

VARIABLE
  given   \* the stops and the execution date of the user, which never change

vars == <<truck, search, given>>

-----------------------------------------------------------------------------

Init ==
  /\ given \in [stops : InitialStops, execution_date : ExecutionDates]
  /\ \E v \in Truck, optimize \in BOOLEAN :
       truck = set_initial_solution(v, given.stops, given.execution_date, optimize)
  /\ Idle

\* An order comes to a vehicle that does not have it.  Its nodes may be on the
\* path all the same: the user's stops left them there.
PushBack(o) == ~has_order(truck, o) /\ truck' = push_back(truck, o)

PushFront(o) == ~has_order(truck, o) /\ truck' = push_front(truck, o)

\* Only the vehicles of pgr_pickDeliver get orders this way, and they start
\* without stops, so that no violation is tolerated.
SemiLIFO(o) ==
  /\ ~has_order(truck, o) /\ truck.user_twv = 0 /\ truck.user_cv = 0
  /\ truck' = semiLIFO(truck, o)

Erase(o) == has_order(truck, o) /\ truck' = erase(truck, o)

Operate ==
  /\ pc = "idle" /\ UNCHANGED search
  /\ \E o \in Order : PushBack(o) \/ PushFront(o) \/ SemiLIFO(o) \/ Erase(o)

StartSearch == \E o \in Order : ~has_order(truck, o) /\ Call(o)

Next == (Operate \/ StartSearch \/ Search) /\ UNCHANGED given

\* A search runs in one thread and never waits.  As one of its steps is always
\* possible, this is weak fairness of Search, spelled without ENABLED.
Fairness == []<>(pc = "idle") \/ []<><<Search>>_vars

Spec == Init /\ [][Next]_vars /\ Fairness

-----------------------------------------------------------------------------

\* The shape of a vehicle.  The positions of a search stay inside the path,
\* which never has more than the two nodes of its order in addition.
TypeOK ==
  /\ truck.idx \in Truck
  /\ truck.orders \in SUBSET Order
  /\ Nodes(truck.path) \subseteq Node
  /\ truck.user_twv \in Nat /\ truck.user_cv \in Nat
  /\ pc \in {"idle", "limits", "pick", "drop", "lift", "insert", "done"}
  /\ pc # "idle" =>
       /\ {pick, drop} \subseteq 0..(Len(start.path) + 1)
       /\ Len(truck.path) - Len(start.path) \in 0..2
       /\ Nodes(truck.path) \subseteq Nodes(start.path) \cup {Pickup(order), Delivery(order)}

\* Every stop caches exactly what an evaluation of the whole path computes,
\* whenever an operation has ended and whenever the loops of a search test
\* the vehicle: the operations re-evaluate from a position in the middle, and
\* none of them starts after the first stop it changed.  Between the lift of
\* the delivery and the next swap or erase the caches are stale.
CacheCoherent ==
  pc \in {"idle", "pick", "drop", "done"} =>
    truck.path = Evaluate(truck.idx, truck.path, 1)

\* The orders the user's stops name once: they are picked up and not delivered.
OnlyPickedUp ==
  {o \in Order : Cardinality({i \in DOMAIN given.stops : given.stops[i] = o}) = 1}

\* The orders that were on their way at the execution date: they stay on the
\* path but are no orders of the vehicle.
Pinned ==
  unmovable({o \in Order : Cardinality({i \in DOMAIN given.stops : given.stops[i] = o}) = 2},
            given.execution_date)

\* The set m_orders_in_vehicle and the path agree between two operations: the
\* path runs from the vehicle's start to its end by nodes of orders.  It
\* delivers an order once for the set and once if the user's stops pinned it,
\* and picks it up as often, once more if the stops only picked it up; so no
\* operation loses, doubles or mixes up a node, although erase looks for the
\* nodes of an order that may be on the path twice.  And nowhere on the way has
\* an order been delivered more often than picked up.
PathMatchesOrders ==
  /\ TypeOK
  /\ pc = "idle" =>
      LET n == Len(truck.path)
      IN  /\ Head(truck.path).node = StartSite(truck.idx)
          /\ Last(truck.path).node = EndSite(truck.idx)
          /\ \A p \in 2..(n - 1) : truck.path[p].node \in NodesOf(Order)
          /\ \A o \in Order :
               /\ Times(truck.path, Delivery(o), n)
                    = Count(o \in truck.orders) + Count(o \in Pinned)
               /\ Times(truck.path, Pickup(o), n)
                    = Times(truck.path, Delivery(o), n) + Count(o \in OnlyPickedUp)
               /\ \A q \in 1..n :
                    Times(truck.path, Delivery(o), q) <= Times(truck.path, Pickup(o), q)

\* The loops compute what the operator hillClimb states: the first feasible
\* pair of positions in the ranges with the least objective, or the vehicle
\* exactly as it was, caches included.
ComputesHillClimb == pc = "done" => truck = hillClimb(start, order)

\* hillClimb's early returns and its limits on the positions lose nothing: if
\* some pair of positions makes the vehicle feasible, the order is inserted,
\* and no feasible pair has a smaller objective.  On a path that the user made
\* late the limits do lose positions: two of its nodes may be incompatible, and
\* then there is no position that is behind one and before the other.
HillClimbBest ==
  pc = "done" /\ start.user_twv = 0 =>
    \A p, q \in 2..(Len(start.path) + 1) :
      p < q /\ is_feasible(WithOrderAt(start, order, p, q)) =>
        /\ has_order(truck, order)
        /\ objective(truck) <= objective(WithOrderAt(start, order, p, q))

\* The searches never leave a vehicle worse than a vehicle may be: whatever
\* hillClimb and semiLIFO insert, a feasible vehicle stays feasible, and so
\* does one that loses an order, when the travel times obey the triangle
\* inequality.
SearchKeepsFeasible ==
  [][/\ (pc = "idle" /\ \E o \in Order : SemiLIFO(o) \/ Erase(o))
          => (is_feasible(truck) => is_feasible(truck'))
     /\ (pc = "done" /\ is_feasible(start)) => is_feasible(truck)]_vars

\* A search ends: each turn moves the delivery or the pickup towards the end
\* of the path.
Terminates == pc = "limits" ~> pc = "idle"

=============================================================================
