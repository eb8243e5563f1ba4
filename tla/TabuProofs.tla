------------------------------ MODULE TabuProofs ------------------------------
(***************************************************************************)
(* That the tabu search keeps its solutions sound, for every problem: all  *)
(* orders and vehicles, all travel times, all stops of the users.          *)
(*                                                                         *)
(* What a neighbourhood computes matters only in so far as it takes an     *)
(* order off one vehicle and puts it on another one that stays feasible.   *)
(* Vehicles need not be intact for that: the stops of a user may pick an   *)
(* order up and never deliver it, and the search then picks it up again.   *)
(***************************************************************************)
EXTENDS TabuOptimizer, VehicleRouteProofs

\* For the arguments c of a call: the orders that the user pinned to vehicle v,
\* and the path the user wanted for it.
Pinned(c, v) == unmovable(Delivered(c.stops[v]), c.execution_date)
AllPinned(c) == UNION {Pinned(c, v) : v \in Vehicles}
WantedPath(c, v) == StopsPath(v, c.stops[v])

\* The vehicle delivers its orders and those pinned to it, and no others; what
\* is pinned is where the user wanted it.
HoldsPinned(c, t) == Holding(t, WantedPath(c, t.idx), Pinned(c, t.idx))

\* A vehicle of a solution: a phony one has at most the order it was made for,
\* a real one what is pinned to it; what is pinned is among the orders of none.
Fit(c, t) ==
  /\ Travels(t)
  /\ t.idx \in RealTrucks \cup {PhonyTruck}
  /\ t.orders \cap AllPinned(c) = {}
  /\ ~is_phony(t) => HoldsPinned(c, t)
  /\ is_phony(t) => \/ t = NewTruck(PhonyTruck)
                    \/ \E o \in Order : t = push_back(NewTruck(PhonyTruck), o)

\* No real vehicle is in the fleet twice.
DistinctTrucks(fleet) ==
  \A k, l \in 1..Len(fleet) : k # l /\ ~is_phony(fleet[k]) => fleet[k].idx # fleet[l].idx

\* The real vehicles of the fleet.
Aboard(fleet) == {v \in RealTrucks : \E k \in 1..Len(fleet) : fleet[k].idx = v}

\* A solution, feasible or not.
Sound(c, fleet) ==
  /\ fleet \in Seq(VehicleType)
  /\ \A k \in 1..Len(fleet) : Fit(c, fleet[k])
  /\ OrdersApart(fleet)
  /\ DistinctTrucks(fleet)

\* Two solutions of the same orders, with the same real vehicles and the same
\* orders on phony ones.
SameOrders(f, g) ==
  /\ OrdersOn(f) = OrdersOn(g) /\ PhonyOrders(f) = PhonyOrders(g)
  /\ Aboard(f) = Aboard(g)

\* A vehicle that Fleet builds, or one of the users', is not the phony one.
LEMMA VehiclesAre ==
  /\ \A v \in Vehicles : v \in Truck /\ v \in Nat /\ v # PhonyTruck
  /\ RealTrucks \subseteq Vehicles
  BY DataAssumption DEF Vehicles, RealTrucks

\* A phony vehicle is none of the real ones.
LEMMA RealIsNotPhony ==
  ASSUME NEW t, t.idx \in RealTrucks
  PROVE  ~is_phony(t)
  BY DataAssumption DEF is_phony, RealTrucks, Vehicles

\* The vehicles of a sound fleet travel.
LEMMA SoundTravels ==
  ASSUME NEW fleet, Sound(call, fleet)
  PROVE  Travelling(fleet)
  BY DEF Sound, Fit, Travelling

\* A selection from a solution is a solution, and one of the same orders when
\* it leaves out phony vehicles without orders only.
LEMMA SelectionSound ==
  ASSUME NEW fleet, Sound(call, fleet), NEW S \in SUBSET (1..Len(fleet)), NEW g,
         Selects(fleet, g, S)
  PROVE  /\ Sound(call, g)
         /\ FleetFeasible(fleet) => FleetFeasible(g)
         /\ (\A l \in 1..Len(fleet) :
               l \notin S => fleet[l].orders = {} /\ is_phony(fleet[l])) => SameOrders(fleet, g)
<1>1. PICK p \in [1..Len(g) -> S] :
        /\ \A j, k \in 1..Len(g) : p[j] = p[k] => j = k
        /\ \A l \in S : \E k \in 1..Len(g) : p[k] = l
        /\ \A k \in 1..Len(g) : g[k] = fleet[p[k]]
  BY DEF Selects
<1>2. \A k \in 1..Len(g) : p[k] \in 1..Len(fleet)
  OBVIOUS
<1>3. /\ fleet \in Seq(VehicleType) /\ g \in Seq(VehicleType) /\ OrdersApart(fleet)
      /\ DistinctTrucks(fleet)
  BY DEF Sound, Selects
<1>4. Sound(call, g)
  <2>1. \A k \in 1..Len(g) : Fit(call, g[k])
    BY <1>1, <1>2 DEF Sound
  <2>2. OrdersApart(g)
    BY <1>3, SelectionApart
  <2>3. DistinctTrucks(g)
    <3>1. \A j, k \in 1..Len(g) : j # k => p[j] # p[k]
      BY <1>1
    <3>2. QED
      BY <1>1, <1>2, <1>3, <3>1, SMTT(60) DEF DistinctTrucks
  <2>4. QED
    BY <1>3, <2>1, <2>2, <2>3 DEF Sound
<1>5. FleetFeasible(fleet) => FleetFeasible(g)
  BY <1>1, <1>2, <1>3, OrdersByPosition
<1>6. ASSUME \A l \in 1..Len(fleet) : l \notin S => fleet[l].orders = {} /\ is_phony(fleet[l])
      PROVE  SameOrders(fleet, g)
  <2>1. ASSUME NEW o
        PROVE  /\ o \in OrdersOn(fleet) <=> o \in OrdersOn(g)
               /\ o \in PhonyOrders(fleet) <=> o \in PhonyOrders(g)
    <3>1. \A l \in 1..Len(fleet) : o \in fleet[l].orders => l \in S
      BY <1>6
    <3>2. (\E l \in 1..Len(fleet) : o \in fleet[l].orders) <=>
            \E k \in 1..Len(g) : o \in g[k].orders
      <4>1. ASSUME NEW l \in 1..Len(fleet), o \in fleet[l].orders
            PROVE  \E k \in 1..Len(g) : o \in g[k].orders
        <5>1. PICK k \in 1..Len(g) : p[k] = l
          BY <1>1, <3>1, <4>1
        <5>2. g[k] = fleet[l]
          BY <1>1, <5>1
        <5>3. QED
          BY <4>1, <5>2
      <4>2. ASSUME NEW k \in 1..Len(g), o \in g[k].orders
            PROVE  \E l \in 1..Len(fleet) : o \in fleet[l].orders
        <5>1. p[k] \in 1..Len(fleet) /\ o \in fleet[p[k]].orders
          BY <1>1, <1>2, <4>2
        <5>2. QED
          BY <5>1
      <4>3. QED
        BY <4>1, <4>2
    <3>3. (\E l \in 1..Len(fleet) : is_phony(fleet[l]) /\ o \in fleet[l].orders) <=>
            \E k \in 1..Len(g) : is_phony(g[k]) /\ o \in g[k].orders
      BY <1>1, <1>2, <3>1
    <3>4. QED
      BY <1>3, <3>2, <3>3, OrdersByPosition
  <2>2. Aboard(fleet) = Aboard(g)
    <3>1. ASSUME NEW v \in RealTrucks, NEW l \in 1..Len(fleet), fleet[l].idx = v
          PROVE  \E k \in 1..Len(g) : g[k].idx = v
      <4>1. l \in S
        BY <1>6, <3>1, RealIsNotPhony
      <4>2. PICK k \in 1..Len(g) : p[k] = l
        BY <1>1, <4>1
      <4>3. QED
        BY <1>1, <3>1, <4>2
    <3>2. ASSUME NEW v \in RealTrucks, NEW k \in 1..Len(g), g[k].idx = v
          PROVE  \E l \in 1..Len(fleet) : fleet[l].idx = v
      BY <1>1, <1>2, <3>2
    <3>3. QED
      BY <3>1, <3>2 DEF Aboard
  <2>3. OrdersOn(fleet) = OrdersOn(g) /\ PhonyOrders(fleet) = PhonyOrders(g)
    BY <2>1
  <2>4. QED
    BY <2>2, <2>3 DEF SameOrders
<1>7. QED
  BY <1>4, <1>5, <1>6

\* Sorting a solution rearranges it.
LEMMA SortedIs ==
  ASSUME NEW fleet \in Seq(VehicleType), NEW asc, NEW g \in BySize(fleet, asc)
  PROVE  Len(g) = Len(fleet) /\ Selects(fleet, g, 1..Len(fleet))
  BY ArrangedIs DEF BySize, Sortings

\* Deleting the phony vehicles without orders selects the others.
LEMMA DeletedIs ==
  ASSUME NEW fleet \in Seq(VehicleType), NEW g, g = delete_empty_truck(fleet)
  PROVE  Selects(fleet, g,
                 {k \in 1..Len(fleet) : ~(fleet[k].orders = {} /\ is_phony(fleet[k]))})
<1> DEFINE S == {k \in 1..Len(fleet) : ~(fleet[k].orders = {} /\ is_phony(fleet[k]))}
<1>1. DOMAIN fleet = 1..Len(fleet)
  OBVIOUS
<1>2. g = VehiclesAt(fleet, S)
  BY <1>1 DEF delete_empty_truck, Kept
<1> HIDE DEF S
<1>3. Selects(fleet, g, S)
  <2>1. S \in SUBSET (1..Len(fleet))
    BY DEF S
  <2>2. QED
    BY <1>2, <2>1, VehiclesAtAre
<1>4. QED
  BY <1>3 DEF S

\* The unused vehicles are those of the trucks that are in good order.
LEMMA UnusedIs ==
  ASSUME NEW fleet \in Seq(VehicleType), NEW g,
         g = Kept(fleet, LAMBDA t : t.idx \in RealTrucks)
  PROVE  Selects(fleet, g, {k \in 1..Len(fleet) : fleet[k].idx \in RealTrucks})
<1> DEFINE S == {k \in 1..Len(fleet) : fleet[k].idx \in RealTrucks}
<1>1. DOMAIN fleet = 1..Len(fleet)
  OBVIOUS
<1>2. g = VehiclesAt(fleet, S)
  BY <1>1 DEF Kept
<1> HIDE DEF S
<1>3. Selects(fleet, g, S)
  <2>1. S \in SUBSET (1..Len(fleet))
    BY DEF S
  <2>2. QED
    BY <1>2, <2>1, VehiclesAtAre
<1>4. QED
  BY <1>3 DEF S

(***************************************************************************)
(* Two vehicles of a solution change.                                      *)
(***************************************************************************)

\* Two vehicles share out their orders anew; at most the first of them is
\* phony: the result is a solution of the same orders.
LEMMA ReplacedSound ==
  ASSUME NEW fleet, Sound(call, fleet), NEW a \in 1..Len(fleet), NEW b \in 1..Len(fleet), a # b,
         NEW x, NEW y, Fit(call, x), Fit(call, y), x.idx = fleet[a].idx, y.idx = fleet[b].idx,
         ~is_phony(fleet[b]),
         x.orders \cap y.orders = {},
         x.orders \cup y.orders = fleet[a].orders \cup fleet[b].orders,
         NEW g, Replaced(fleet, g, a, b, x, y)
  PROVE  /\ Sound(call, g)
         /\ OrdersOn(g) = OrdersOn(fleet) /\ Aboard(g) = Aboard(fleet)
         /\ FleetFeasible(fleet) /\ is_feasible(x) /\ is_feasible(y) => FleetFeasible(g)
         /\ ~is_phony(fleet[a]) => PhonyOrders(g) = PhonyOrders(fleet)
         /\ is_phony(fleet[a]) =>
              PhonyOrders(g) = (PhonyOrders(fleet) \ fleet[a].orders) \cup x.orders
<1> DEFINE n == Len(fleet)
<1>1. /\ fleet \in Seq(VehicleType) /\ OrdersApart(fleet) /\ DistinctTrucks(fleet)
      /\ \A k \in 1..n : Fit(call, fleet[k])
  BY DEF Sound
<1>2. /\ g \in Seq(VehicleType) /\ Len(g) = n /\ g[a] = x /\ g[b] = y
      /\ \A k \in 1..n : k # a /\ k # b => g[k] = fleet[k]
  BY DEF Replaced
<1>3. \A k, l \in 1..n : k # l => fleet[k].orders \cap fleet[l].orders = {}
  BY <1>1, OrdersByPosition
<1> HIDE DEF n
<1>4. a \in 1..n /\ b \in 1..n
  BY DEF n
<1>5. \A k \in 1..n : Fit(call, g[k])
  BY <1>1, <1>2
<1>6. ASSUME NEW k \in 1..n, NEW l \in 1..n, k # l
      PROVE  g[k].orders \cap g[l].orders = {}
  <2>1. ASSUME NEW j \in 1..n, j # a, j # b
        PROVE  g[j].orders \cap x.orders = {} /\ g[j].orders \cap y.orders = {}
    <3>1. g[j] = fleet[j]
      BY <1>2, <2>1
    <3>2. fleet[j].orders \cap fleet[a].orders = {} /\ fleet[j].orders \cap fleet[b].orders = {}
      BY <1>3, <1>4, <2>1
    <3>3. QED
      BY <3>1, <3>2
  <2>2. CASE k # a /\ k # b /\ l # a /\ l # b
    <3>1. g[k] = fleet[k] /\ g[l] = fleet[l]
      BY <1>2, <2>2
    <3>2. QED
      BY <1>3, <1>6, <3>1
  <2>3. CASE {k, l} = {a, b}
    BY <1>2, <2>3
  <2>4. CASE k \in {a, b} /\ l \notin {a, b}
    BY <1>2, <2>1, <2>4
  <2>5. CASE l \in {a, b} /\ k \notin {a, b}
    BY <1>2, <2>1, <2>5
  <2>6. QED
    BY <1>6, <2>2, <2>3, <2>4, <2>5
<1>7. \A k \in 1..n : g[k].idx = fleet[k].idx
  BY <1>2
<1>8. DistinctTrucks(g) /\ Aboard(g) = Aboard(fleet)
  <2>1. \A k \in 1..n : is_phony(g[k]) <=> is_phony(fleet[k])
    BY <1>7 DEF is_phony
  <2>2. DistinctTrucks(g)
    BY <1>1, <1>2, <1>7, <2>1 DEF DistinctTrucks, n
  <2>3. Aboard(g) = Aboard(fleet)
    BY <1>2, <1>7 DEF Aboard, n
  <2>4. QED
    BY <2>2, <2>3
<1>9. Sound(call, g)
  BY <1>2, <1>5, <1>6, <1>8, OrdersByPosition, SMTT(60) DEF Sound
<1>10. OrdersOn(g) = OrdersOn(fleet)
  <2>1. ASSUME NEW o, NEW k \in 1..n, o \in g[k].orders
        PROVE  \E l \in 1..n : o \in fleet[l].orders
    BY <1>2, <1>4, <2>1
  <2>2. ASSUME NEW o, NEW k \in 1..n, o \in fleet[k].orders
        PROVE  \E l \in 1..n : o \in g[l].orders
    <3>1. CASE k \in {a, b}
      <4>1. o \in x.orders \/ o \in y.orders
        BY <2>2, <3>1
      <4>2. QED
        BY <1>2, <1>4, <4>1
    <3>2. CASE k \notin {a, b}
      <4>1. g[k] = fleet[k]
        BY <1>2, <3>2
      <4>2. QED
        BY <2>2, <4>1
    <3>3. QED
      BY <3>1, <3>2
  <2>3. \A o : o \in OrdersOn(g) <=> o \in OrdersOn(fleet)
    BY <1>1, <1>2, <2>1, <2>2, OrdersByPosition DEF n
  <2>4. QED
    BY <2>3
<1>11. FleetFeasible(fleet) /\ is_feasible(x) /\ is_feasible(y) => FleetFeasible(g)
  BY <1>1, <1>2, OrdersByPosition DEF n
<1>12. ~is_phony(g[b]) /\ (is_phony(g[a]) <=> is_phony(fleet[a]))
  BY <1>2 DEF is_phony
<1>13. \A o : o \in PhonyOrders(fleet) <=>
         \E k \in 1..n : is_phony(fleet[k]) /\ o \in fleet[k].orders
  BY <1>1, OrdersByPosition DEF n
<1>14. \A o : o \in PhonyOrders(g) <=>
         \E k \in 1..n : is_phony(g[k]) /\ o \in g[k].orders
  <2>1. \A o : o \in PhonyOrders(g) <=>
          \E k \in 1..Len(g) : is_phony(g[k]) /\ o \in g[k].orders
    BY <1>2, OrdersByPosition
  <2>2. QED
    BY <1>2, <2>1
<1>15. ASSUME ~is_phony(fleet[a])
       PROVE  PhonyOrders(g) = PhonyOrders(fleet)
  <2>1. ASSUME NEW o
        PROVE  (\E k \in 1..n : is_phony(g[k]) /\ o \in g[k].orders) <=>
                 \E k \in 1..n : is_phony(fleet[k]) /\ o \in fleet[k].orders
    <3>1. \A k \in 1..n : is_phony(g[k]) => g[k] = fleet[k]
      BY <1>2, <1>12, <1>15
    <3>2. \A k \in 1..n : is_phony(fleet[k]) => g[k] = fleet[k]
      BY <1>2, <1>15
    <3>3. QED
      BY <3>1, <3>2
  <2>2. \A o : o \in PhonyOrders(g) <=> o \in PhonyOrders(fleet)
    BY <1>13, <1>14, <2>1
  <2>3. QED
    BY <2>2
<1>16. ASSUME is_phony(fleet[a])
       PROVE  PhonyOrders(g) = (PhonyOrders(fleet) \ fleet[a].orders) \cup x.orders
  <2>1. \A k \in 1..n : is_phony(g[k]) /\ k # a => g[k] = fleet[k]
    BY <1>2, <1>12
  <2>2. \A k \in 1..n : is_phony(fleet[k]) /\ k # a => g[k] = fleet[k]
    BY <1>2
  <2>3. ASSUME NEW o \in PhonyOrders(g)
        PROVE  o \in (PhonyOrders(fleet) \ fleet[a].orders) \cup x.orders
    <3>1. PICK k \in 1..n : is_phony(g[k]) /\ o \in g[k].orders
      BY <1>14
    <3>2. CASE k = a
      BY <1>2, <3>1, <3>2
    <3>3. CASE k # a
      <4>1. g[k] = fleet[k]
        BY <2>1, <3>1, <3>3
      <4>2. o \in PhonyOrders(fleet)
        BY <1>13, <3>1, <4>1
      <4>3. o \notin fleet[a].orders
        BY <1>3, <1>4, <3>1, <3>3, <4>1
      <4>4. QED
        BY <4>2, <4>3
    <3>4. QED
      BY <3>2, <3>3
  <2>4. ASSUME NEW o \in (PhonyOrders(fleet) \ fleet[a].orders) \cup x.orders
        PROVE  o \in PhonyOrders(g)
    <3>1. CASE o \in x.orders
      BY <1>2, <1>4, <1>12, <1>14, <1>16, <3>1
    <3>2. CASE o \in PhonyOrders(fleet) /\ o \notin fleet[a].orders
      <4>1. PICK k \in 1..n : is_phony(fleet[k]) /\ o \in fleet[k].orders
        BY <1>13, <3>2
      <4>2. k # a
        BY <3>2, <4>1
      <4>3. g[k] = fleet[k]
        BY <2>2, <4>1, <4>2
      <4>4. QED
        BY <1>14, <4>1, <4>3
    <3>3. QED
      BY <3>1, <3>2
  <2>5. QED
    BY <2>3, <2>4
<1>17. QED
  BY <1>9, <1>10, <1>11, <1>15, <1>16, <1>8

(***************************************************************************)
(* move_2_real.                                                            *)
(***************************************************************************)

\* The real vehicle at l of fleet has not got order o, and takes it.
Takes(fleet, o, l) ==
  /\ l \in 1..Len(fleet)
  /\ ~is_phony(fleet[l]) /\ ~has_order(fleet[l], o)
  /\ has_order(hillClimb(fleet[l], o), o)

\* Trying an order on a vehicle leaves one that travels.
LEMMA TriedTravels ==
  ASSUME NEW t, Travels(t), NEW o \in Order, NEW u, u = Tried(t, o)
  PROVE  /\ Travels(u)
         /\ has_order(u, o) /\ ~has_order(t, o) => ~is_phony(t) /\ u = hillClimb(t, o)
<1>1. u = t \/ (~is_phony(t) /\ u = hillClimb(t, o))
  BY DEF Tried
<1>2. Travels(hillClimb(t, o))
  <2> DEFINE h == hillClimb(t, o)
  <2>1. h = hillClimb(t, o)
    OBVIOUS
  <2> HIDE DEF h
  <2>2. QED
    BY <2>1, HillClimbTravels
<1>3. QED
  BY <1>1, <1>2

\* The vehicle that is chosen for an order takes it.
LEMMA RealVehicleTakes ==
  ASSUME NEW fleet, Travelling(fleet), NEW k \in 1..Len(fleet), NEW o \in Order,
         NEW r, r = RealVehicleFor(fleet, k, o)
  PROVE  r.score # 0 => Takes(fleet, o, r.at)
<1> DEFINE n == Len(fleet)
           base == [score |-> 0, at |-> k]
           Step(best, l) == CheaperVehicle(fleet, o, best, l, Tried(fleet[l], o))
           Computes(f) == f = [l \in 0..n |-> IF l = 0 THEN base ELSE Step(f[l - 1], l)]
           found == CHOOSE f : Computes(f)
           X == [score : Int, at : Int]
           Fair == {b \in X : b.score # 0 => Takes(fleet, o, b.at)}
           G == [l \in 0..n |-> Fair]
<1>1. r = found[n]
  BY DEF RealVehicleFor, Iterated
<1>2. n \in Nat /\ k \in Int
  BY DEF Travelling
<1>3. base \in Fair
  BY <1>2
<1>4. ASSUME NEW l \in 1..n, NEW best \in Fair
      PROVE  Step(best, l) \in Fair
  <2> DEFINE tried == Tried(fleet[l], o)
             score == FleetObjective(fleet) + total_travel_time(tried)
                        - total_travel_time(fleet[l])
             cheaper == [score |-> score, at |-> l]
  <2>1. Travels(fleet[l])
    BY DEF Travelling
  <2>2. /\ Travels(tried)
        /\ has_order(tried, o) /\ ~has_order(fleet[l], o) =>
             ~is_phony(fleet[l]) /\ tried = hillClimb(fleet[l], o)
    BY <2>1, TriedTravels
  <2> HIDE DEF tried
  <2>3. total_travel_time(tried) \in Nat /\ total_travel_time(fleet[l]) \in Nat
    BY <2>1, <2>2, ObjectiveIsNatural DEF objective
  <2>4. FleetObjective(fleet) \in Nat
    BY FiguresAreNatural
  <2>5. score \in Int /\ l \in Int
    BY <1>2, <2>3, <2>4
  <2> HIDE DEF score
  <2>6. \/ Step(best, l) = best
        \/ /\ Step(best, l) = cheaper
           /\ has_order(tried, o) /\ ~has_order(fleet[l], o)
    BY DEF CheaperVehicle, tried, score
  <2>7. has_order(tried, o) /\ ~has_order(fleet[l], o) => cheaper \in Fair
    BY <2>2, <2>5 DEF Takes
  <2>8. QED
    BY <2>6, <2>7
<1>5. \A l \in 0..n : G[l] = Fair
  OBVIOUS
<1> HIDE DEF n, Fair, Step, base
<1>6. 0 \in 0..n /\ n \in 0..n /\ \A l \in 1..n : l \in 0..n /\ l - 1 \in 0..n /\ l # 0
  BY <1>2
<1>7. base \in G[0] /\ \A l \in 1..n : \A x \in G[l - 1] : Step(x, l) \in G[l]
  <2> HIDE DEF G
  <2>1. QED
    BY <1>3, <1>4, <1>5, <1>6
<1>8. \E f : Computes(f)
  <2> DEFINE step == [x \in Fair \X (1..n) |-> Step(x[1], x[2])]
  <2>1. \A l \in 1..n : \A x \in Fair : step[<<x, l>>] = Step(x, l)
    OBVIOUS
  <2> HIDE DEF G, step
  <2>2. \A l \in 1..n : \A x \in G[l - 1] : step[<<x, l>>] \in G[l]
    BY <1>5, <1>6, <1>7, <2>1
  <2>3. PICK f : Computed(n, base, step, f) /\ \A l \in 0..n : f[l] \in G[l]
    BY <1>2, <1>7, <2>2, StepsExist
  <2>4. \A l \in 0..n : l # 0 => l \in 1..n /\ f[l - 1] \in Fair
    BY <1>2, <1>5, <1>6, <2>3
  <2>5. Computes(f)
    BY <2>1, <2>3, <2>4 DEF Computed
  <2>6. QED
    BY <2>5
<1>9. \A l \in 0..n : found[l] = IF l = 0 THEN base ELSE Step(found[l - 1], l)
  BY <1>8
<1> HIDE DEF found
<1>10. found[n] \in Fair
  <2> HIDE DEF G
  <2>1. found[0] \in G[0] /\ \A l \in 1..n : found[l - 1] \in G[l - 1] => found[l] \in G[l]
    BY <1>6, <1>7, <1>9
  <2>2. \A l \in 0..n : found[l] \in G[l]
    BY <1>2, <2>1, StepsLead
  <2>3. QED
    BY <1>5, <1>6, <2>2
<1>11. QED
  BY <1>1, <1>10 DEF Fair

\* A vehicle that takes an order, not a pinned one, stays fit, and is feasible
\* with it.
LEMMA TakerFits ==
  ASSUME NEW t, Fit(call, t), NEW o \in Order, o \notin AllPinned(call), ~has_order(t, o),
         NEW u, u = hillClimb(t, o), has_order(u, o), ~is_phony(t)
  PROVE  Fit(call, u) /\ u.idx = t.idx /\ u.orders = t.orders \cup {o} /\ is_feasible(u)
<1>1. /\ Travels(t) /\ t.idx \in RealTrucks \cup {PhonyTruck} /\ HoldsPinned(call, t)
      /\ t.orders \cap AllPinned(call) = {}
  BY DEF Fit
<1>2. u # t
  OBVIOUS
<1>3. Travels(u) /\ SameVehicle(t, u) /\ u.orders = t.orders \cup {o} /\ is_feasible(u)
  BY <1>1, <1>2, HillClimbTravels
<1>4. t.idx \in Vehicles
  BY <1>1, VehiclesAre DEF is_phony
<1>5. HoldsPinned(call, u)
  <2> DEFINE v == t.idx
             wanted == WantedPath(call, v)
             fixed == Pinned(call, v)
  <2>1. o \notin fixed /\ o \notin t.orders
    BY <1>4 DEF AllPinned, has_order
  <2>2. Holding(t, wanted, fixed)
    BY <1>1 DEF HoldsPinned
  <2>3. u.idx = v
    BY <1>3 DEF SameVehicle
  <2> HIDE DEF wanted, fixed
  <2>4. Holding(u, wanted, fixed)
    BY <1>1, <2>1, <2>2, HillClimbHolds
  <2>5. QED
    BY <2>3, <2>4 DEF HoldsPinned, wanted, fixed
<1>6. u.orders \cap AllPinned(call) = {}
  BY <1>1, <1>3
<1>7. QED
  BY <1>1, <1>3, <1>5, <1>6 DEF Fit, SameVehicle, is_phony

\* A phony vehicle that loses its order is as new.
LEMMA PhonyEmptied ==
  ASSUME NEW t, Fit(call, t), is_phony(t), NEW o, o \in t.orders, NEW u, u = erase(t, o)
  PROVE  /\ o \in Order /\ t.orders = {o}
         /\ Fit(call, u) /\ is_feasible(u) /\ u.idx = PhonyTruck /\ u.orders = {}
<1>1. PhonyTruck \in Truck
  BY DataAssumption
<1> DEFINE new == NewTruck(PhonyTruck)
<1>2. Travels(new) /\ new.orders = {} /\ new.idx = PhonyTruck
  BY <1>1, NewTruckIntact, IntactTravels
<1>3. PICK a \in Order : t = push_back(new, a)
  BY <1>2 DEF Fit
<1>4. t.orders = {a} /\ erase(t, a) = new
  BY <1>1, <1>3, PushedAndErased
<1>5. o = a /\ u = new
  BY <1>4
<1>6. Fit(call, new) /\ is_feasible(new)
  BY <1>2, PhonyAssumption DEF Fit, is_phony
<1>7. QED
  BY <1>2, <1>4, <1>5, <1>6

\* A state of move_2_real: the vehicles, the orders that no real vehicle
\* serves, the best solution.
PlacingType ==
  [fleet : Seq(VehicleType), left : SUBSET Order, best : Seq(VehicleType)]

\* One order finds a place, or none.
LEMMA PlacedOne ==
  ASSUME NEW s \in PlacingType, Sound(call, s.fleet), FleetFeasible(s.fleet),
         s.left = PhonyOrders(s.fleet),
         NEW k \in 1..Len(s.fleet), is_phony(s.fleet[k]), NEW o \in s.fleet[k].orders,
         NEW best, best.score # 0 => Takes(s.fleet, o, best.at),
         NEW r, r = PlaceOnReal(s, k, o, best)
  PROVE  \/ r = s
         \/ /\ r \in PlacingType /\ Sound(call, r.fleet) /\ FleetFeasible(r.fleet)
            /\ Len(r.fleet) = Len(s.fleet) /\ OrdersOn(r.fleet) = OrdersOn(s.fleet)
            /\ Aboard(r.fleet) = Aboard(s.fleet)
            /\ r.left = PhonyOrders(r.fleet)
            /\ o \in s.left /\ r.left = s.left \ {o}
            /\ r.best = r.fleet
            /\ \A j \in 1..Len(s.fleet) :
                 j # k /\ is_phony(s.fleet[j]) => r.fleet[j] = s.fleet[j]
<1> DEFINE F == s.fleet
           b == best.at
           x == erase(F[k], o)
           y == hillClimb(F[b], o)
           g == [F EXCEPT ![k] = erase(@, o), ![b] = hillClimb(@, o)]
<1>1. F \in Seq(VehicleType) /\ s.left \in SUBSET Order
  BY DEF PlacingType
<1>2. CASE best.score = 0
  BY <1>2 DEF PlaceOnReal
<1>3. CASE best.score # 0
  <2>1. r = [fleet |-> g, left |-> s.left \ {o}, best |-> g]
    BY <1>3 DEF PlaceOnReal
  <2>2. /\ b \in 1..Len(F) /\ ~is_phony(F[b]) /\ ~has_order(F[b], o) /\ has_order(y, o)
    BY <1>3 DEF Takes
  <2>3. b # k
    BY <2>2
  <2>4. Fit(call, F[k]) /\ Fit(call, F[b])
    BY <2>2 DEF Sound
  <2>5. /\ o \in Order /\ F[k].orders = {o}
        /\ Fit(call, x) /\ is_feasible(x) /\ x.idx = PhonyTruck /\ x.orders = {}
    BY <2>4, PhonyEmptied
  <2>6. Fit(call, y) /\ y.idx = F[b].idx /\ y.orders = F[b].orders \cup {o} /\ is_feasible(y)
    <3>1. o \notin AllPinned(call)
      BY <2>4 DEF Fit
    <3>2. QED
      BY <2>2, <2>4, <2>5, <3>1, TakerFits
  <2> HIDE DEF x, y
  <2>7. x \in VehicleType /\ y \in VehicleType
    BY <2>5, <2>6 DEF Fit, Travels
  <2>8. Replaced(F, g, k, b, x, y)
    <3>1. g = [F EXCEPT ![k] = x, ![b] = y]
      BY <1>1, <2>2, <2>3 DEF x, y
    <3>2. QED
      BY <1>1, <2>2, <2>3, <2>7, <3>1 DEF Replaced
  <2>9. F[k].idx = PhonyTruck
    BY DEF is_phony
  <2>10. x.orders \cap y.orders = {} /\ x.orders \cup y.orders = F[k].orders \cup F[b].orders
    BY <2>5, <2>6
  <2> HIDE DEF g, b, F
  <2>11. /\ Sound(call, g) /\ OrdersOn(g) = OrdersOn(F) /\ FleetFeasible(g)
         /\ Aboard(g) = Aboard(F)
         /\ PhonyOrders(g) = (PhonyOrders(F) \ F[k].orders) \cup x.orders
    <3>1. /\ Sound(call, F) /\ FleetFeasible(F) /\ is_phony(F[k]) /\ ~is_phony(F[b])
          /\ k \in 1..Len(F) /\ b \in 1..Len(F) /\ k # b
      BY <2>2, <2>3 DEF F
    <3>2. /\ Fit(call, x) /\ Fit(call, y) /\ is_feasible(x) /\ is_feasible(y)
          /\ x.idx = F[k].idx /\ y.idx = F[b].idx
      BY <2>5, <2>6, <2>9
    <3>3. /\ x.orders \cap y.orders = {} /\ x.orders \cup y.orders = F[k].orders \cup F[b].orders
          /\ Replaced(F, g, k, b, x, y)
      BY <2>8, <2>10
    <3>4. QED
      BY <3>1, <3>2, <3>3, ReplacedSound, SMTT(60)
  <2>12. PhonyOrders(g) = s.left \ {o}
    BY <2>5, <2>11 DEF F
  <2>13. o \in s.left
    <3>1. s.fleet \in Seq(VehicleType)
      BY <1>1 DEF F
    <3>2. QED
      BY <3>1, OrdersByPosition
  <2>14. /\ g \in Seq(VehicleType) /\ Len(g) = Len(F)
         /\ \A j \in 1..Len(F) : j # k /\ is_phony(F[j]) => g[j] = F[j]
    BY <2>2, <2>8 DEF Replaced
  <2>15. r.fleet = g /\ r.left = s.left \ {o} /\ r.best = g
    BY <2>1
  <2>16. r \in PlacingType
    BY <1>1, <2>1, <2>14 DEF PlacingType
  <2>17. QED
    BY <2>11, <2>12, <2>13, <2>14, <2>15, <2>16 DEF F
<1>4. QED
  BY <1>2, <1>3

\* The places that move_2_real visits can be counted.
LEMMA PlacesAre ==
  ASSUME NEW fleet \in Seq(VehicleType)
  PROVE  /\ IsFiniteSet(PhonyPlaces(fleet)) /\ PhonyPlaces(fleet) \in SUBSET [1..2 -> Nat]
         /\ \A c \in PhonyPlaces(fleet) :
              /\ c[1] \in 1..Len(fleet) /\ c[2] \in Order
              /\ is_phony(fleet[c[1]]) /\ c[2] \in fleet[c[1]].orders
         /\ \A c, d \in PhonyPlaces(fleet) : c[1] = d[1] /\ c[2] = d[2] => c = d
<1> DEFINE n == Len(fleet)
           P == PhonyPlaces(fleet)
<1>1. n \in Nat /\ DOMAIN fleet = 1..n
  OBVIOUS
<1>2. Order \in SUBSET Nat /\ IsFiniteSet(Order)
  BY DataAssumption
<1>3. P \subseteq (1..n) \X Order
  BY <1>1 DEF PhonyPlaces
<1>4. IsFiniteSet(P)
  <2>1. IsFiniteSet(1..n)
    BY <1>1, FS_Interval
  <2>2. IsFiniteSet((1..n) \X Order)
    BY <1>2, <2>1, FS_Product
  <2>3. QED
    BY <1>3, <2>2, FS_Subset
<1>5. \A c \in P : /\ is_phony(fleet[c[1]]) /\ c[2] \in fleet[c[1]].orders
  BY DEF PhonyPlaces, has_order
<1> HIDE DEF P
<1>6. \A c \in P : c[1] \in 1..n /\ c[2] \in Order /\ c = <<c[1], c[2]>>
  BY <1>3
<1>7. P \in SUBSET [1..2 -> Nat]
  <2>1. \A a, c \in Nat : <<a, c>> \in [1..2 -> Nat]
    OBVIOUS
  <2>2. \A c \in P : c[1] \in Nat /\ c[2] \in Nat
    BY <1>1, <1>2, <1>6
  <2>3. QED
    BY <1>6, <2>1, <2>2
<1>8. QED
  BY <1>4, <1>5, <1>6, <1>7 DEF P

\* move_2_real does nothing, or it leaves a solution of the same orders, fewer
\* of them on phony vehicles, as the current and the best one.
PlacedWell(r) ==
  /\ r \in PlacingType /\ Sound(call, r.fleet) /\ FleetFeasible(r.fleet)
  /\ OrdersOn(r.fleet) = OrdersOn(m_fleet) /\ Aboard(r.fleet) = Aboard(m_fleet)
  /\ r.left = PhonyOrders(r.fleet)
  /\ r.left \subseteq m_unassignedOrders /\ r.left # m_unassignedOrders
  /\ r.best = r.fleet

\* That is what it does.
LEMMA PlacedIs ==
  ASSUME Sound(call, m_fleet), FleetFeasible(m_fleet), best_solution \in Seq(VehicleType),
         m_unassignedOrders = PhonyOrders(m_fleet), m_unassignedOrders \in SUBSET Order,
         NEW r, r = Placed
  PROVE  \/ r = [fleet |-> m_fleet, left |-> m_unassignedOrders, best |-> best_solution]
         \/ PlacedWell(r)
<1> DEFINE F == m_fleet
           U == m_unassignedOrders
           base == [fleet |-> F, left |-> U, best |-> best_solution]
           places == PhonyPlaces(F)
           seq == InOrder(places)
           n == Len(seq)
           Step(s, m) == PlaceOnReal(s, seq[m][1], seq[m][2],
                                     RealVehicleFor(s.fleet, seq[m][1], seq[m][2]))
           Computes(f) == f = [m \in 0..n |-> IF m = 0 THEN base ELSE Step(f[m - 1], m)]
           found == CHOOSE f : Computes(f)
<1>1. CASE are_all_served
  BY <1>1 DEF are_all_served, Placed
<1>2. CASE ~are_all_served
  <2>1. r = found[n]
    BY <1>2 DEF Placed, Visiting, Iterated
  <2>2. F \in Seq(VehicleType)
    BY DEF Sound
  <2>3. /\ IsFiniteSet(places) /\ places \in SUBSET [1..2 -> Nat]
        /\ \A c \in places : /\ c[1] \in 1..Len(F) /\ c[2] \in Order
                             /\ is_phony(F[c[1]]) /\ c[2] \in F[c[1]].orders
        /\ \A c, d \in places : c[1] = d[1] /\ c[2] = d[2] => c = d
    BY <2>2, PlacesAre
  <2> HIDE DEF places
  <2>4. Visits(seq, places, Cardinality(places))
    BY <2>3, InOrderIs
  <2>5. /\ n \in Nat /\ \A m \in 1..n : seq[m] \in places
        /\ \A l, j \in 1..n : seq[l] = seq[j] => l = j
    BY <2>4 DEF Visits
  <2> DEFINE Keeps(s) == /\ Sound(call, s.fleet) /\ FleetFeasible(s.fleet)
                         /\ Len(s.fleet) = Len(F) /\ OrdersOn(s.fleet) = OrdersOn(F)
                         /\ Aboard(s.fleet) = Aboard(F)
                         /\ s.left = PhonyOrders(s.fleet)
                         /\ \/ s = base
                            \/ s.left \subseteq U /\ s.left # U /\ s.best = s.fleet
             Ahead(s, m) == \A j \in 1..n : j > m =>
                              /\ is_phony(s.fleet[seq[j][1]])
                              /\ seq[j][2] \in s.fleet[seq[j][1]].orders
             G == [m \in 0..n |-> {s \in PlacingType : Keeps(s) /\ Ahead(s, m)}]
  <2>6. base \in PlacingType /\ base.fleet = F /\ base.left = U
    BY <2>2 DEF PlacingType
  <2>7. Keeps(base) /\ Ahead(base, 0)
    <3>1. Keeps(base)
      BY <2>6
    <3>2. Ahead(base, 0)
      BY <2>3, <2>5, <2>6
    <3>3. QED
      BY <3>1, <3>2
  <2>8. ASSUME NEW m \in 1..n, NEW s \in PlacingType, Keeps(s), Ahead(s, m - 1)
        PROVE  Step(s, m) \in PlacingType /\ Keeps(Step(s, m)) /\ Ahead(Step(s, m), m)
    <3> DEFINE k == seq[m][1]
               o == seq[m][2]
               best == RealVehicleFor(s.fleet, k, o)
               t == PlaceOnReal(s, k, o, best)
    <3>1. m \in 1..n /\ m > m - 1 /\ seq[m] \in places
      BY <2>5
    <3>2. /\ k \in 1..Len(s.fleet) /\ o \in Order
          /\ is_phony(s.fleet[k]) /\ o \in s.fleet[k].orders
      BY <2>3, <2>8, <3>1
    <3>3. Travelling(s.fleet)
      BY <2>8, SoundTravels
    <3> HIDE DEF k, o
    <3>4. best.score # 0 => Takes(s.fleet, o, best.at)
      BY <3>2, <3>3, RealVehicleTakes
    <3> HIDE DEF best
    <3>5. Sound(call, s.fleet) /\ FleetFeasible(s.fleet) /\ s.left = PhonyOrders(s.fleet)
      BY <2>8
    <3>6. \/ t = s
          \/ /\ t \in PlacingType /\ Sound(call, t.fleet) /\ FleetFeasible(t.fleet)
             /\ Len(t.fleet) = Len(s.fleet) /\ OrdersOn(t.fleet) = OrdersOn(s.fleet)
             /\ Aboard(t.fleet) = Aboard(s.fleet)
             /\ t.left = PhonyOrders(t.fleet)
             /\ o \in s.left /\ t.left = s.left \ {o}
             /\ t.best = t.fleet
             /\ \A j \in 1..Len(s.fleet) :
                  j # k /\ is_phony(s.fleet[j]) => t.fleet[j] = s.fleet[j]
      BY <3>2, <3>4, <3>5, PlacedOne, SMTT(60)
    <3>7. Step(s, m) = t
      BY DEF k, o, best
    <3> HIDE DEF t, Step
    <3>8. \A j \in 1..n : j > m => j > m - 1 /\ j # m
      BY <2>5
    <3>9. CASE t = s
      <4>1. Ahead(s, m)
        BY <2>8, <3>8
      <4>2. QED
        BY <2>8, <3>7, <3>9, <4>1
    <3>10. CASE t # s
      <4>1. Keeps(t)
        <5>1. s.left \subseteq U
          BY <2>6, <2>8
        <5>2. t.left \subseteq U /\ t.left # U
          BY <3>6, <3>10, <5>1
        <5>3. QED
          BY <2>8, <3>6, <3>10, <5>2
      <4>2. ASSUME NEW j \in 1..n, j > m
            PROVE  /\ is_phony(t.fleet[seq[j][1]])
                   /\ seq[j][2] \in t.fleet[seq[j][1]].orders
        <5> DEFINE l == seq[j][1]
                   a == seq[j][2]
        <5>1. /\ j # m /\ seq[j] \in places /\ seq[j] # seq[m]
              /\ is_phony(s.fleet[l]) /\ a \in s.fleet[l].orders
          BY <2>5, <2>8, <3>1, <3>8, <4>2
        <5>2. l \in 1..Len(s.fleet)
          BY <2>3, <2>8, <5>1
        <5>3. Fit(call, s.fleet[l]) /\ Fit(call, s.fleet[k])
          BY <3>2, <3>5, <5>2 DEF Sound
        <5>4. l # k
          <6>1. ASSUME l = k
                PROVE  FALSE
            <7>1. s.fleet[k].orders = {o}
              <8> DEFINE v == s.fleet[k]
              <8>1. Fit(call, v) /\ is_phony(v) /\ o \in v.orders
                BY <3>2, <5>3
              <8> HIDE DEF v
              <8>2. v.orders = {o}
                BY <8>1, PhonyEmptied
              <8>3. QED
                BY <8>2 DEF v
            <7>2. a = o
              BY <5>1, <6>1, <7>1
            <7>3. QED
              BY <2>3, <3>1, <5>1, <6>1, <7>2 DEF k, o
          <6>2. QED
            BY <6>1
        <5>5. t.fleet[l] = s.fleet[l]
          BY <3>6, <3>10, <5>1, <5>2, <5>4
        <5>6. QED
          BY <5>1, <5>5
      <4>3. QED
        BY <3>6, <3>7, <3>10, <4>1, <4>2
    <3>11. QED
      BY <3>9, <3>10
  <2>9. \A m \in 0..n : G[m] = {s \in PlacingType : Keeps(s) /\ Ahead(s, m)}
    OBVIOUS
  <2> HIDE DEF n, Keeps, Ahead, Step, base
  <2>10. 0 \in 0..n /\ n \in 0..n /\ \A m \in 1..n : m \in 0..n /\ m - 1 \in 0..n /\ m # 0
    BY <2>5
  <2>11. base \in G[0] /\ \A m \in 1..n : \A s \in G[m - 1] : Step(s, m) \in G[m]
    <3> HIDE DEF G
    <3>1. \A m \in 1..n : \A s \in PlacingType : Keeps(s) /\ Ahead(s, m - 1) =>
            Step(s, m) \in PlacingType /\ Keeps(Step(s, m)) /\ Ahead(Step(s, m), m)
      BY <2>8
    <3>2. QED
      BY <2>6, <2>7, <2>9, <2>10, <3>1
  <2>12. \E f : Computes(f)
    <3> DEFINE step == [x \in PlacingType \X (1..n) |-> Step(x[1], x[2])]
    <3>1. \A m \in 1..n : \A x \in PlacingType : step[<<x, m>>] = Step(x, m)
      OBVIOUS
    <3>2. \A m \in 0..n : G[m] \subseteq PlacingType
      BY <2>9
    <3> HIDE DEF G, step
    <3>3. \A m \in 1..n : \A x \in G[m - 1] : step[<<x, m>>] \in G[m]
      BY <2>10, <2>11, <3>1, <3>2
    <3>4. PICK f : Computed(n, base, step, f) /\ \A m \in 0..n : f[m] \in G[m]
      BY <2>5, <2>11, <3>3, StepsExist
    <3>5. \A m \in 0..n : m # 0 => m \in 1..n /\ f[m - 1] \in PlacingType
      BY <2>5, <2>10, <3>2, <3>4
    <3>6. Computes(f)
      BY <3>1, <3>4, <3>5 DEF Computed
    <3>7. QED
      BY <3>6
  <2>13. \A m \in 0..n : found[m] = IF m = 0 THEN base ELSE Step(found[m - 1], m)
    BY <2>12
  <2> HIDE DEF found
  <2>14. found[n] \in G[n]
    <3> HIDE DEF G
    <3>1. found[0] \in G[0] /\ \A m \in 1..n : found[m - 1] \in G[m - 1] => found[m] \in G[m]
      BY <2>10, <2>11, <2>13
    <3>2. \A m \in 0..n : found[m] \in G[m]
      BY <2>5, <3>1, StepsLead
    <3>3. QED
      BY <2>10, <3>2
  <2>15. r \in PlacingType /\ Keeps(r)
    BY <2>1, <2>9, <2>10, <2>14
  <2>16. QED
    BY <2>15 DEF PlacedWell, Keeps, base
<1>3. QED
  BY <1>1, <1>2

(***************************************************************************)
(* The neighbourhoods.                                                     *)
(***************************************************************************)

\* The candidates of single_pair_insertion can be counted.
LEMMA InsertionsAre ==
  ASSUME NEW f \in Seq(VehicleType)
  PROVE  /\ IsFiniteSet(Insertions(f)) /\ Insertions(f) \in SUBSET [1..3 -> Nat]
         /\ \A c \in Insertions(f) :
              /\ c[1] \in 1..Len(f) /\ c[2] \in Order /\ c[3] \in 1..Len(f) /\ c[1] # c[3]
              /\ ~is_phony(f[c[1]]) /\ ~is_phony(f[c[3]]) /\ c[2] \in f[c[1]].orders
<1> DEFINE n == Len(f)
           P == Insertions(f)
           All == (1..n) \X Order \X (1..n)
           Pairs == ((1..n) \X Order) \X (1..n)
<1>1. n \in Nat /\ DOMAIN f = 1..n
  OBVIOUS
<1>2. Order \in SUBSET Nat /\ IsFiniteSet(Order)
  BY DataAssumption
<1>3. P \subseteq All
  BY <1>1 DEF Insertions
<1>4. \A c \in P : /\ c[1] # c[3] /\ ~is_phony(f[c[1]]) /\ ~is_phony(f[c[3]])
                   /\ c[2] \in f[c[1]].orders
  BY DEF Insertions
<1> HIDE DEF P, n
<1>5. \A c \in All : /\ c[1] \in 1..n /\ c[2] \in Order /\ c[3] \in 1..n
                     /\ c = <<c[1], c[2], c[3]>>
  OBVIOUS
<1>6. IsFiniteSet(P)
  <2> DEFINE inj == [c \in All |-> <<<<c[1], c[2]>>, c[3]>>]
  <2>1. IsFiniteSet(1..n)
    BY <1>1, FS_Interval
  <2>2. IsFiniteSet((1..n) \X Order)
    BY <1>2, <2>1, FS_Product
  <2>3. IsFiniteSet(Pairs)
    BY <2>1, <2>2, FS_Product
  <2>4. inj \in [All -> Pairs]
    BY <1>5
  <2>5. ASSUME NEW c \in All, NEW d \in All, inj[c] = inj[d]
        PROVE  c = d
    <3>1. <<<<c[1], c[2]>>, c[3]>> = <<<<d[1], d[2]>>, d[3]>>
      BY <2>5
    <3>2. c[1] = d[1] /\ c[2] = d[2] /\ c[3] = d[3]
      BY <3>1
    <3>3. QED
      BY <1>5, <3>2
  <2> HIDE DEF inj, All, Pairs
  <2>6. inj \in Injection(All, Pairs)
    BY <2>4, <2>5 DEF Injection, IsInjective
  <2>7. IsFiniteSet(All)
    BY <2>3, <2>6, FS_Injection
  <2>8. QED
    BY <1>3, <2>7, FS_Subset
<1>7. P \in SUBSET [1..3 -> Nat]
  <2>1. \A a, b, c \in Nat : <<a, b, c>> \in [1..3 -> Nat]
    OBVIOUS
  <2>2. 1..n \subseteq Nat /\ Order \subseteq Nat
    BY <1>1, <1>2
  <2> HIDE DEF All
  <2>3. \A c \in P : c[1] \in Nat /\ c[2] \in Nat /\ c[3] \in Nat
    BY <1>3, <1>5, <2>2
  <2>4. QED
    BY <1>3, <1>5, <2>1, <2>3
<1>8. QED
  BY <1>3, <1>4, <1>5, <1>6, <1>7 DEF P, n

\* The candidates of swap_between_routes can be counted.
LEMMA ExchangesAre ==
  ASSUME NEW f \in Seq(VehicleType)
  PROVE  /\ IsFiniteSet(Exchanges(f)) /\ Exchanges(f) \in SUBSET [1..4 -> Nat]
         /\ \A c \in Exchanges(f) :
              /\ c[1] \in 1..Len(f) /\ c[2] \in Order /\ c[3] \in 1..Len(f) /\ c[4] \in Order
              /\ c[1] # c[3] /\ ~is_phony(f[c[1]]) /\ ~is_phony(f[c[3]])
              /\ c[2] \in f[c[1]].orders /\ c[4] \in f[c[3]].orders
<1> DEFINE n == Len(f)
           P == Exchanges(f)
           All == (1..n) \X Order \X (1..n) \X Order
           Half == (1..n) \X Order
           Pairs == Half \X Half
<1>1. n \in Nat /\ DOMAIN f = 1..n
  OBVIOUS
<1>2. Order \in SUBSET Nat /\ IsFiniteSet(Order)
  BY DataAssumption
<1>3. P \subseteq All
  BY <1>1 DEF Exchanges
<1>4. \A c \in P : /\ c[1] < c[3] /\ ~is_phony(f[c[1]]) /\ ~is_phony(f[c[3]])
                   /\ c[2] \in f[c[1]].orders /\ c[4] \in f[c[3]].orders
  BY DEF Exchanges
<1> HIDE DEF P, n
<1>5. \A c \in All : /\ c[1] \in 1..n /\ c[2] \in Order /\ c[3] \in 1..n /\ c[4] \in Order
                     /\ c = <<c[1], c[2], c[3], c[4]>>
  OBVIOUS
<1>6. IsFiniteSet(P)
  <2> DEFINE inj == [c \in All |-> <<<<c[1], c[2]>>, <<c[3], c[4]>>>>]
  <2>1. IsFiniteSet(1..n)
    BY <1>1, FS_Interval
  <2>2. IsFiniteSet(Half)
    BY <1>2, <2>1, FS_Product
  <2>3. IsFiniteSet(Pairs)
    BY <2>2, FS_Product
  <2>4. inj \in [All -> Pairs]
    BY <1>5
  <2>5. ASSUME NEW c \in All, NEW d \in All, inj[c] = inj[d]
        PROVE  c = d
    <3>1. <<<<c[1], c[2]>>, <<c[3], c[4]>>>> = <<<<d[1], d[2]>>, <<d[3], d[4]>>>>
      BY <2>5
    <3>2. c[1] = d[1] /\ c[2] = d[2] /\ c[3] = d[3] /\ c[4] = d[4]
      BY <3>1
    <3>3. QED
      BY <1>5, <3>2
  <2> HIDE DEF inj, All, Pairs
  <2>6. inj \in Injection(All, Pairs)
    BY <2>4, <2>5 DEF Injection, IsInjective
  <2>7. IsFiniteSet(All)
    BY <2>3, <2>6, FS_Injection
  <2>8. QED
    BY <1>3, <2>7, FS_Subset
<1>7. P \in SUBSET [1..4 -> Nat]
  <2>1. \A a, b, c, d \in Nat : <<a, b, c, d>> \in [1..4 -> Nat]
    OBVIOUS
  <2>2. 1..n \subseteq Nat /\ Order \subseteq Nat
    BY <1>1, <1>2
  <2> HIDE DEF All
  <2>3. \A c \in P : c[1] \in Nat /\ c[2] \in Nat /\ c[3] \in Nat /\ c[4] \in Nat
    BY <1>3, <1>5, <2>2
  <2>4. QED
    BY <1>3, <1>5, <2>1, <2>3
<1>8. \A c \in P : c[1] # c[3]
  BY <1>1, <1>3, <1>4, <1>5
<1>9. QED
  BY <1>3, <1>4, <1>5, <1>6, <1>7, <1>8 DEF P, n

\* What the lists of candidates hold: a route and an order.
Keys == {path_str(t) : t \in VehicleType} \X Order

\* A real vehicle without one of its orders is fit.
LEMMA GiverFits ==
  ASSUME NEW t, Fit(call, t), ~is_phony(t), NEW o \in Order, o \in t.orders,
         NEW u, u = erase(t, o)
  PROVE  /\ Fit(call, u) /\ u.idx = t.idx /\ u.orders = t.orders \ {o}
         /\ o \notin AllPinned(call)
<1>1. /\ Travels(t) /\ t.idx \in RealTrucks \cup {PhonyTruck} /\ HoldsPinned(call, t)
      /\ t.orders \cap AllPinned(call) = {}
  BY DEF Fit
<1>2. Travels(u) /\ SameVehicle(t, u) /\ u.orders = t.orders \ {o}
  BY <1>1, EraseTravels
<1>3. t.idx \in Vehicles
  BY <1>1, VehiclesAre DEF is_phony
<1>4. HoldsPinned(call, u)
  <2> DEFINE v == t.idx
             wanted == WantedPath(call, v)
             fixed == Pinned(call, v)
  <2>1. o \notin fixed
    BY <1>1, <1>3 DEF AllPinned
  <2>2. Holding(t, wanted, fixed)
    BY <1>1 DEF HoldsPinned
  <2>3. u.idx = v
    BY <1>2 DEF SameVehicle
  <2>4. t \in VehicleType /\ Coherent(t.idx, t.path)
    BY <1>1 DEF Travels
  <2> HIDE DEF wanted, fixed
  <2>5. Holding(u, wanted, fixed)
    BY <2>1, <2>2, <2>4, EraseHolds
  <2>6. QED
    BY <2>3, <2>5 DEF HoldsPinned, wanted, fixed
<1>5. u.orders \cap AllPinned(call) = {} /\ o \notin AllPinned(call)
  BY <1>1, <1>2
<1>6. QED
  BY <1>1, <1>2, <1>4, <1>5 DEF Fit, SameVehicle, is_phony

\* After an insertion all vehicles travel; when it is good, it leads to a
\* solution of the same orders.
LEMMA InsertedIs ==
  ASSUME NEW f, Sound(call, f), FleetFeasible(f), NEW c \in Insertions(f),
         NEW g, g = Inserted(f, c)
  PROVE  /\ Travelling(g) /\ Len(g) = Len(f)
         /\ g[c[1]].idx = f[c[1]].idx
         /\ is_feasible(g[c[1]]) /\ has_order(g[c[3]], c[2]) =>
              Sound(call, g) /\ FleetFeasible(g) /\ SameOrders(g, f)
<1> DEFINE a == c[1]
           b == c[3]
           o == c[2]
           x == erase(f[a], o)
           y == hillClimb(f[b], o)
<1>1. f \in Seq(VehicleType) /\ \A k \in 1..Len(f) : Fit(call, f[k])
  BY DEF Sound
<1>2. /\ a \in 1..Len(f) /\ b \in 1..Len(f) /\ a # b /\ o \in Order
      /\ ~is_phony(f[a]) /\ ~is_phony(f[b]) /\ o \in f[a].orders
  BY <1>1, InsertionsAre
<1>3. ~has_order(f[b], o)
  <2>1. f[a].orders \cap f[b].orders = {}
    BY <1>1, <1>2, OrdersByPosition DEF Sound
  <2>2. QED
    BY <1>2, <2>1 DEF has_order
<1>4. g = [f EXCEPT ![a] = x, ![b] = y]
  BY <1>1, <1>2 DEF Inserted
<1>5. Fit(call, f[a]) /\ Fit(call, f[b])
  BY <1>1, <1>2
<1> HIDE DEF a, b, o
<1>6. /\ Fit(call, x) /\ x.idx = f[a].idx /\ x.orders = f[a].orders \ {o}
      /\ o \notin AllPinned(call)
  BY <1>2, <1>5, GiverFits
<1>7. Travels(y)
  BY <1>2, <1>5, HillClimbTravels DEF Fit
<1>8. has_order(y, o) =>
        Fit(call, y) /\ y.idx = f[b].idx /\ y.orders = f[b].orders \cup {o} /\ is_feasible(y)
  BY <1>2, <1>3, <1>5, <1>6, TakerFits
<1> HIDE DEF x, y
<1>9. x \in VehicleType /\ y \in VehicleType /\ Travels(x)
  BY <1>6, <1>7 DEF Fit, Travels
<1>10. Replaced(f, g, a, b, x, y)
  BY <1>1, <1>2, <1>4, <1>9 DEF Replaced
<1>11. /\ g \in Seq(VehicleType) /\ Len(g) = Len(f) /\ g[a] = x /\ g[b] = y
       /\ \A k \in 1..Len(f) : k # a /\ k # b => g[k] = f[k]
  BY <1>10 DEF Replaced
<1>12. Travelling(g)
  <2>1. \A k \in 1..Len(f) : Travels(g[k])
    BY <1>1, <1>7, <1>9, <1>11 DEF Fit
  <2>2. QED
    BY <1>11, <2>1 DEF Travelling
<1>13. ASSUME is_feasible(x), has_order(y, o)
       PROVE  Sound(call, g) /\ FleetFeasible(g) /\ SameOrders(g, f)
  <2>1. Fit(call, y) /\ y.idx = f[b].idx /\ y.orders = f[b].orders \cup {o} /\ is_feasible(y)
    BY <1>8, <1>13
  <2>2. f[a].orders \cap f[b].orders = {}
    BY <1>1, <1>2, OrdersByPosition DEF Sound
  <2>3. x.orders \cap y.orders = {} /\ x.orders \cup y.orders = f[a].orders \cup f[b].orders
    BY <1>2, <1>6, <2>1, <2>2
  <2>4. Sound(call, g) /\ OrdersOn(g) = OrdersOn(f) /\ FleetFeasible(g)
        /\ PhonyOrders(g) = PhonyOrders(f) /\ Aboard(g) = Aboard(f)
    BY <1>2, <1>6, <1>10, <1>13, <2>1, <2>3, ReplacedSound
  <2>5. QED
    BY <2>4 DEF SameOrders
<1>14. QED
  BY <1>6, <1>11, <1>12, <1>13 DEF a, b, o

\* An insertion that the search may choose: the vehicles it leads to are
\* feasible, and it is not tabu, or better than the best solution, or empties
\* a vehicle.
GoodInsertion(f, c) ==
  LET g == Inserted(f, c)
  IN  /\ is_feasible(g[c[1]]) /\ has_order(g[c[3]], c[2])
      /\ \/ ~has_move(tabu_list, f[c[1]].idx, f[c[3]].idx, c[2])
         \/ FleetObjective(g) < FleetObjective(best_solution)
         \/ empty(g[c[1]])

\* What a search through candidates has found so far.
FoundType(candidates) ==
  [score : Nat, choice : {<<>>} \cup {<<c>> : c \in candidates}, refused : SUBSET Keys]

\* The search with one candidate refused or chosen.
WithRefused(acc, key) == [acc EXCEPT !.refused = @ \cup {key}]
WithChosen(acc, score, c) == [acc EXCEPT !.score = score, !.choice = <<c>>]

\* Another candidate is refused.
LEMMA RefusedOne ==
  ASSUME NEW candidates, NEW acc \in FoundType(candidates), NEW key \in Keys,
         NEW r, r = WithRefused(acc, key)
  PROVE  r \in FoundType(candidates) /\ r.choice = acc.choice
  BY DEF FoundType, WithRefused

\* Another candidate is chosen.
LEMMA ChosenOne ==
  ASSUME NEW candidates, NEW acc \in FoundType(candidates), NEW c \in candidates,
         NEW score \in Nat,
         NEW r, r = WithChosen(acc, score, c)
  PROVE  r \in FoundType(candidates) /\ r.choice = <<c>>
  BY DEF FoundType, WithChosen

\* A step of the search for the best insertion.
LEMMA InsertionWeighed ==
  ASSUME NEW f, Sound(call, f), FleetFeasible(f), NEW c \in Insertions(f), NEW diversify,
         NEW acc \in FoundType(Insertions(f)),
         NEW r, r = WeighInsertion(f, diversify, acc, c, InsertionKey(f, c), Inserted(f, c))
  PROVE  /\ r \in FoundType(Insertions(f))
         /\ r.choice = acc.choice \/ (r.choice = <<c>> /\ GoodInsertion(f, c))
<1> DEFINE g == Inserted(f, c)
           key == InsertionKey(f, c)
           score == FleetObjective(g)
           refused == WithRefused(acc, key)
           chosen == WithChosen(acc, score, c)
<1>1. f \in Seq(VehicleType)
  BY DEF Sound
<1>2. c[3] \in 1..Len(f) /\ c[2] \in Order
  BY <1>1, InsertionsAre
<1>3. key \in Keys
  BY <1>1, <1>2 DEF InsertionKey, Keys
<1>4. Travelling(g)
  BY InsertedIs
<1>5. score \in Nat
  BY <1>4, FiguresAreNatural
<1>6. \/ r = acc
      \/ r = refused
      \/ /\ r = chosen
         /\ has_order(g[c[3]], c[2]) /\ InsertionIsBetter(f, c, g, score, acc.score)
  BY DEF WeighInsertion, WithRefused, WithChosen
<1>7. InsertionIsBetter(f, c, g, score, acc.score) /\ has_order(g[c[3]], c[2]) =>
        GoodInsertion(f, c)
  BY DEF InsertionIsBetter, GoodInsertion
<1> HIDE DEF score, key, g
<1>8. refused \in FoundType(Insertions(f)) /\ refused.choice = acc.choice
  BY <1>3, RefusedOne
<1>9. chosen \in FoundType(Insertions(f)) /\ chosen.choice = <<c>>
  BY <1>5, ChosenOne
<1> HIDE DEF refused, chosen
<1>10. QED
  BY <1>6, <1>7, <1>8, <1>9

\* Nothing is found before the search.
LEMMA NothingFoundIs ==
  ASSUME NEW f, Sound(call, f), infeasible_list \in SUBSET Keys, NEW intensify,
         NEW candidates, NEW r, r = NothingFound(f, intensify)
  PROVE  r \in FoundType(candidates) /\ r.choice = <<>>
<1>1. FleetObjective(f) \in Nat
  BY SoundTravels, FiguresAreNatural
<1>2. QED
  BY <1>1 DEF NothingFound, FoundType

\* The search for the best insertion finds a good one or none.
LEMMA BestInsertionIs ==
  ASSUME NEW f, Sound(call, f), FleetFeasible(f), infeasible_list \in SUBSET Keys,
         NEW intensify, NEW diversify, NEW r, r = BestInsertion(f, intensify, diversify)
  PROVE  /\ r \in FoundType(Insertions(f))
         /\ \/ r.choice = <<>>
            \/ \E c \in Insertions(f) : r.choice = <<c>> /\ GoodInsertion(f, c)
<1> DEFINE candidates == Insertions(f)
           base == NothingFound(f, intensify)
           seq == InOrder(candidates)
           n == Len(seq)
           Step(acc, m) == WeighInsertion(f, diversify, acc, seq[m], InsertionKey(f, seq[m]),
                                          Inserted(f, seq[m]))
           Computes(h) == h = [m \in 0..n |-> IF m = 0 THEN base ELSE Step(h[m - 1], m)]
           found == CHOOSE h : Computes(h)
           Well(acc) == \/ acc.choice = <<>>
                        \/ \E c \in candidates : acc.choice = <<c>> /\ GoodInsertion(f, c)
           Fair == {acc \in FoundType(candidates) : Well(acc)}
           G == [m \in 0..n |-> Fair]
<1>1. r = found[n]
  BY DEF BestInsertion, Visiting, Iterated
<1>2. n \in Nat /\ \A m \in 1..n : seq[m] \in candidates
  <2>1. f \in Seq(VehicleType)
    BY DEF Sound
  <2>2. IsFiniteSet(candidates) /\ candidates \in SUBSET [1..3 -> Nat]
    BY <2>1, InsertionsAre
  <2> HIDE DEF candidates
  <2>3. Visits(seq, candidates, Cardinality(candidates))
    BY <2>2, InOrderIs
  <2>4. QED
    BY <2>3 DEF Visits
<1> HIDE DEF seq, n
<1>3. base \in Fair
  BY NothingFoundIs
<1>4. ASSUME NEW m \in 1..n, NEW acc \in Fair
      PROVE  Step(acc, m) \in Fair
  <2> DEFINE c == seq[m]
             t == Step(acc, m)
  <2>1. c \in candidates /\ acc \in FoundType(candidates) /\ Well(acc)
    BY <1>2
  <2>2. /\ t \in FoundType(candidates)
        /\ t.choice = acc.choice \/ (t.choice = <<c>> /\ GoodInsertion(f, c))
    <3>1. t = WeighInsertion(f, diversify, acc, c, InsertionKey(f, c), Inserted(f, c))
      OBVIOUS
    <3> HIDE DEF t, c
    <3>2. QED
      BY <2>1, <3>1, InsertionWeighed
  <2> HIDE DEF t, c
  <2>3. t \in Fair
    BY <2>1, <2>2
  <2>4. QED
    BY <2>3 DEF t
<1>5. \A m \in 0..n : G[m] = Fair
  OBVIOUS
<1> HIDE DEF Fair, Step, base
<1>6. 0 \in 0..n /\ n \in 0..n /\ \A m \in 1..n : m \in 0..n /\ m - 1 \in 0..n /\ m # 0
  BY <1>2
<1>7. base \in G[0] /\ \A m \in 1..n : \A x \in G[m - 1] : Step(x, m) \in G[m]
  <2> HIDE DEF G
  <2>1. QED
    BY <1>3, <1>4, <1>5, <1>6
<1>8. \E h : Computes(h)
  <2> DEFINE step == [x \in Fair \X (1..n) |-> Step(x[1], x[2])]
  <2>1. \A m \in 1..n : \A x \in Fair : step[<<x, m>>] = Step(x, m)
    OBVIOUS
  <2> HIDE DEF G, step
  <2>2. \A m \in 1..n : \A x \in G[m - 1] : step[<<x, m>>] \in G[m]
    BY <1>5, <1>6, <1>7, <2>1
  <2>3. PICK h : Computed(n, base, step, h) /\ \A m \in 0..n : h[m] \in G[m]
    BY <1>2, <1>7, <2>2, StepsExist
  <2>4. \A m \in 0..n : m # 0 => m \in 1..n /\ h[m - 1] \in Fair
    BY <1>2, <1>5, <1>6, <2>3
  <2>5. Computes(h)
    BY <2>1, <2>3, <2>4 DEF Computed
  <2>6. QED
    BY <2>5
<1>9. \A m \in 0..n : found[m] = IF m = 0 THEN base ELSE Step(found[m - 1], m)
  BY <1>8
<1> HIDE DEF found
<1>10. found[n] \in Fair
  <2> HIDE DEF G
  <2>1. found[0] \in G[0] /\ \A m \in 1..n : found[m - 1] \in G[m - 1] => found[m] \in G[m]
    BY <1>6, <1>7, <1>9
  <2>2. \A m \in 0..n : found[m] \in G[m]
    BY <1>2, <2>1, StepsLead
  <2>3. QED
    BY <1>5, <1>6, <2>2
<1>11. QED
  BY <1>1, <1>10 DEF Fair

\* With both orders off, the two vehicles are fit; after an exchange all
\* vehicles travel, and when both orders found a place it leads to a solution
\* of the same orders.
LEMMA ExchangedIs ==
  ASSUME NEW f, Sound(call, f), FleetFeasible(f), NEW c \in Exchanges(f),
         NEW h, h = Apart(f, c), NEW g, g = Exchanged(h, c)
  PROVE  /\ h[c[1]] \in VehicleType /\ h[c[3]] \in VehicleType
         /\ Travelling(g) /\ Len(g) = Len(f)
         /\ has_order(g[c[1]], c[4]) /\ has_order(g[c[3]], c[2]) =>
              Sound(call, g) /\ FleetFeasible(g) /\ SameOrders(g, f)
<1> DEFINE a == c[1]
           b == c[3]
           o == c[2]
           p == c[4]
           v == erase(f[a], o)
           w == erase(f[b], p)
           x == hillClimb(v, p)
           y == hillClimb(w, o)
<1>1. f \in Seq(VehicleType) /\ \A k \in 1..Len(f) : Fit(call, f[k])
  BY DEF Sound
<1>2. /\ a \in 1..Len(f) /\ b \in 1..Len(f) /\ a # b /\ o \in Order /\ p \in Order
      /\ ~is_phony(f[a]) /\ ~is_phony(f[b]) /\ o \in f[a].orders /\ p \in f[b].orders
  BY <1>1, ExchangesAre
<1>3. f[a].orders \cap f[b].orders = {}
  BY <1>1, <1>2, OrdersByPosition DEF Sound
<1>4. h = [f EXCEPT ![a] = v, ![b] = w]
  BY <1>1, <1>2 DEF Apart
<1>5. Fit(call, f[a]) /\ Fit(call, f[b])
  BY <1>1, <1>2
<1>6. g = [h EXCEPT ![a] = hillClimb(@, p), ![b] = hillClimb(@, o)]
  BY DEF Exchanged
<1> HIDE DEF a, b, o, p
<1>7. /\ Fit(call, v) /\ v.idx = f[a].idx /\ v.orders = f[a].orders \ {o}
      /\ Fit(call, w) /\ w.idx = f[b].idx /\ w.orders = f[b].orders \ {p}
      /\ o \notin AllPinned(call) /\ p \notin AllPinned(call)
  BY <1>2, <1>5, GiverFits
<1> HIDE DEF v, w
<1>8. Travels(x) /\ Travels(y)
  BY <1>2, <1>7, HillClimbTravels DEF Fit
<1>9. ~has_order(v, p) /\ ~has_order(w, o) /\ ~is_phony(v) /\ ~is_phony(w)
  BY <1>2, <1>3, <1>7 DEF has_order, is_phony
<1>10. /\ has_order(x, p) =>
            Fit(call, x) /\ x.idx = f[a].idx /\ x.orders = v.orders \cup {p} /\ is_feasible(x)
       /\ has_order(y, o) =>
            Fit(call, y) /\ y.idx = f[b].idx /\ y.orders = w.orders \cup {o} /\ is_feasible(y)
  BY <1>2, <1>7, <1>9, TakerFits
<1>11. v \in VehicleType /\ w \in VehicleType
  BY <1>7 DEF Fit, Travels
<1>12. h[a] = v /\ h[b] = w
  BY <1>1, <1>2, <1>4
<1>13. g = [f EXCEPT ![a] = x, ![b] = y]
  <2>1. /\ h \in Seq(VehicleType) /\ Len(h) = Len(f) /\ DOMAIN h = 1..Len(f)
        /\ \A k \in 1..Len(f) : k # a /\ k # b => h[k] = f[k]
    BY <1>1, <1>2, <1>4, <1>11
  <2>2. /\ g = [k \in 1..Len(f) |-> IF k = b THEN hillClimb(h[b], o)
                                    ELSE IF k = a THEN hillClimb(h[a], p) ELSE h[k]]
    BY <1>2, <1>6, <2>1
  <2>3. g = [k \in 1..Len(f) |-> IF k = b THEN y ELSE IF k = a THEN x ELSE f[k]]
    BY <1>12, <2>1, <2>2
  <2> HIDE DEF x, y
  <2>4. QED
    BY <1>1, <1>2, <2>3, SMTT(60)
<1> HIDE DEF x, y
<1>14. x \in VehicleType /\ y \in VehicleType
  BY <1>8 DEF Travels
<1>15. Replaced(f, g, a, b, x, y)
  BY <1>1, <1>2, <1>13, <1>14 DEF Replaced
<1>16. /\ g \in Seq(VehicleType) /\ Len(g) = Len(f) /\ g[a] = x /\ g[b] = y
       /\ \A k \in 1..Len(f) : k # a /\ k # b => g[k] = f[k]
  BY <1>15 DEF Replaced
<1>17. Travelling(g)
  <2>1. \A k \in 1..Len(f) : Travels(g[k])
    BY <1>1, <1>8, <1>16 DEF Fit
  <2>2. QED
    BY <1>16, <2>1 DEF Travelling
<1>18. ASSUME has_order(x, p), has_order(y, o)
       PROVE  Sound(call, g) /\ FleetFeasible(g) /\ SameOrders(g, f)
  <2>1. /\ Fit(call, x) /\ x.idx = f[a].idx /\ x.orders = (f[a].orders \ {o}) \cup {p} /\ is_feasible(x)
        /\ Fit(call, y) /\ y.idx = f[b].idx /\ y.orders = (f[b].orders \ {p}) \cup {o} /\ is_feasible(y)
    BY <1>7, <1>10, <1>18
  <2>2. x.orders \cap y.orders = {} /\ x.orders \cup y.orders = f[a].orders \cup f[b].orders
    BY <1>2, <1>3, <2>1
  <2>3. Sound(call, g) /\ OrdersOn(g) = OrdersOn(f) /\ FleetFeasible(g)
        /\ PhonyOrders(g) = PhonyOrders(f) /\ Aboard(g) = Aboard(f)
    BY <1>2, <1>15, <2>1, <2>2, ReplacedSound, SMTT(60)
  <2>4. QED
    BY <2>3 DEF SameOrders
<1>19. QED
  BY <1>11, <1>12, <1>16, <1>17, <1>18 DEF a, b, o, p

\* An exchange that the search may choose: both orders found a place.
GoodExchange(f, c) ==
  LET g == Exchanged(Apart(f, c), c)
  IN  has_order(g[c[1]], c[4]) /\ has_order(g[c[3]], c[2])

\* A step of the search for the best exchange.
LEMMA ExchangeWeighed ==
  ASSUME NEW f, Sound(call, f), FleetFeasible(f), NEW c \in Exchanges(f), NEW diversify,
         NEW acc \in FoundType(Exchanges(f)),
         NEW r, r = WeighExchange(f, diversify, acc, c, Apart(f, c),
                                  Exchanged(Apart(f, c), c))
  PROVE  /\ r \in FoundType(Exchanges(f))
         /\ r.choice = acc.choice \/ (r.choice = <<c>> /\ GoodExchange(f, c))
<1> DEFINE h == Apart(f, c)
           g == Exchanged(h, c)
           to == ToKey(h, c)
           from == FromKey(h, c)
           score == FleetObjective(g)
           refusedTo == WithRefused(acc, to)
           refusedFrom == WithRefused(acc, from)
           chosen == WithChosen(acc, score, c)
<1>1. f \in Seq(VehicleType)
  BY DEF Sound
<1>2. c[2] \in Order /\ c[4] \in Order
  BY <1>1, ExchangesAre
<1>3. h[c[1]] \in VehicleType /\ h[c[3]] \in VehicleType /\ Travelling(g)
  BY ExchangedIs
<1>4. to \in Keys /\ from \in Keys
  BY <1>2, <1>3 DEF ToKey, FromKey, Keys
<1>5. score \in Nat
  BY <1>3, FiguresAreNatural
<1>6. \/ r \in {acc, refusedTo, refusedFrom}
      \/ r = chosen /\ has_order(g[c[3]], c[2]) /\ has_order(g[c[1]], c[4])
  BY DEF WeighExchange, WithRefused, WithChosen
<1>7. has_order(g[c[3]], c[2]) /\ has_order(g[c[1]], c[4]) => GoodExchange(f, c)
  BY DEF GoodExchange
<1> HIDE DEF score, to, from, g, h
<1>8. /\ refusedTo \in FoundType(Exchanges(f)) /\ refusedTo.choice = acc.choice
      /\ refusedFrom \in FoundType(Exchanges(f)) /\ refusedFrom.choice = acc.choice
  BY <1>4, RefusedOne
<1>9. chosen \in FoundType(Exchanges(f)) /\ chosen.choice = <<c>>
  BY <1>5, ChosenOne
<1> HIDE DEF refusedTo, refusedFrom, chosen
<1>10. QED
  BY <1>6, <1>7, <1>8, <1>9

\* The search for the best exchange finds a good one or none.
LEMMA BestExchangeIs ==
  ASSUME NEW f, Sound(call, f), FleetFeasible(f), infeasible_list \in SUBSET Keys,
         NEW intensify, NEW diversify, NEW r, r = BestExchange(f, intensify, diversify)
  PROVE  /\ r \in FoundType(Exchanges(f))
         /\ \/ r.choice = <<>>
            \/ \E c \in Exchanges(f) : r.choice = <<c>> /\ GoodExchange(f, c)
<1> DEFINE candidates == Exchanges(f)
           base == NothingFound(f, intensify)
           seq == InOrder(candidates)
           n == Len(seq)
           Step(acc, m) == WeighExchange(f, diversify, acc, seq[m], Apart(f, seq[m]),
                                         Exchanged(Apart(f, seq[m]), seq[m]))
           Computes(h) == h = [m \in 0..n |-> IF m = 0 THEN base ELSE Step(h[m - 1], m)]
           found == CHOOSE h : Computes(h)
           Well(acc) == \/ acc.choice = <<>>
                        \/ \E c \in candidates : acc.choice = <<c>> /\ GoodExchange(f, c)
           Fair == {acc \in FoundType(candidates) : Well(acc)}
           G == [m \in 0..n |-> Fair]
<1>1. r = found[n]
  BY DEF BestExchange, Visiting, Iterated
<1>2. n \in Nat /\ \A m \in 1..n : seq[m] \in candidates
  <2>1. f \in Seq(VehicleType)
    BY DEF Sound
  <2>2. IsFiniteSet(candidates) /\ candidates \in SUBSET [1..4 -> Nat]
    BY <2>1, ExchangesAre
  <2> HIDE DEF candidates
  <2>3. Visits(seq, candidates, Cardinality(candidates))
    BY <2>2, InOrderIs
  <2>4. QED
    BY <2>3 DEF Visits
<1> HIDE DEF seq, n
<1>3. base \in Fair
  BY NothingFoundIs
<1>4. ASSUME NEW m \in 1..n, NEW acc \in Fair
      PROVE  Step(acc, m) \in Fair
  <2> DEFINE c == seq[m]
             t == Step(acc, m)
  <2>1. c \in candidates /\ acc \in FoundType(candidates) /\ Well(acc)
    BY <1>2
  <2>2. /\ t \in FoundType(candidates)
        /\ t.choice = acc.choice \/ (t.choice = <<c>> /\ GoodExchange(f, c))
    <3>1. t = WeighExchange(f, diversify, acc, c, Apart(f, c), Exchanged(Apart(f, c), c))
      OBVIOUS
    <3> HIDE DEF t, c
    <3>2. QED
      BY <2>1, <3>1, ExchangeWeighed
  <2> HIDE DEF t, c
  <2>3. t \in Fair
    BY <2>1, <2>2
  <2>4. QED
    BY <2>3 DEF t
<1>5. \A m \in 0..n : G[m] = Fair
  OBVIOUS
<1> HIDE DEF Fair, Step, base
<1>6. 0 \in 0..n /\ n \in 0..n /\ \A m \in 1..n : m \in 0..n /\ m - 1 \in 0..n /\ m # 0
  BY <1>2
<1>7. base \in G[0] /\ \A m \in 1..n : \A x \in G[m - 1] : Step(x, m) \in G[m]
  <2> HIDE DEF G
  <2>1. QED
    BY <1>3, <1>4, <1>5, <1>6
<1>8. \E h : Computes(h)
  <2> DEFINE step == [x \in Fair \X (1..n) |-> Step(x[1], x[2])]
  <2>1. \A m \in 1..n : \A x \in Fair : step[<<x, m>>] = Step(x, m)
    OBVIOUS
  <2> HIDE DEF G, step
  <2>2. \A m \in 1..n : \A x \in G[m - 1] : step[<<x, m>>] \in G[m]
    BY <1>5, <1>6, <1>7, <2>1
  <2>3. PICK h : Computed(n, base, step, h) /\ \A m \in 0..n : h[m] \in G[m]
    BY <1>2, <1>7, <2>2, StepsExist
  <2>4. \A m \in 0..n : m # 0 => m \in 1..n /\ h[m - 1] \in Fair
    BY <1>2, <1>5, <1>6, <2>3
  <2>5. Computes(h)
    BY <2>1, <2>3, <2>4 DEF Computed
  <2>6. QED
    BY <2>5
<1>9. \A m \in 0..n : found[m] = IF m = 0 THEN base ELSE Step(found[m - 1], m)
  BY <1>8
<1> HIDE DEF found
<1>10. found[n] \in Fair
  <2> HIDE DEF G
  <2>1. found[0] \in G[0] /\ \A m \in 1..n : found[m - 1] \in G[m - 1] => found[m] \in G[m]
    BY <1>6, <1>7, <1>9
  <2>2. \A m \in 0..n : found[m] \in G[m]
    BY <1>2, <2>1, StepsLead
  <2>3. QED
    BY <1>5, <1>6, <2>2
<1>11. QED
  BY <1>1, <1>10 DEF Fair

(***************************************************************************)
(* The inductive invariant.                                                *)
(***************************************************************************)

\* For the arguments c of a call: vehicles with the users' stops.  Each of them
\* delivers orders that are assigned and delivers what is pinned to it, and no
\* two vehicles deliver the same order.
GivenTrucks(c, fleet, assigned) ==
  /\ fleet \in Seq(VehicleType)
  /\ \A k \in 1..Len(fleet) :
       /\ Intact(fleet[k]) /\ fleet[k].idx \in Vehicles /\ HoldsPinned(c, fleet[k])
       /\ Pinned(c, fleet[k].idx) \subseteq assigned
       /\ fleet[k].orders \subseteq Range(c.stops[fleet[k].idx])
  /\ OrdersApart(fleet) /\ OrdersOn(fleet) \subseteq assigned
  /\ \A k, l \in 1..Len(fleet) : k # l =>
       /\ fleet[k].idx # fleet[l].idx
       /\ Pinned(c, fleet[k].idx) \cap fleet[l].orders = {}
       /\ Pinned(c, fleet[k].idx) \cap Pinned(c, fleet[l].idx) = {}

\* And all the orders that are assigned are on them.
AllAccounted(c, fleet, assigned) ==
  \A o \in assigned :
    o \in OrdersOn(fleet) \/ \E k \in 1..Len(fleet) : o \in Pinned(c, fleet[k].idx)

\* What set_initial_solution and process_unassigned know.
GivenInv ==
  /\ m_all_orders \subseteq Order /\ m_assigned \subseteq Order /\ m_unassigned \subseteq Order
  /\ m_assigned \cap m_unassigned = {}
  /\ GivenTrucks(call, trucks, m_assigned)
  /\ to_place \subseteq m_unassigned
  /\ pc = "stops" => to_place = {}
  /\ pc \notin {"stops", "failed"} => Waiting = {}

\* The orders on the vehicles that are not in good order, as the user gave them.
Elsewhere(c) == UNION {Range(c.stops[v]) : v \in Vehicles \ RealTrucks}

\* No order gets lost: the orders of the problem are assigned once the search
\* starts, and an order that is assigned is on a vehicle of the solution,
\* pinned to one, or on a vehicle that is not in good order.
AccountInv ==
  /\ pc \in {"stops", "unused"} => AllAccounted(call, trucks, m_assigned)
  /\ pc \in {"unused", "phony"} => m_all_orders = m_assigned \cup m_unassigned
  /\ pc = "start" \/ Searching => m_all_orders \subseteq m_assigned
  /\ pc \in {"phony", "start"} \/ Searching =>
       /\ Aboard(m_fleet) = RealTrucks
       /\ m_assigned \subseteq OrdersOn(m_fleet) \cup AllPinned(call) \cup Elsewhere(call)

\* The current and the best solution are solutions at all times, and feasible
\* ones of the same orders during the search.
SolutionsInv ==
  /\ Sound(call, m_fleet) /\ Sound(call, best_solution) /\ m_unassignedOrders \subseteq Order
  /\ pc \in {"phony", "start"} => FleetFeasible(m_fleet)
  /\ pc = "phony" => OrdersOn(m_fleet) \subseteq m_assigned
  /\ Searching =>
       /\ FleetFeasible(m_fleet) /\ FleetFeasible(best_solution)
       /\ SameOrders(m_fleet, best_solution)
       /\ PhonyOrders(m_fleet) = m_unassignedOrders

\* The list of moves keeps to its length, and the other lists hold candidates.
ListsInv ==
  /\ tabu_list \in Seq(Moves) /\ IsInjective(tabu_list) /\ Len(tabu_list) <= max_length
  /\ infeasible_list \in SUBSET Keys /\ seen_list \in SUBSET Keys

\* intensify is running, or has called move_2_real.
Intensifying ==
  \/ pc \in {"intensify", "insert", "exchange"}
  \/ pc = "move_2_real" /\ resume \in {"insert", "exchange"}

\* A turn of the loop of tabu_search is.
Turning ==
  \/ Intensifying
  \/ pc \in {"stuck", "explore", "explored", "counted", "judge", "next", "diversify",
             "unseen insert", "unseen exchange", "any exchange"}
  \/ pc = "move_2_real" /\ resume \in {"counted", "diversify"}

\* Where the program is, and its counters: the loop has turns left while one
\* is made, and the turns without a move are as many as there may be only on
\* the way to the place where tabu_search stops for them.
ControlInv ==
  /\ call \in Calls
  /\ pc \in {"stops", "unused", "phony", "start", "failed", "prepared", "cycle", "finish",
             "done", "move_2_real", "stuck", "explore", "explored", "counted", "judge", "next",
             "diversify", "unseen insert", "unseen exchange", "any exchange",
             "intensify", "insert", "exchange"}
  /\ resume \in {"prepared", "counted", "insert", "exchange", "diversify"}
  /\ after_intensify \in {"stuck", "judge", "next"}
  /\ {moved, intensification, do_spi, do_sbr} \subseteq BOOLEAN
  /\ {stuck_counter, curr_best, i} \subseteq Nat
  /\ iter \in 0..m_max_cycles /\ no_moves \in 0..(max_no_swaps + max_no_moves)
  /\ Turning => iter < m_max_cycles
  /\ no_moves = max_no_swaps + max_no_moves =>
       pc \in {"judge", "finish", "done"} \/ (Intensifying /\ after_intensify = "judge")

\* All of it.
IInv == GivenInv /\ SolutionsInv /\ AccountInv /\ ListsInv /\ ControlInv

-----------------------------------------------------------------------------

(***************************************************************************)
(* The initial solution.                                                   *)
(***************************************************************************)

\* A set with one more element.
LEMMA OneMore ==
  ASSUME NEW T, IsFiniteSet(T), NEW x, x \notin T, NEW U, U = T \cup {x}
  PROVE  IsFiniteSet(U) /\ Cardinality(U) = Cardinality(T) + 1
  BY FS_AddElement

\* Three elements of a set of numbers.
LEMMA ThreeElements ==
  ASSUME NEW S, IsFiniteSet(S), NEW x \in S, NEW y \in S, NEW z \in S,
         x # y, y # z, x # z
  PROVE  Cardinality(S) > 2
<1> DEFINE one == {x}
           two == one \cup {y}
           three == two \cup {z}
<1>1. y \notin one /\ z \notin two /\ three \subseteq S
  OBVIOUS
<1>2. IsFiniteSet(one) /\ Cardinality(one) = 1
  BY FS_Singleton
<1> HIDE DEF one
<1>3. IsFiniteSet(two) /\ Cardinality(two) = 2
  <2>1. two = one \cup {y}
    OBVIOUS
  <2> HIDE DEF two
  <2>2. IsFiniteSet(two) /\ Cardinality(two) = Cardinality(one) + 1
    BY <1>1, <1>2, <2>1, OneMore
  <2>3. QED
    BY <1>2, <2>2
<1> HIDE DEF two
<1>4. Cardinality(three) = 3
  <2>1. three = two \cup {z}
    OBVIOUS
  <2> HIDE DEF three
  <2>2. Cardinality(three) = Cardinality(two) + 1
    BY <1>1, <1>3, <2>1, OneMore
  <2>3. QED
    BY <1>3, <2>2
<1> HIDE DEF three
<1>5. Cardinality(three) <= Cardinality(S)
  BY <1>1, FS_Subset
<1>6. Cardinality(S) \in Nat
  BY FS_CardinalityType
<1>7. QED
  BY <1>4, <1>5, <1>6

\* Stops that the assertions let pass: orders that are not assigned, none more
\* than twice; what the path of the stops delivers is what they name twice.
LEMMA LegalVisits ==
  ASSUME NEW v \in Truck, NEW visits \in Seq(Nat), ~Refused(visits)
  PROVE  /\ visits \in Seq(Order) /\ AtMostTwice(visits)
         /\ Delivered(visits) \subseteq Order /\ Delivered(visits) \cap m_assigned = {}
         /\ OrdersDelivered(StopsPath(v, visits)) = Delivered(visits)
<1> DEFINE n == Len(visits)
           path == StopsPath(v, visits)
<1>1. /\ n \in Nat /\ DOMAIN visits = 1..n
      /\ \A k \in 1..n : visits[k] \in Order /\ visits[k] \notin m_assigned
      /\ \A k \in 1..n : ~(Cardinality({l \in 1..k : visits[l] = visits[k]}) > 2)
  <2>1. n \in Nat /\ DOMAIN visits = 1..n
    OBVIOUS
  <2>2. \A k \in DOMAIN visits :
          /\ visits[k] \in Order /\ visits[k] \notin m_assigned
          /\ ~(Cardinality({l \in 1..k : visits[l] = visits[k]}) > 2)
    BY Zenon DEF Refused
  <2> HIDE DEF n
  <2>3. QED
    BY <2>1, <2>2, Zenon
<1>2. visits \in Seq(Order)
  BY <1>1
<1>3. ASSUME NEW a \in 1..n, NEW b \in 1..n, NEW c \in 1..n, a < b, b < c,
             visits[a] = visits[b], visits[b] = visits[c]
      PROVE  FALSE
  <2> DEFINE S == {l \in 1..c : visits[l] = visits[c]}
  <2>1. 1 \in Int /\ c \in Int /\ n \in Int
    BY <1>1
  <2>2. IsFiniteSet(1..c)
    BY <2>1, FS_Interval
  <2>3. S \in SUBSET (1..c)
    OBVIOUS
  <2>4. a \in S /\ b \in S /\ c \in S /\ a # b /\ b # c /\ a # c
    BY <1>1, <1>3
  <2>5. ~(Cardinality(S) > 2)
    BY <1>1
  <2> HIDE DEF S
  <2>6. IsFiniteSet(S)
    BY <2>2, <2>3, FS_Subset
  <2>7. QED
    BY <2>4, <2>5, <2>6, ThreeElements
<1>4. AtMostTwice(visits)
  BY <1>3 DEF AtMostTwice
<1>5. ASSUME NEW o \in Delivered(visits)
      PROVE  o \in Order /\ Cardinality({k \in 1..n : visits[k] = o}) = 2
  BY <1>1 DEF Delivered, Range
<1>6. ASSUME NEW o \in Order, Cardinality({k \in 1..n : visits[k] = o}) = 2
      PROVE  o \in Delivered(visits)
  <2> DEFINE S == {k \in 1..n : visits[k] = o}
  <2>1. S # {}
    <3>1. Cardinality(S) = 2
      BY <1>6
    <3>2. Cardinality({}) = 0
      BY FS_EmptySet
    <3>3. Cardinality(S) # Cardinality({})
      BY <3>1, <3>2
    <3> HIDE DEF S
    <3>4. QED
      BY <3>3, Zenon
  <2>2. QED
    BY <1>1, <1>6, <2>1 DEF Delivered, Range
<1>7. \A o \in Order : Delivery(o) \in Nodes(path) <=> Cardinality({k \in 1..n : visits[k] = o}) = 2
  BY <1>1, <1>2, <1>4, NamesCounted
<1>8. OrdersDelivered(path) = Delivered(visits)
  BY <1>5, <1>6, <1>7 DEF OrdersDelivered
<1>9. \A o \in Delivered(visits) : \E k \in 1..n : visits[k] = o
  BY <1>1 DEF Delivered, Range
<1>10. QED
  BY <1>1, <1>2, <1>4, <1>5, <1>8, <1>9

\* g is the fleet with another vehicle, t, at its end.
HasJoined(fleet, t, g) ==
  /\ g \in Seq(VehicleType) /\ Len(g) = Len(fleet) + 1 /\ g[Len(g)] = t
  /\ \A k \in 1..Len(g) : k # Len(g) => k \in 1..Len(fleet) /\ g[k] = fleet[k]
  /\ OrdersApart(g) /\ OrdersOn(g) = OrdersOn(fleet) \cup t.orders
  /\ FleetFeasible(fleet) /\ is_feasible(t) => FleetFeasible(g)

\* A vehicle joins a fleet that holds none of its orders.
LEMMA Joined ==
  ASSUME NEW fleet \in Seq(VehicleType), OrdersApart(fleet), NEW t \in VehicleType,
         t.orders \cap OrdersOn(fleet) = {}, NEW g, g = Append(fleet, t)
  PROVE  HasJoined(fleet, t, g)
<1> DEFINE n == Len(fleet)
<1>1. n \in Nat
  OBVIOUS
<1>2. /\ g \in Seq(VehicleType) /\ Len(g) = n + 1 /\ g[n + 1] = t
      /\ \A k \in 1..n : g[k] = fleet[k]
  OBVIOUS
<1>3. /\ \A k \in 1..(n + 1) : k # n + 1 => k \in 1..n
      /\ \A k \in 1..n : k \in 1..(n + 1) /\ k # n + 1
      /\ n + 1 \in 1..(n + 1)
  BY <1>1
<1>4. \A o : o \in OrdersOn(fleet) <=> \E k \in 1..n : o \in fleet[k].orders
  BY OrdersByPosition
<1>5. /\ \A o : o \in OrdersOn(g) <=> \E k \in 1..(n + 1) : o \in g[k].orders
      /\ OrdersApart(g) <=>
           \A k, l \in 1..(n + 1) : k # l => g[k].orders \cap g[l].orders = {}
      /\ FleetFeasible(g) <=> \A k \in 1..(n + 1) : is_feasible(g[k])
  <2>1. /\ \A o : o \in OrdersOn(g) <=> \E k \in 1..Len(g) : o \in g[k].orders
        /\ OrdersApart(g) <=>
             \A k, l \in 1..Len(g) : k # l => g[k].orders \cap g[l].orders = {}
        /\ FleetFeasible(g) <=> \A k \in 1..Len(g) : is_feasible(g[k])
    BY <1>2, OrdersByPosition
  <2>2. QED
    BY <1>2, <2>1
<1>6. \A k, l \in 1..n : k # l => fleet[k].orders \cap fleet[l].orders = {}
  BY OrdersByPosition
<1>7. FleetFeasible(fleet) <=> \A k \in 1..n : is_feasible(fleet[k])
  BY OrdersByPosition
<1> HIDE DEF n
<1>8. OrdersApart(g)
  <2>1. ASSUME NEW k \in 1..(n + 1), NEW l \in 1..(n + 1), k # l
        PROVE  g[k].orders \cap g[l].orders = {}
    <3>1. CASE k = n + 1
      BY <1>2, <1>3, <1>4, <2>1, <3>1
    <3>2. CASE l = n + 1
      BY <1>2, <1>3, <1>4, <2>1, <3>2
    <3>3. CASE k # n + 1 /\ l # n + 1
      BY <1>2, <1>3, <1>6, <2>1, <3>3
    <3>4. QED
      BY <3>1, <3>2, <3>3
  <2>2. QED
    BY <1>5, <2>1
<1>9. OrdersOn(g) = OrdersOn(fleet) \cup t.orders
  <2>1. \A o : o \in OrdersOn(g) <=> o \in OrdersOn(fleet) \/ o \in t.orders
    BY <1>2, <1>3, <1>4, <1>5
  <2>2. QED
    BY <2>1
<1>10. FleetFeasible(fleet) /\ is_feasible(t) => FleetFeasible(g)
  BY <1>2, <1>3, <1>5, <1>7
<1>11. QED
  BY <1>2, <1>3, <1>8, <1>9, <1>10 DEF n, HasJoined

\* Nothing is shared by no vehicles.
LEMMA EmptySound ==
  /\ Sound(call, <<>>) /\ OrdersApart(<<>>) /\ OrdersOn(<<>>) = {} /\ FleetFeasible(<<>>)
  /\ <<>> \in Seq(VehicleType) /\ Len(<<>>) = 0
<1>1. <<>> \in Seq(VehicleType) /\ Len(<<>>) = 0 /\ DOMAIN <<>> = {} /\ 1..0 = {}
  OBVIOUS
<1>2. QED
  BY <1>1 DEF Sound, OrdersApart, OrdersOn, FleetFeasible, DistinctTrucks

\* The fleet g, for which the orders B are assigned, is fleet, for which the
\* orders A are, and the vehicle t, which is v with the user's stops.
GivenNext(c, fleet, A, v, t, g, B) ==
  /\ v \in Vehicles /\ \A k \in 1..Len(fleet) : fleet[k].idx # v
  /\ Intact(t) /\ t.idx = v /\ HoldsPinned(c, t)
  /\ t.orders \cap A = {} /\ Pinned(c, v) \cap A = {} /\ t.orders \subseteq Range(c.stops[v])
  /\ g = Append(fleet, t) /\ B = A \cup t.orders \cup Pinned(c, v)

\* A vehicle with the users' stops joins those before it.
LEMMA GivenJoins ==
  ASSUME NEW c, NEW fleet, NEW A, GivenTrucks(c, fleet, A), NEW v, NEW t, NEW g, NEW B,
         GivenNext(c, fleet, A, v, t, g, B)
  PROVE  /\ GivenTrucks(c, g, B)
         /\ AllAccounted(c, fleet, A) => AllAccounted(c, g, B)
<1> DEFINE n == Len(fleet)
           P(k) == Pinned(c, g[k].idx)
<1>0. /\ v \in Vehicles /\ \A k \in 1..Len(fleet) : fleet[k].idx # v
      /\ Intact(t) /\ t.idx = v /\ HoldsPinned(c, t)
      /\ t.orders \cap A = {} /\ Pinned(c, v) \cap A = {} /\ t.orders \subseteq Range(c.stops[v])
      /\ g = Append(fleet, t) /\ B = A \cup t.orders \cup Pinned(c, v)
  BY DEF GivenNext
<1> USE <1>0
<1>1. /\ fleet \in Seq(VehicleType) /\ OrdersApart(fleet) /\ OrdersOn(fleet) \subseteq A
      /\ \A k \in 1..n : /\ Intact(fleet[k]) /\ fleet[k].idx \in Vehicles
                         /\ HoldsPinned(c, fleet[k]) /\ Pinned(c, fleet[k].idx) \subseteq A
                         /\ fleet[k].orders \subseteq Range(c.stops[fleet[k].idx])
      /\ \A k, l \in 1..n : k # l =>
           /\ fleet[k].idx # fleet[l].idx
           /\ Pinned(c, fleet[k].idx) \cap fleet[l].orders = {}
           /\ Pinned(c, fleet[k].idx) \cap Pinned(c, fleet[l].idx) = {}
  BY DEF GivenTrucks
<1>2. t \in VehicleType /\ t.orders \cap OrdersOn(fleet) = {}
  BY <1>1 DEF Intact
<1>3. HasJoined(fleet, t, g)
  BY <1>1, <1>2, Joined
<1>4. /\ g \in Seq(VehicleType) /\ Len(g) = n + 1 /\ g[n + 1] = t
      /\ \A k \in 1..(n + 1) : k # n + 1 => k \in 1..n /\ g[k] = fleet[k]
      /\ OrdersApart(g) /\ OrdersOn(g) = OrdersOn(fleet) \cup t.orders
  BY <1>3 DEF HasJoined
<1>5. \A k \in 1..n : k \in 1..(n + 1) /\ g[k] = fleet[k]
  BY <1>1, <1>4
<1>6. n + 1 \in 1..(n + 1)
  BY <1>1
<1>7. \A k \in 1..n : fleet[k].orders \subseteq A
  BY <1>1, OrdersByPosition
<1> HIDE DEF n, P
<1>8. \A k \in 1..(n + 1) : /\ Intact(g[k]) /\ g[k].idx \in Vehicles /\ HoldsPinned(c, g[k])
                            /\ P(k) \subseteq B
                            /\ g[k].orders \subseteq Range(c.stops[g[k].idx])
  BY <1>1, <1>4 DEF P
<1>9. ASSUME NEW k \in 1..(n + 1), NEW l \in 1..(n + 1), k # l
      PROVE  g[k].idx # g[l].idx /\ P(k) \cap g[l].orders = {} /\ P(k) \cap P(l) = {}
  <2>1. CASE k = n + 1
    <3>1. g[k] = t /\ l \in 1..n /\ g[l] = fleet[l]
      BY <1>4, <1>9, <2>1
    <3>2. P(k) = Pinned(c, v) /\ P(l) \subseteq A /\ g[l].orders \subseteq A
      BY <1>1, <1>7, <3>1 DEF P
    <3>3. g[k].idx # g[l].idx
      BY <3>1 DEF n
    <3>4. QED
      BY <3>2, <3>3
  <2>2. CASE l = n + 1
    <3>1. g[l] = t /\ k \in 1..n /\ g[k] = fleet[k]
      BY <1>4, <1>9, <2>2
    <3>2. P(l) = Pinned(c, v) /\ P(k) \subseteq A /\ g[l].orders \cap A = {}
      BY <1>1, <3>1 DEF P
    <3>3. g[k].idx # g[l].idx
      BY <3>1 DEF n
    <3>4. QED
      BY <3>2, <3>3
  <2>3. CASE k # n + 1 /\ l # n + 1
    <3>1. k \in 1..n /\ l \in 1..n /\ g[k] = fleet[k] /\ g[l] = fleet[l]
      BY <1>4, <1>9, <2>3
    <3>2. /\ fleet[k].idx # fleet[l].idx
          /\ Pinned(c, fleet[k].idx) \cap fleet[l].orders = {}
          /\ Pinned(c, fleet[k].idx) \cap Pinned(c, fleet[l].idx) = {}
      BY <1>1, <1>9, <3>1
    <3>3. QED
      BY <3>1, <3>2 DEF P
  <2>4. QED
    BY <2>1, <2>2, <2>3
<1>10. GivenTrucks(c, g, B)
  BY <1>1, <1>4, <1>8, <1>9, ZenonT(60) DEF GivenTrucks, P
<1>11. ASSUME AllAccounted(c, fleet, A)
       PROVE  AllAccounted(c, g, B)
  <2>1. ASSUME NEW o \in B
        PROVE  o \in OrdersOn(g) \/ \E k \in 1..(n + 1) : o \in Pinned(c, g[k].idx)
    <3>1. CASE o \in A
      <4>1. o \in OrdersOn(fleet) \/ \E k \in 1..n : o \in Pinned(c, fleet[k].idx)
        BY <1>11, <3>1 DEF AllAccounted, n
      <4>2. QED
        BY <1>4, <1>5, <4>1
    <3>2. CASE o \in t.orders
      BY <1>4, <3>2
    <3>3. CASE o \in Pinned(c, v)
      BY <1>4, <1>6, <3>3
    <3>4. QED
      BY <3>1, <3>2, <3>3
  <2>2. QED
    BY <1>4, <2>1 DEF AllAccounted
<1>12. QED
  BY <1>10, <1>11

\* The stops of the next vehicle, when nothing is wrong with them.
LEMMA StopsTaken ==
  ASSUME GivenInv, AccountInv, call \in Calls, pc = "stops", NEW v \in Waiting,
         NEW visits, visits = stops[v], ~Refused(visits),
         NEW t, t = set_initial_solution(v, visits, execution_date, call.optimize),
         Assign(t, Delivered(visits), Removed(Delivered(visits), t)),
         UNCHANGED <<call, m_all_orders, to_place, pc>>
  PROVE  GivenInv' /\ AccountInv'
<1> DEFINE delivered == Delivered(visits)
           removed == Removed(delivered, t)
           fixed == Pinned(call, v)
<1>1. /\ v \in Vehicles /\ v \in Truck
      /\ \A k \in 1..Len(trucks) : trucks[k].idx # v
  BY VehiclesAre DEF Waiting, GivenInv, GivenTrucks
<1>2. visits \in Seq(Nat)
  BY <1>1, CallsAssumption DEF stops
<1>3. /\ visits \in Seq(Order) /\ AtMostTwice(visits)
      /\ delivered \subseteq Order /\ delivered \cap m_assigned = {}
      /\ OrdersDelivered(StopsPath(v, visits)) = delivered
  BY <1>1, <1>2, LegalVisits
<1>4. fixed = unmovable(delivered, execution_date) /\ WantedPath(call, v) = StopsPath(v, visits)
  BY DEF Pinned, WantedPath, stops, execution_date
<1> HIDE DEF delivered, fixed
<1>5. /\ Intact(t) /\ t.idx = v /\ Holding(t, StopsPath(v, visits), fixed)
      /\ OrdersDelivered(t.path) \subseteq delivered
  <2>1. /\ Intact(t) /\ t.idx = v
        /\ Holding(t, StopsPath(v, visits),
                   unmovable(OrdersDelivered(StopsPath(v, visits)), execution_date))
        /\ OrdersDelivered(t.path) \subseteq OrdersDelivered(StopsPath(v, visits))
    BY <1>1, <1>3, InitialSolutionIntact
  <2>2. QED
    BY <1>3, <1>4, <2>1
<1>6. HoldsPinned(call, t)
  BY <1>4, <1>5 DEF HoldsPinned, fixed
<1>7. t \in VehicleType /\ t.orders \subseteq Order /\ fixed \subseteq Order
  BY <1>3, <1>4, <1>5, VehicleFacts DEF Intact, unmovable
<1>8. OrdersDelivered(t.path) = t.orders \cup fixed
  BY <1>5, <1>7 DEF Holding, OrdersDelivered
<1> DEFINE A == m_assigned
           B == A \cup t.orders \cup fixed
<1>9. removed = delivered \ (t.orders \cup fixed) /\ t.orders \cup fixed \subseteq delivered
  BY <1>5, <1>8 DEF Removed
<1>10. /\ trucks' = Append(trucks, t)
       /\ m_assigned' = (m_assigned \cup delivered) \ removed
       /\ m_unassigned' = (m_unassigned \ delivered) \cup removed
  BY DEF Assign, delivered
<1> HIDE DEF removed
<1>11. m_assigned' = B
  BY <1>3, <1>9, <1>10
<1>12. /\ m_all_orders' \subseteq Order /\ m_assigned' \subseteq Order
       /\ m_unassigned' \subseteq Order /\ m_assigned' \cap m_unassigned' = {}
       /\ to_place' = {}
  BY <1>3, <1>9, <1>10 DEF GivenInv
<1>13. GivenTrucks(call, trucks, A) /\ AllAccounted(call, trucks, A)
  BY DEF GivenInv, AccountInv
<1> DEFINE g == Append(trucks, t)
<1>14. g = Append(trucks, t) /\ trucks' = g
  BY <1>10
<1>15. t.orders \cap A = {} /\ fixed \cap A = {}
  BY <1>3, <1>9
<1>16. B = A \cup t.orders \cup fixed
  OBVIOUS
<1> HIDE DEF g, A, B
<1>17. GivenTrucks(call, g, B) /\ AllAccounted(call, g, B)
  <2>1. /\ v \in Vehicles /\ \A k \in 1..Len(trucks) : trucks[k].idx # v
        /\ Intact(t) /\ t.idx = v /\ HoldsPinned(call, t)
    BY <1>1, <1>5, <1>6
  <2>2. Pinned(call, v) \cap A = {} /\ B = A \cup t.orders \cup Pinned(call, v)
    BY <1>15, <1>16 DEF fixed
  <2>3. t.orders \subseteq Range(call.stops[v])
    BY <1>9 DEF delivered, Delivered, stops
  <2>4. t.orders \cap A = {} /\ g = Append(trucks, t)
    BY <1>14, <1>15
  <2>5. GivenNext(call, trucks, A, v, t, g, B)
    BY <2>1, <2>2, <2>3, <2>4 DEF GivenNext
  <2>6. QED
    BY <1>13, <2>5, GivenJoins
<1>18. GivenTrucks(call', trucks', m_assigned') /\ AllAccounted(call', trucks', m_assigned')
  BY <1>11, <1>14, <1>17
<1>19. GivenInv'
  BY <1>12, <1>18 DEF GivenInv
<1>20. AccountInv'
  BY <1>18 DEF AccountInv, Searching
<1>21. QED
  BY <1>19, <1>20

\* Once all stops are taken, what is pinned is on some vehicle, and is assigned.
LEMMA AllPinnedAre ==
  ASSUME GivenInv, pc \notin {"stops", "failed"}
  PROVE  /\ \A v \in Vehicles : \E k \in 1..Len(trucks) : trucks[k].idx = v
         /\ AllPinned(call) \subseteq m_assigned
         /\ \A k \in 1..Len(trucks) : trucks[k].orders \cap AllPinned(call) = {}
         /\ \A v, w \in Vehicles : v # w => Pinned(call, v) \cap Pinned(call, w) = {}
<1>1. /\ trucks \in Seq(VehicleType)
      /\ \A k \in 1..Len(trucks) : /\ HoldsPinned(call, trucks[k])
                                  /\ Pinned(call, trucks[k].idx) \subseteq m_assigned
      /\ \A k, l \in 1..Len(trucks) : k # l =>
           /\ Pinned(call, trucks[k].idx) \cap trucks[l].orders = {}
           /\ Pinned(call, trucks[k].idx) \cap Pinned(call, trucks[l].idx) = {}
  BY DEF GivenInv, GivenTrucks
<1>2. \A v \in Vehicles : \E k \in 1..Len(trucks) : trucks[k].idx = v
  <2>1. Waiting = {} /\ DOMAIN trucks = 1..Len(trucks)
    BY <1>1 DEF GivenInv
  <2>2. QED
    BY <2>1 DEF Waiting
<1>3. AllPinned(call) \subseteq m_assigned
  <2>1. ASSUME NEW v \in Vehicles
        PROVE  Pinned(call, v) \subseteq m_assigned
    <3>1. PICK k \in 1..Len(trucks) : trucks[k].idx = v
      BY <1>2
    <3>2. QED
      BY <1>1, <3>1
  <2>2. QED
    BY <2>1 DEF AllPinned
<1>4. ASSUME NEW k \in 1..Len(trucks), NEW v \in Vehicles
      PROVE  trucks[k].orders \cap Pinned(call, v) = {}
  <2>1. PICK l \in 1..Len(trucks) : trucks[l].idx = v
    BY <1>2
  <2>2. CASE l = k
    BY <1>1, <2>1, <2>2 DEF HoldsPinned, Holding
  <2>3. CASE l # k
    BY <1>1, <2>1, <2>3
  <2>4. QED
    BY <2>2, <2>3
<1>5. ASSUME NEW v \in Vehicles, NEW w \in Vehicles, v # w
      PROVE  Pinned(call, v) \cap Pinned(call, w) = {}
  <2>1. PICK k \in 1..Len(trucks) : trucks[k].idx = v
    BY <1>2
  <2>2. PICK l \in 1..Len(trucks) : trucks[l].idx = w
    BY <1>2
  <2>3. k # l
    BY <1>5, <2>1, <2>2
  <2>4. QED
    BY <1>1, <2>1, <2>2, <2>3
<1>6. \A k \in 1..Len(trucks) : trucks[k].orders \cap AllPinned(call) = {}
  BY <1>4 DEF AllPinned
<1>7. QED
  BY <1>2, <1>3, <1>5, <1>6

\* The unused vehicles, with the stops they may have, are a solution, and no
\* order that is assigned gets lost with the other vehicles.
LEMMA UnusedSound ==
  ASSUME GivenInv, AccountInv, pc = "unused",
         NEW g, g = Kept(trucks, LAMBDA t : t.idx \in RealTrucks)
  PROVE  /\ Sound(call, g) /\ OrdersOn(g) \subseteq m_assigned /\ Aboard(g) = RealTrucks
         /\ m_assigned \subseteq OrdersOn(g) \cup AllPinned(call) \cup Elsewhere(call)
<1> DEFINE S == {k \in 1..Len(trucks) : trucks[k].idx \in RealTrucks}
<1>1. /\ trucks \in Seq(VehicleType) /\ OrdersApart(trucks) /\ OrdersOn(trucks) \subseteq m_assigned
      /\ \A k \in 1..Len(trucks) :
           /\ Intact(trucks[k]) /\ trucks[k].idx \in Vehicles /\ HoldsPinned(call, trucks[k])
           /\ trucks[k].orders \subseteq Range(call.stops[trucks[k].idx])
      /\ \A k, l \in 1..Len(trucks) : k # l => trucks[k].idx # trucks[l].idx
  BY DEF GivenInv, GivenTrucks
<1>2. /\ \A v \in Vehicles : \E k \in 1..Len(trucks) : trucks[k].idx = v
      /\ \A k \in 1..Len(trucks) : trucks[k].orders \cap AllPinned(call) = {}
  BY AllPinnedAre
<1>3. Selects(trucks, g, S)
  BY <1>1, UnusedIs
<1>4. S \in SUBSET (1..Len(trucks)) /\ \A k \in 1..Len(trucks) : k \in S <=> trucks[k].idx \in RealTrucks
  OBVIOUS
<1> HIDE DEF S
<1>5. OrdersApart(g)
  BY <1>1, <1>3, <1>4, SelectionApart
<1>6. g \in Seq(VehicleType)
  BY <1>3 DEF Selects
<1>7. PICK p \in [1..Len(g) -> S] :
        /\ \A j, k \in 1..Len(g) : p[j] = p[k] => j = k
        /\ \A l \in S : \E k \in 1..Len(g) : p[k] = l
        /\ \A k \in 1..Len(g) : g[k] = trucks[p[k]]
  BY <1>3 DEF Selects
<1>8. \A k \in 1..Len(g) : p[k] \in S /\ p[k] \in 1..Len(trucks)
  BY <1>4, <1>7
<1>9. ASSUME NEW k \in 1..Len(g)
      PROVE  Fit(call, g[k])
  <2> DEFINE l == p[k]
  <2>1. l \in 1..Len(trucks) /\ trucks[l].idx \in RealTrucks /\ g[k] = trucks[l]
    BY <1>4, <1>7, <1>8
  <2> HIDE DEF l
  <2>2. /\ Intact(trucks[l]) /\ HoldsPinned(call, trucks[l])
        /\ trucks[l].orders \cap AllPinned(call) = {}
    BY <1>1, <1>2, <2>1
  <2>3. Travels(trucks[l])
    BY <2>2, IntactTravels
  <2>4. ~is_phony(trucks[l])
    BY <2>1, RealIsNotPhony
  <2>5. Fit(call, trucks[l])
    BY <2>1, <2>2, <2>3, <2>4 DEF Fit
  <2>6. QED
    BY <2>1, <2>5
<1>10. DistinctTrucks(g)
  <2>1. ASSUME NEW j \in 1..Len(g), NEW k \in 1..Len(g), j # k
        PROVE  g[j].idx # g[k].idx
    <3>1. p[j] # p[k] /\ g[j] = trucks[p[j]] /\ g[k] = trucks[p[k]]
      BY <1>7, <2>1
    <3>2. p[j] \in 1..Len(trucks) /\ p[k] \in 1..Len(trucks)
      BY <1>8
    <3>3. QED
      BY <1>1, <3>1, <3>2
  <2>2. QED
    BY <2>1 DEF DistinctTrucks
<1>11. /\ \A o : o \in OrdersOn(g) <=> \E k \in 1..Len(g) : o \in g[k].orders
       /\ \A o : o \in OrdersOn(trucks) <=> \E k \in 1..Len(trucks) : o \in trucks[k].orders
  <2>1. trucks \in Seq(VehicleType)
    BY <1>1
  <2>2. \A o : o \in OrdersOn(trucks) <=> \E k \in 1..Len(trucks) : o \in trucks[k].orders
    BY <2>1, OrdersByPosition
  <2>3. \A o : o \in OrdersOn(g) <=> \E k \in 1..Len(g) : o \in g[k].orders
    BY <1>6, OrdersByPosition
  <2>4. QED
    BY <2>2, <2>3
<1>12. OrdersOn(g) \subseteq OrdersOn(trucks)
  <2>1. ASSUME NEW o, NEW k \in 1..Len(g), o \in g[k].orders
        PROVE  \E l \in 1..Len(trucks) : o \in trucks[l].orders
    <3>1. p[k] \in 1..Len(trucks) /\ o \in trucks[p[k]].orders
      BY <1>7, <1>8, <2>1
    <3>2. QED
      BY <3>1
  <2>2. QED
    BY <1>11, <2>1
<1>13. Aboard(g) = RealTrucks
  <2>1. ASSUME NEW v \in RealTrucks
        PROVE  \E k \in 1..Len(g) : g[k].idx = v
    <3>1. PICK l \in 1..Len(trucks) : trucks[l].idx = v
      BY <1>2, VehiclesAre
    <3>2. PICK k \in 1..Len(g) : p[k] = l
      BY <1>4, <1>7, <3>1
    <3>3. QED
      BY <1>7, <3>1, <3>2
  <2>2. QED
    BY <2>1 DEF Aboard
<1>14. ASSUME NEW o \in m_assigned
       PROVE  o \in OrdersOn(g) \cup AllPinned(call) \cup Elsewhere(call)
  <2>1. o \in OrdersOn(trucks) \/ \E k \in 1..Len(trucks) : o \in Pinned(call, trucks[k].idx)
    BY DEF AccountInv, AllAccounted
  <2>2. CASE \E k \in 1..Len(trucks) : o \in Pinned(call, trucks[k].idx)
    BY <1>1, <2>2 DEF AllPinned
  <2>3. CASE o \in OrdersOn(trucks)
    <3>1. PICK l \in 1..Len(trucks) : o \in trucks[l].orders
      BY <1>11, <2>3
    <3>2. CASE trucks[l].idx \in RealTrucks
      <4>1. PICK k \in 1..Len(g) : p[k] = l
        BY <1>4, <1>7, <3>2
      <4>2. o \in g[k].orders
        BY <1>7, <3>1, <4>1
      <4>3. QED
        BY <1>11, <4>2
    <3>3. CASE trucks[l].idx \notin RealTrucks
      <4>1. trucks[l].idx \in Vehicles \ RealTrucks /\ o \in Range(call.stops[trucks[l].idx])
        BY <1>1, <3>1, <3>3
      <4>2. QED
        BY <4>1 DEF Elsewhere
    <3>4. QED
      BY <3>2, <3>3
  <2>4. QED
    BY <2>1, <2>2, <2>3
<1>15. Sound(call, g)
  BY <1>5, <1>6, <1>9, <1>10 DEF Sound
<1>16. QED
  BY <1>1, <1>12, <1>13, <1>14, <1>15

\* A solution that another order joins, not a pinned one, on a phony vehicle of
\* its own.
LEMMA PhonyJoins ==
  ASSUME NEW fleet, Sound(call, fleet), FleetFeasible(fleet), NEW o \in Order,
         o \notin OrdersOn(fleet), o \notin AllPinned(call), is_order_feasible(PhonyTruck, o),
         NEW g, g = Append(fleet, push_back(NewTruck(PhonyTruck), o))
  PROVE  /\ Sound(call, g) /\ FleetFeasible(g) /\ OrdersOn(g) = OrdersOn(fleet) \cup {o}
         /\ Aboard(g) = Aboard(fleet)
<1> DEFINE t == push_back(NewTruck(PhonyTruck), o)
           n == Len(fleet)
<1>1. PhonyTruck \in Truck
  BY DataAssumption
<1>2. Travels(t) /\ t.idx = PhonyTruck /\ t.orders = {o}
  BY <1>1, PushedAndErased
<1>3. Fit(call, t) /\ is_phony(t)
  BY <1>2 DEF Fit, is_phony
<1>4. is_feasible(t)
  BY DEF is_order_feasible
<1>5. /\ fleet \in Seq(VehicleType) /\ OrdersApart(fleet) /\ DistinctTrucks(fleet)
      /\ \A k \in 1..n : Fit(call, fleet[k])
  BY DEF Sound
<1> HIDE DEF t
<1>6. t \in VehicleType /\ t.orders \cap OrdersOn(fleet) = {}
  BY <1>2 DEF Travels
<1>7. g = Append(fleet, t)
  BY DEF t
<1>8. HasJoined(fleet, t, g)
  BY <1>5, <1>6, <1>7, Joined
<1>9. /\ g \in Seq(VehicleType) /\ Len(g) = n + 1 /\ g[n + 1] = t
      /\ OrdersApart(g) /\ FleetFeasible(g)
      /\ \A k \in 1..(n + 1) : k # n + 1 => k \in 1..n /\ g[k] = fleet[k]
      /\ OrdersOn(g) = OrdersOn(fleet) \cup t.orders
  BY <1>4, <1>8 DEF HasJoined
<1>10. \A k \in 1..n : k \in 1..(n + 1) /\ g[k] = fleet[k]
  <2>1. n \in Nat
    BY <1>5
  <2>2. QED
    BY <1>9, <2>1
<1> HIDE DEF n
<1>11. \A k \in 1..(n + 1) : Fit(call, g[k])
  BY <1>3, <1>5, <1>9
<1>12. DistinctTrucks(g)
  <2>1. ASSUME NEW k \in 1..(n + 1), NEW l \in 1..(n + 1), k # l, ~is_phony(g[k])
        PROVE  g[k].idx # g[l].idx
    <3>1. k \in 1..n /\ g[k] = fleet[k]
      BY <1>3, <1>9, <2>1
    <3>2. CASE l = n + 1
      BY <1>2, <1>9, <2>1, <3>2 DEF is_phony
    <3>3. CASE l # n + 1
      <4>1. l \in 1..n /\ g[l] = fleet[l]
        BY <1>9, <3>3
      <4>2. QED
        BY <1>5, <2>1, <3>1, <4>1 DEF DistinctTrucks, n
    <3>4. QED
      BY <3>2, <3>3
  <2>2. QED
    BY <1>9, <2>1 DEF DistinctTrucks
<1>13. Aboard(g) = Aboard(fleet)
  <2>1. ASSUME NEW v \in RealTrucks
        PROVE  (\E k \in 1..(n + 1) : g[k].idx = v) <=> \E k \in 1..n : fleet[k].idx = v
    <3>1. t.idx # v
      BY <1>2, VehiclesAre
    <3>2. QED
      BY <1>9, <1>10, <3>1
  <2>2. QED
    BY <1>9, <2>1 DEF Aboard, n
<1>14. Sound(call, g)
  BY <1>9, <1>11, <1>12 DEF Sound
<1>15. QED
  BY <1>2, <1>9, <1>13, <1>14

\* Until the initial solution is complete, the search has not begun.
LEMMA NotSearching ==
  ASSUME pc \in {"stops", "unused", "phony", "start", "failed"}
  PROVE  ~Searching
  BY DEF Searching

\* set_initial_solution of one vehicle.
LEMMA SetStopsKeeps ==
  ASSUME GivenInv, SolutionsInv, AccountInv, ControlInv, SetStops,
         UNCHANGED <<best_solution, m_unassignedOrders>>
  PROVE  GivenInv' /\ SolutionsInv' /\ AccountInv'
<1> DEFINE v == Min(Waiting)
           visits == stops[v]
<1>1. /\ pc = "stops" /\ Waiting # {}
      /\ UNCHANGED <<call, to_place, m_fleet>>
      /\ \/ pc' = "failed" /\ UNCHANGED <<orders, trucks>>
         \/ /\ ~Refused(visits) /\ UNCHANGED <<m_all_orders, pc>>
            /\ \E t : /\ t = set_initial_solution(v, visits, execution_date, call.optimize)
                      /\ Assign(t, Delivered(visits), Removed(Delivered(visits), t))
  BY DEF SetStops
<1>2. v \in Waiting
  <2>1. Waiting \in SUBSET Nat
    BY VehiclesAre DEF Waiting
  <2> HIDE DEF v
  <2>2. Min(Waiting) \in Waiting
    BY <1>1, <2>1, MinIsMember
  <2>3. QED
    BY <2>1, <2>2 DEF v
<1>3. call \in Calls
  BY DEF ControlInv
<1> HIDE DEF v, visits
<1>4. GivenInv' /\ AccountInv'
  <2>1. CASE pc' = "failed" /\ UNCHANGED <<orders, trucks>>
    <3>1. GivenInv'
      BY <1>1, <2>1 DEF GivenInv, orders
    <3>2. AccountInv'
      BY <2>1 DEF AccountInv, Searching
    <3>3. QED
      BY <3>1, <3>2
  <2>2. CASE /\ ~Refused(visits) /\ UNCHANGED <<m_all_orders, pc>>
             /\ \E t : /\ t = set_initial_solution(v, visits, execution_date, call.optimize)
                       /\ Assign(t, Delivered(visits), Removed(Delivered(visits), t))
    <3>1. PICK t : /\ t = set_initial_solution(v, visits, execution_date, call.optimize)
                   /\ Assign(t, Delivered(visits), Removed(Delivered(visits), t))
      BY <2>2
    <3>2. visits = stops[v] /\ UNCHANGED <<call, m_all_orders, to_place, pc>>
      BY <1>1, <2>2 DEF visits
    <3>3. QED
      BY <1>1, <1>2, <1>3, <2>2, <3>1, <3>2, StopsTaken
  <2>3. QED
    BY <1>1, <2>1, <2>2
<1>5. pc' \in {"stops", "failed"}
  BY <1>1
<1>6. SolutionsInv'
  <2>1. ~Searching'
    BY <1>5 DEF Searching
  <2>2. /\ pc' \notin {"phony", "start"} /\ m_fleet' = m_fleet /\ best_solution' = best_solution
        /\ m_unassignedOrders' = m_unassignedOrders /\ call' = call
    BY <1>1, <1>5
  <2>3. Sound(call', m_fleet') /\ Sound(call', best_solution') /\ m_unassignedOrders' \subseteq Order
    BY <2>2 DEF SolutionsInv
  <2>4. QED
    BY <2>1, <2>2, <2>3 DEF SolutionsInv
<1>7. QED
  BY <1>4, <1>6

\* What the variables of the solutions hold after a step that ends before the
\* search begins.
LEMMA SolutionsBefore ==
  ASSUME SolutionsInv, NEW g, m_fleet' = g, Sound(call, g),
         UNCHANGED <<call, best_solution, m_unassignedOrders>>,
         pc' \in {"stops", "unused", "phony", "start", "failed"},
         pc' \in {"phony", "start"} => FleetFeasible(g),
         pc' = "phony" => OrdersOn(g) \subseteq m_assigned'
  PROVE  SolutionsInv'
<1>1. ~Searching'
  BY DEF Searching
<1>2. Sound(call', m_fleet') /\ Sound(call', best_solution') /\ m_unassignedOrders' \subseteq Order
  BY DEF SolutionsInv
<1>3. pc' \in {"phony", "start"} => FleetFeasible(m_fleet')
  OBVIOUS
<1>4. pc' = "phony" => OrdersOn(m_fleet') \subseteq m_assigned'
  OBVIOUS
<1>5. QED
  BY <1>1, <1>2, <1>3, <1>4 DEF SolutionsInv

\* The other steps of the initial solution.
LEMMA InitialKeeps ==
  ASSUME GivenInv, SolutionsInv, AccountInv, ControlInv, Initial_solution,
         UNCHANGED <<best_solution, m_unassignedOrders>>
  PROVE  GivenInv' /\ SolutionsInv' /\ AccountInv'
<1>1. CASE SetStops
  BY <1>1, SetStopsKeeps
<1>2. CASE UseGiven
  <2>1. /\ pc = "stops" /\ Waiting = {} /\ m_fleet' = <<>> /\ pc' \in {"unused", "failed"}
        /\ UNCHANGED <<call, orders, trucks, to_place>>
        /\ pc' = "unused" => m_all_orders = m_assigned \cup m_unassigned
    BY <1>2 DEF UseGiven, invariant
  <2>2. GivenInv'
    BY <2>1 DEF GivenInv, orders, Waiting
  <2>3. SolutionsInv'
    BY <2>1, EmptySound, SolutionsBefore
  <2>4. AccountInv'
    BY <2>1 DEF AccountInv, orders, Searching
  <2>5. QED
    BY <2>2, <2>3, <2>4
<1>3. CASE AddUnused
  <2> DEFINE g == Kept(trucks, LAMBDA t : t.idx \in RealTrucks)
  <2>1. /\ pc = "unused" /\ m_fleet' = g /\ to_place' = m_unassigned
        /\ pc' = IF FleetFeasible(m_fleet') THEN "phony" ELSE "failed"
        /\ UNCHANGED <<call, orders, trucks>>
    BY <1>3 DEF AddUnused
  <2>2. /\ Sound(call, g) /\ OrdersOn(g) \subseteq m_assigned /\ Aboard(g) = RealTrucks
        /\ m_assigned \subseteq OrdersOn(g) \cup AllPinned(call) \cup Elsewhere(call)
    BY <2>1, UnusedSound
  <2> HIDE DEF g
  <2>3. GivenInv'
    BY <2>1 DEF GivenInv, orders, Waiting
  <2>4. pc' \in {"phony", "failed"} /\ (pc' = "phony" => FleetFeasible(g))
    BY <2>1
  <2>5. m_assigned' = m_assigned
    BY <2>1 DEF orders
  <2>6. SolutionsInv'
    BY <2>1, <2>2, <2>4, <2>5, SolutionsBefore
  <2>7. AccountInv'
    BY <2>1, <2>2, <2>4 DEF AccountInv, orders, Searching
  <2>8. QED
    BY <2>3, <2>6, <2>7
<1>4. CASE Place
  <2> DEFINE o == Min(to_place)
             g == Append(m_fleet, push_back(NewTruck(PhonyTruck), o))
  <2>1. /\ pc = "phony" /\ to_place # {} /\ PlaceOnPhony(o) /\ to_place' = to_place \ {o}
        /\ pc' \in {"phony", "failed"} /\ UNCHANGED <<call, trucks>>
        /\ pc' = "phony" => m_all_orders' = m_assigned' \cup m_unassigned'
    BY <1>4 DEF Place, invariant
  <2>2. /\ m_unassigned \subseteq Order /\ to_place \subseteq m_unassigned
        /\ m_assigned \cap m_unassigned = {}
    BY DEF GivenInv
  <2>3. o \in to_place
    <3>1. to_place \in SUBSET Nat
      BY <2>2, DataAssumption
    <3>2. QED
      BY <2>1, <3>1, MinIsMember
  <2>4. /\ Sound(call, m_fleet) /\ FleetFeasible(m_fleet) /\ OrdersOn(m_fleet) \subseteq m_assigned
    BY <2>1 DEF SolutionsInv
  <2> HIDE DEF o
  <2>5. o \in Order /\ o \notin OrdersOn(m_fleet) /\ o \notin AllPinned(call)
    BY <2>1, <2>2, <2>3, <2>4, AllPinnedAre
  <2>6. /\ Aboard(m_fleet) = RealTrucks
         /\ m_assigned \subseteq OrdersOn(m_fleet) \cup AllPinned(call) \cup Elsewhere(call)
    BY <2>1 DEF AccountInv
  <2>7. GivenTrucks(call, trucks, m_assigned) /\ Waiting = {}
    BY <2>1 DEF GivenInv
  <2>8. m_unassigned' = m_unassigned \ {o}
    BY <2>1 DEF PlaceOnPhony
  <2>9. CASE is_order_feasible(PhonyTruck, o)
    <3>1. m_assigned' = m_assigned \cup {o} /\ m_fleet' = g /\ UNCHANGED m_all_orders
      BY <2>1, <2>9 DEF PlaceOnPhony
    <3>2. /\ Sound(call, g) /\ FleetFeasible(g) /\ OrdersOn(g) = OrdersOn(m_fleet) \cup {o}
          /\ Aboard(g) = Aboard(m_fleet)
      BY <2>4, <2>5, <2>9, PhonyJoins
    <3> HIDE DEF g
    <3>3. SolutionsInv'
      BY <2>1, <2>4, <3>1, <3>2, SolutionsBefore
    <3>4. GivenTrucks(call', trucks', m_assigned') /\ Waiting' = {}
      <4>1. GivenTrucks(call, trucks, m_assigned \cup {o})
        BY <2>7 DEF GivenTrucks
      <4>2. QED
        BY <2>1, <2>7, <3>1, <4>1 DEF Waiting
    <3>5. GivenInv'
      BY <2>1, <2>2, <2>3, <2>5, <2>8, <3>1, <3>4 DEF GivenInv
    <3>6. AccountInv'
      BY <2>1, <2>6, <3>1, <3>2 DEF AccountInv, Searching
    <3>7. QED
      BY <3>3, <3>5, <3>6
  <2>10. CASE ~is_order_feasible(PhonyTruck, o)
    <3>1. m_all_orders' = m_all_orders \ {o} /\ UNCHANGED <<m_assigned, m_fleet>>
      BY <2>1, <2>10 DEF PlaceOnPhony
    <3>2. SolutionsInv'
      BY <2>1, <2>4, <3>1, SolutionsBefore
    <3>3. GivenInv'
      BY <2>1, <2>2, <2>3, <2>8, <2>7, <3>1 DEF GivenInv, Waiting
    <3>4. AccountInv'
      BY <2>1, <2>6, <3>1 DEF AccountInv, Searching
    <3>5. QED
      BY <3>2, <3>3, <3>4
  <2>11. QED
    BY <2>9, <2>10
<1>5. CASE AllPlaced
  <2>1. /\ pc = "phony" /\ pc' \in {"start", "failed"}
        /\ pc' = "start" => m_unassigned = {}
        /\ UNCHANGED <<call, orders, trucks, to_place, m_fleet>>
    BY <1>5 DEF AllPlaced
  <2>2. GivenInv'
    BY <2>1 DEF GivenInv, orders, Waiting
  <2>3. Sound(call, m_fleet) /\ FleetFeasible(m_fleet)
    BY <2>1 DEF SolutionsInv
  <2>4. SolutionsInv'
    BY <2>1, <2>3, SolutionsBefore
  <2>5. AccountInv'
    BY <2>1 DEF AccountInv, orders, Searching
  <2>6. QED
    BY <2>2, <2>4, <2>5
<1>6. QED
  BY <1>1, <1>2, <1>3, <1>4, <1>5 DEF Initial_solution

-----------------------------------------------------------------------------

(***************************************************************************)
(* The search.                                                             *)
(***************************************************************************)

\* Another move keeps the list within its length and names no move twice.
LEMMA AddIs ==
  ASSUME NEW S, NEW list \in Seq(S), IsInjective(list), NEW L \in Nat \ {0}, Len(list) <= L,
         NEW m \in S, NEW r, r = add(list, m, L)
  PROVE  r \in Seq(S) /\ IsInjective(r) /\ Len(r) <= L
<1> DEFINE n == Len(list)
           kept == IF n >= L THEN SubSeq(list, n - L + 2, n) ELSE list
<1>1. CASE has(list, m)
  BY <1>1 DEF add
<1>2. CASE ~has(list, m)
  <2>1. n \in Nat /\ DOMAIN list = 1..n /\ \A k \in 1..n : list[k] \in S /\ list[k] # m
    BY <1>2 DEF has, Range
  <2>2. \A j, k \in 1..n : list[j] = list[k] => j = k
    BY <2>1 DEF IsInjective
  <2>3. PICK d \in Nat : /\ kept \in Seq(S) /\ Len(kept) <= L - 1 /\ Len(kept) + d = n
                         /\ \A k \in 1..Len(kept) : kept[k] = list[k + d]
    <3>1. CASE n >= L
      <4>1. n = L
        <5>1. n \in Nat /\ L \in Nat /\ n <= L /\ n >= L
          BY <2>1, <3>1
        <5> HIDE DEF n
        <5>2. QED
          BY <5>1
      <4>2. kept = SubSeq(list, 2, n)
        BY <3>1, <4>1
      <4>3. kept \in Seq(S) /\ Len(kept) = n - 1 /\ \A k \in 1..(n - 1) : kept[k] = list[k + 1]
        BY <2>1, <4>1, <4>2
      <4> HIDE DEF kept, n
      <4>4. Len(kept) <= L - 1 /\ Len(kept) + 1 = n /\ 1 \in Nat
        BY <4>1, <4>3, <2>1
      <4>5. \A k \in 1..Len(kept) : kept[k] = list[k + 1]
        BY <4>3, SMTT(60)
      <4>6. QED
        BY <4>3, <4>4, <4>5
    <3>2. CASE ~(n >= L)
      <4>1. kept = list /\ n <= L - 1
        BY <2>1, <3>2
      <4> HIDE DEF kept
      <4>2. Len(kept) + 0 = n /\ 0 \in Nat /\ \A k \in 1..Len(kept) : kept[k] = list[k + 0]
        BY <2>1, <4>1
      <4>3. QED
        BY <4>1, <4>2
    <3>3. QED
      BY <3>1, <3>2
  <2>4. r = Append(kept, m)
    BY <1>2 DEF add
  <2> HIDE DEF kept, n
  <2> DEFINE l == Len(kept)
  <2>5. /\ r \in Seq(S) /\ Len(r) = l + 1 /\ r[l + 1] = m /\ l \in Nat
        /\ \A k \in 1..l : r[k] = kept[k]
    BY <2>3, <2>4
  <2>6. l <= L - 1 /\ l + d = n /\ \A k \in 1..l : kept[k] = list[k + d]
    BY <2>3
  <2> HIDE DEF l
  <2>7. \A k \in 1..l : k + d \in 1..n
    BY <2>1, <2>5, <2>6
  <2>8. \A k \in 1..l : r[k] = list[k + d]
    BY <2>5, <2>6
  <2>9. \A k \in 1..(l + 1) : k = l + 1 \/ k \in 1..l
    BY <2>5
  <2>10. \A j, k \in 1..(l + 1) : r[j] = r[k] => j = k
    <3>1. ASSUME NEW j \in 1..(l + 1), NEW k \in 1..(l + 1), r[j] = r[k]
          PROVE  j = k
      <4>1. CASE j \in 1..l /\ k \in 1..l
        <5>1. j + d = k + d
          BY <2>2, <2>7, <2>8, <3>1, <4>1
        <5>2. QED
          BY <2>5, <4>1, <5>1
      <4>2. CASE j \in 1..l /\ k = l + 1
        BY <2>1, <2>5, <2>7, <2>8, <3>1, <4>2
      <4>3. CASE j = l + 1 /\ k \in 1..l
        BY <2>1, <2>5, <2>7, <2>8, <3>1, <4>3
      <4>4. QED
        BY <2>9, <4>1, <4>2, <4>3
    <3>2. QED
      BY <3>1
  <2>11. DOMAIN r = 1..(l + 1)
    BY <2>5
  <2>12. QED
    BY <2>5, <2>6, <2>10, <2>11 DEF IsInjective
<1>3. QED
  BY <1>1, <1>2

\* The length of the list of moves: at least the limit of the code.
LEMMA ListsHaveRoom ==
  max_length \in Nat \ {0}
<1> DEFINE S == {Cardinality(Order), standard_limit}
           n == Cardinality(Order) + standard_limit
<1>1. Cardinality(Order) \in Nat /\ standard_limit \in Nat /\ standard_limit > 0
  BY DataAssumption, LimitsAssumption, FS_CardinalityType
<1>2. S \in SUBSET Nat /\ S # {} /\ n \in Nat /\ \A x \in S : x <= n
  BY <1>1
<1> HIDE DEF n
<1>3. Max(S) \in S /\ \A x \in S : x <= Max(S)
  <2> HIDE DEF S
  <2>1. QED
    BY <1>2, MaxIsMember
<1>4. QED
  BY <1>1, <1>3 DEF max_length

\* What a neighbourhood does to the solutions and to the lists.
NeighbourhoodTaken ==
  /\ Sound(call, m_fleet') /\ FleetFeasible(m_fleet') /\ SameOrders(m_fleet', m_fleet)
  /\ best_solution' = best_solution \/ best_solution' = save_if_best(m_fleet')
  /\ moved' \in BOOLEAN /\ UNCHANGED m_unassignedOrders
  /\ ListsInv'

\* A neighbourhood works on the vehicles in the order of their sizes.
LEMMA SortedSound ==
  ASSUME NEW fleet, Sound(call, fleet), FleetFeasible(fleet), NEW asc, NEW f \in BySize(fleet, asc)
  PROVE  Sound(call, f) /\ FleetFeasible(f) /\ SameOrders(fleet, f)
<1>1. fleet \in Seq(VehicleType)
  BY DEF Sound
<1>2. Selects(fleet, f, 1..Len(fleet))
  BY <1>1, SortedIs
<1> DEFINE S == 1..Len(fleet)
<1>3. /\ S \in SUBSET (1..Len(fleet))
      /\ \A l \in 1..Len(fleet) : l \notin S => fleet[l].orders = {} /\ is_phony(fleet[l])
  OBVIOUS
<1>4. Selects(fleet, f, S)
  BY <1>2
<1> HIDE DEF S
<1>5. QED
  BY <1>3, <1>4, SelectionSound

\* A neighbourhood that finds no move sorts the vehicles.
LEMMA NoMoveTakes ==
  ASSUME ListsInv, NEW f, Sound(call, f), FleetFeasible(f), SameOrders(f, m_fleet),
         NEW candidates, NEW found \in FoundType(candidates), NoMove(f, found)
  PROVE  NeighbourhoodTaken
<1>1. found.refused \in SUBSET Keys
  BY DEF FoundType
<1>2. /\ moved' = FALSE /\ m_fleet' = f /\ infeasible_list' = found.refused
      /\ UNCHANGED <<best_solution, tabu_list, seen_list, m_unassignedOrders>>
  BY DEF NoMove
<1>3. ListsInv'
  BY <1>1, <1>2 DEF ListsInv, max_length
<1>4. QED
  BY <1>2, <1>3 DEF NeighbourhoodTaken

\* A move that is made joins the lists.
LEMMA MoveTakes ==
  ASSUME ListsInv, NEW g, Sound(call, g), FleetFeasible(g), SameOrders(g, m_fleet),
         NEW candidates, NEW found \in FoundType(candidates),
         NEW move \in Moves, NEW keys \in SUBSET Keys, MakeMove(found, g, move, keys)
  PROVE  NeighbourhoodTaken
<1>1. found.refused \in SUBSET Keys
  BY DEF FoundType
<1>2. /\ moved' = TRUE /\ m_fleet' = g /\ best_solution' = save_if_best(g)
      /\ infeasible_list' = found.refused /\ seen_list' = seen_list \cup keys
      /\ tabu_list' = add(tabu_list, move, max_length)
      /\ UNCHANGED m_unassignedOrders
  BY DEF MakeMove
<1> DEFINE list == add(tabu_list, move, max_length)
<1>3. tabu_list' = list /\ list = add(tabu_list, move, max_length)
  BY <1>2
<1> HIDE DEF list
<1>4. list \in Seq(Moves) /\ IsInjective(list) /\ Len(list) <= max_length
  BY <1>3, ListsHaveRoom, AddIs DEF ListsInv
<1>5. ListsInv'
  BY <1>1, <1>2, <1>3, <1>4 DEF ListsInv, max_length
<1>6. best_solution' = save_if_best(m_fleet')
  BY <1>2 DEF save_if_best
<1>7. QED
  BY <1>2, <1>5, <1>6 DEF NeighbourhoodTaken

\* Solutions that have the same orders as a third one have the same orders.
LEMMA SameAsThird ==
  ASSUME NEW f, NEW g, NEW h, SameOrders(f, g), SameOrders(h, g)
  PROVE  SameOrders(f, h) /\ SameOrders(h, f) /\ SameOrders(g, f)
  BY DEF SameOrders

\* The vehicle of a move between real vehicles.
LEMMA RealVehicle ==
  ASSUME NEW f, Sound(call, f), NEW k \in 1..Len(f), ~is_phony(f[k])
  PROVE  f[k].idx \in RealTrucks
  BY DEF Sound, Fit, is_phony

\* What single_pair_insertion does.
LEMMA InsertionTakes ==
  ASSUME ListsInv, Sound(call, m_fleet), FleetFeasible(m_fleet),
         NEW intensify, NEW diversify, single_pair_insertion(intensify, diversify)
  PROVE  NeighbourhoodTaken
<1>1. PICK f \in BySize(m_fleet, TRUE) :
        \E found \in {BestInsertion(f, intensify, diversify)} :
          \/ NoMove(f, found)
          \/ \E c \in Range(found.choice) :
               MakeMove(found, Inserted(f, c), Move(f[c[1]].idx, f[c[3]].idx, c[2]),
                        {InsertionKey(f, c)})
  BY DEF single_pair_insertion
<1>2. Sound(call, f) /\ FleetFeasible(f) /\ SameOrders(m_fleet, f)
  BY <1>1, SortedSound
<1>3. SameOrders(f, m_fleet)
  BY <1>2 DEF SameOrders
<1>4. PICK found : /\ found = BestInsertion(f, intensify, diversify)
                   /\ \/ NoMove(f, found)
                      \/ \E c \in Range(found.choice) :
                           MakeMove(found, Inserted(f, c), Move(f[c[1]].idx, f[c[3]].idx, c[2]),
                                    {InsertionKey(f, c)})
  BY <1>1
<1>5. infeasible_list \in SUBSET Keys
  BY DEF ListsInv
<1>6. /\ found \in FoundType(Insertions(f))
      /\ \/ found.choice = <<>>
         \/ \E c \in Insertions(f) : found.choice = <<c>> /\ GoodInsertion(f, c)
  BY <1>2, <1>4, <1>5, BestInsertionIs
<1>7. CASE NoMove(f, found)
  BY <1>2, <1>3, <1>6, <1>7, NoMoveTakes
<1>8. CASE \E c \in Range(found.choice) :
             MakeMove(found, Inserted(f, c), Move(f[c[1]].idx, f[c[3]].idx, c[2]),
                      {InsertionKey(f, c)})
  <2>1. PICK c \in Range(found.choice) :
          MakeMove(found, Inserted(f, c), Move(f[c[1]].idx, f[c[3]].idx, c[2]),
                   {InsertionKey(f, c)})
    BY <1>8
  <2>2. c \in Insertions(f) /\ GoodInsertion(f, c)
    BY <1>6, <2>1 DEF Range
  <2> DEFINE g == Inserted(f, c)
             move == Move(f[c[1]].idx, f[c[3]].idx, c[2])
             keys == {InsertionKey(f, c)}
  <2>3. f \in Seq(VehicleType)
    BY <1>2 DEF Sound
  <2>4. /\ c[1] \in 1..Len(f) /\ c[2] \in Order /\ c[3] \in 1..Len(f)
        /\ ~is_phony(f[c[1]]) /\ ~is_phony(f[c[3]])
    BY <2>2, <2>3, InsertionsAre
  <2>5. is_feasible(g[c[1]]) /\ has_order(g[c[3]], c[2])
    BY <2>2 DEF GoodInsertion
  <2>6. Sound(call, g) /\ FleetFeasible(g) /\ SameOrders(g, f)
    BY <1>2, <2>2, <2>5, InsertedIs
  <2>7. move \in Moves
    <3>1. f[c[1]].idx \in RealTrucks /\ f[c[3]].idx \in RealTrucks
      BY <1>2, <2>4, RealVehicle
    <3>2. QED
      BY <2>4, <3>1 DEF Move, Moves
  <2>8. keys \in SUBSET Keys
    BY <2>3, <2>4 DEF InsertionKey, Keys
  <2>9. MakeMove(found, g, move, keys)
    BY <2>1
  <2> HIDE DEF g, move, keys
  <2>10. SameOrders(g, m_fleet)
    BY <1>2, <2>6, SameAsThird
  <2>11. QED
    BY <1>6, <2>6, <2>7, <2>8, <2>9, <2>10, MoveTakes
<1>9. QED
  BY <1>4, <1>7, <1>8

\* What swap_between_routes does.
LEMMA ExchangeTakes ==
  ASSUME ListsInv, Sound(call, m_fleet), FleetFeasible(m_fleet),
         NEW intensify, NEW diversify, swap_between_routes(intensify, diversify)
  PROVE  NeighbourhoodTaken
<1>1. PICK f \in BySize(m_fleet, FALSE) :
        \E found \in {BestExchange(f, intensify, diversify)} :
          \/ NoMove(f, found)
          \/ \E c \in Range(found.choice) : \E h \in {Apart(f, c)} :
               MakeMove(found, Exchanged(h, c), Swapping(f[c[1]].idx, f[c[3]].idx, c[2], c[4]),
                        {ToKey(h, c), FromKey(h, c)})
  BY DEF swap_between_routes
<1>2. Sound(call, f) /\ FleetFeasible(f) /\ SameOrders(m_fleet, f)
  BY <1>1, SortedSound
<1>3. SameOrders(f, m_fleet)
  BY <1>2 DEF SameOrders
<1>4. PICK found : /\ found = BestExchange(f, intensify, diversify)
                   /\ \/ NoMove(f, found)
                      \/ \E c \in Range(found.choice) :
                           MakeMove(found, Exchanged(Apart(f, c), c),
                                    Swapping(f[c[1]].idx, f[c[3]].idx, c[2], c[4]),
                                    {ToKey(Apart(f, c), c), FromKey(Apart(f, c), c)})
  BY <1>1
<1>5. infeasible_list \in SUBSET Keys
  BY DEF ListsInv
<1>6. /\ found \in FoundType(Exchanges(f))
      /\ \/ found.choice = <<>>
         \/ \E c \in Exchanges(f) : found.choice = <<c>> /\ GoodExchange(f, c)
  BY <1>2, <1>4, <1>5, BestExchangeIs
<1>7. CASE NoMove(f, found)
  BY <1>2, <1>3, <1>6, <1>7, NoMoveTakes
<1>8. CASE \E c \in Range(found.choice) :
             MakeMove(found, Exchanged(Apart(f, c), c),
                      Swapping(f[c[1]].idx, f[c[3]].idx, c[2], c[4]),
                      {ToKey(Apart(f, c), c), FromKey(Apart(f, c), c)})
  <2>1. PICK c \in Range(found.choice) :
          MakeMove(found, Exchanged(Apart(f, c), c),
                   Swapping(f[c[1]].idx, f[c[3]].idx, c[2], c[4]),
                   {ToKey(Apart(f, c), c), FromKey(Apart(f, c), c)})
    BY <1>8
  <2>2. c \in Exchanges(f) /\ GoodExchange(f, c)
    BY <1>6, <2>1 DEF Range
  <2> DEFINE h == Apart(f, c)
             g == Exchanged(h, c)
             move == Swapping(f[c[1]].idx, f[c[3]].idx, c[2], c[4])
             keys == {ToKey(h, c), FromKey(h, c)}
  <2>3. f \in Seq(VehicleType)
    BY <1>2 DEF Sound
  <2>4. /\ c[1] \in 1..Len(f) /\ c[2] \in Order /\ c[3] \in 1..Len(f) /\ c[4] \in Order
        /\ ~is_phony(f[c[1]]) /\ ~is_phony(f[c[3]])
    BY <2>2, <2>3, ExchangesAre
  <2>5. has_order(g[c[1]], c[4]) /\ has_order(g[c[3]], c[2])
    BY <2>2 DEF GoodExchange
  <2>6. /\ h[c[1]] \in VehicleType /\ h[c[3]] \in VehicleType
        /\ Sound(call, g) /\ FleetFeasible(g) /\ SameOrders(g, f)
    BY <1>2, <2>2, <2>5, ExchangedIs
  <2>7. move \in Moves
    <3>1. f[c[1]].idx \in RealTrucks /\ f[c[3]].idx \in RealTrucks
      BY <1>2, <2>4, RealVehicle
    <3>2. QED
      BY <2>4, <3>1 DEF Swapping, Moves
  <2>8. MakeMove(found, g, move, keys)
    BY <2>1
  <2> HIDE DEF h
  <2>9. keys \in SUBSET Keys
    BY <2>4, <2>6 DEF ToKey, FromKey, Keys
  <2> HIDE DEF g, move, keys
  <2>10. SameOrders(g, m_fleet)
    BY <1>2, <2>6, SameAsThird
  <2>11. QED
    BY <1>6, <2>6, <2>7, <2>8, <2>9, <2>10, MoveTakes
<1>9. QED
  BY <1>4, <1>7, <1>8

\* The data of the search: all but the control.
DataInv == GivenInv /\ SolutionsInv /\ AccountInv /\ ListsInv

\* A step of the search that changes nothing of the initial solution, and keeps
\* the orders of the current one.
LEMMA GivenKept ==
  ASSUME GivenInv, AccountInv, pc = "start" \/ Searching,
         pc' \notin {"stops", "unused", "phony", "start", "failed"}, UNCHANGED given,
         OrdersOn(m_fleet') = OrdersOn(m_fleet), Aboard(m_fleet') = Aboard(m_fleet)
  PROVE  GivenInv' /\ AccountInv'
<1>1. /\ call' = call /\ trucks' = trucks /\ to_place' = to_place
      /\ m_all_orders' = m_all_orders /\ m_assigned' = m_assigned
      /\ m_unassigned' = m_unassigned
  BY DEF given, orders
<1>2. pc \notin {"stops", "failed"}
  BY DEF Searching
<1>3. GivenInv'
  BY <1>1, <1>2 DEF GivenInv, Waiting
<1>4. /\ Aboard(m_fleet) = RealTrucks /\ m_all_orders \subseteq m_assigned
      /\ m_assigned \subseteq OrdersOn(m_fleet) \cup AllPinned(call) \cup Elsewhere(call)
  BY DEF AccountInv
<1>5. /\ Aboard(m_fleet') = RealTrucks /\ m_all_orders' \subseteq m_assigned'
      /\ m_assigned' \subseteq OrdersOn(m_fleet') \cup AllPinned(call') \cup Elsewhere(call')
  BY <1>1, <1>4
<1>6. AccountInv'
  BY <1>5 DEF AccountInv
<1>7. QED
  BY <1>3, <1>6

\* A step of the search that keeps the orders of the current solution, and
\* makes it the best one or does not.
LEMMA SearchKeeps ==
  ASSUME GivenInv, SolutionsInv, AccountInv, ListsInv', Searching,
         pc' \notin {"stops", "unused", "phony", "start", "failed"}, UNCHANGED given,
         Sound(call, m_fleet'), FleetFeasible(m_fleet'), SameOrders(m_fleet', m_fleet),
         best_solution' = best_solution \/ best_solution' = m_fleet',
         UNCHANGED m_unassignedOrders
  PROVE  DataInv'
<1>1. GivenInv' /\ AccountInv' /\ call' = call
  BY GivenKept DEF given, SameOrders
<1>2. /\ Sound(call, m_fleet) /\ Sound(call, best_solution) /\ m_unassignedOrders \subseteq Order
      /\ FleetFeasible(m_fleet) /\ FleetFeasible(best_solution)
      /\ SameOrders(m_fleet, best_solution) /\ PhonyOrders(m_fleet) = m_unassignedOrders
  BY DEF SolutionsInv
<1>3. /\ Sound(call', best_solution') /\ FleetFeasible(best_solution') /\ Sound(call', m_fleet')
  BY <1>1, <1>2
<1>4. SameOrders(m_fleet', best_solution') /\ PhonyOrders(m_fleet') = m_unassignedOrders'
  BY <1>2 DEF SameOrders
<1>5. SolutionsInv'
  BY <1>2, <1>3, <1>4 DEF SolutionsInv
<1>6. QED
  BY <1>1, <1>5 DEF DataInv

\* A step that changes neither the solutions nor the lists.
LEMMA RestKeeps ==
  ASSUME DataInv, Searching,
         pc' \notin {"stops", "unused", "phony", "start", "failed"},
         UNCHANGED <<given, solutions, lists>>
  PROVE  DataInv'
<1>1. ListsInv'
  BY DEF DataInv, ListsInv, lists, max_length
<1>2. /\ m_fleet' = m_fleet /\ best_solution' = best_solution
      /\ m_unassignedOrders' = m_unassignedOrders
  BY DEF solutions
<1>3. Sound(call, m_fleet') /\ FleetFeasible(m_fleet') /\ SameOrders(m_fleet', m_fleet)
  BY <1>2 DEF DataInv, SolutionsInv, SameOrders
<1>4. QED
  BY <1>1, <1>2, <1>3, SearchKeeps DEF DataInv

\* A step that is a neighbourhood.
LEMMA NeighbourhoodKeeps ==
  ASSUME DataInv, Searching,
         pc' \notin {"stops", "unused", "phony", "start", "failed"},
         UNCHANGED given, NeighbourhoodTaken
  PROVE  DataInv'
<1>1. /\ Sound(call, m_fleet') /\ FleetFeasible(m_fleet') /\ SameOrders(m_fleet', m_fleet)
      /\ best_solution' = best_solution \/ best_solution' = save_if_best(m_fleet')
      /\ UNCHANGED m_unassignedOrders /\ ListsInv'
  BY DEF NeighbourhoodTaken
<1>2. best_solution' = best_solution \/ best_solution' = m_fleet'
  BY <1>1 DEF save_if_best
<1>3. QED
  BY <1>1, <1>2, SearchKeeps DEF DataInv

\* A step that goes back to the best solution.
LEMMA BestAgainKeeps ==
  ASSUME DataInv, Searching,
         pc' \notin {"stops", "unused", "phony", "start", "failed"},
         m_fleet' = best_solution, UNCHANGED <<given, best_solution, m_unassignedOrders, lists>>
  PROVE  DataInv'
<1>1. ListsInv'
  BY DEF DataInv, ListsInv, lists, max_length
<1>2. /\ Sound(call, best_solution) /\ FleetFeasible(best_solution)
      /\ SameOrders(best_solution, m_fleet)
  BY DEF DataInv, SolutionsInv, SameOrders
<1>3. Sound(call, m_fleet') /\ FleetFeasible(m_fleet') /\ SameOrders(m_fleet', m_fleet)
  BY <1>2
<1>4. QED
  BY <1>1, <1>3, SearchKeeps DEF DataInv

\* A solution without its empty phony vehicles is one of the same orders.
LEMMA DeletedSound ==
  ASSUME NEW fleet, Sound(call, fleet), FleetFeasible(fleet), NEW g, g = delete_empty_truck(fleet)
  PROVE  Sound(call, g) /\ FleetFeasible(g) /\ SameOrders(g, fleet)
<1> DEFINE S == {k \in 1..Len(fleet) : ~(fleet[k].orders = {} /\ is_phony(fleet[k]))}
<1>1. fleet \in Seq(VehicleType)
  BY DEF Sound
<1>2. Selects(fleet, g, S)
  BY <1>1, DeletedIs
<1>3. /\ S \in SUBSET (1..Len(fleet))
      /\ \A l \in 1..Len(fleet) : l \notin S => fleet[l].orders = {} /\ is_phony(fleet[l])
  OBVIOUS
<1> HIDE DEF S
<1>4. Sound(call, g) /\ FleetFeasible(g) /\ SameOrders(fleet, g)
  BY <1>2, <1>3, SelectionSound
<1>5. QED
  BY <1>4 DEF SameOrders

\* A step that may delete the empty phony vehicles.
LEMMA DeletingKeeps ==
  ASSUME DataInv, Searching,
         pc' \notin {"stops", "unused", "phony", "start", "failed"},
         m_fleet' = m_fleet \/ m_fleet' = delete_empty_truck(m_fleet),
         UNCHANGED <<given, best_solution, m_unassignedOrders, lists>>
  PROVE  DataInv'
<1>1. ListsInv'
  BY DEF DataInv, ListsInv, lists, max_length
<1>2. Sound(call, m_fleet) /\ FleetFeasible(m_fleet)
  BY DEF DataInv, SolutionsInv
<1> DEFINE g == delete_empty_truck(m_fleet)
<1>3. g = delete_empty_truck(m_fleet)
  OBVIOUS
<1> HIDE DEF g
<1>4. Sound(call, g) /\ FleetFeasible(g) /\ SameOrders(g, m_fleet)
  BY <1>2, <1>3, DeletedSound
<1>5. Sound(call, m_fleet') /\ FleetFeasible(m_fleet') /\ SameOrders(m_fleet', m_fleet)
  BY <1>2, <1>3, <1>4 DEF SameOrders
<1>6. QED
  BY <1>1, <1>5, SearchKeeps DEF DataInv

\* move_2_real.
LEMMA MoveToRealKeeps ==
  ASSUME DataInv, ControlInv, MoveToReal
  PROVE  DataInv'
<1>1. PICK r : /\ r = Placed /\ m_fleet' = r.fleet /\ m_unassignedOrders' = r.left
               /\ best_solution' = r.best
               /\ tabu_list' = IF r.left = m_unassignedOrders THEN tabu_list ELSE <<>>
  BY DEF MoveToReal
<1>2. /\ pc = "move_2_real" /\ pc' = resume
      /\ UNCHANGED <<infeasible_list, seen_list, given>>
  BY DEF MoveToReal
<1>3. pc' \notin {"stops", "unused", "phony", "start", "failed"} /\ Searching
  BY <1>2 DEF ControlInv, Searching
<1>4. /\ Sound(call, m_fleet) /\ Sound(call, best_solution) /\ m_unassignedOrders \in SUBSET Order
      /\ FleetFeasible(m_fleet) /\ FleetFeasible(best_solution)
      /\ SameOrders(m_fleet, best_solution) /\ PhonyOrders(m_fleet) = m_unassignedOrders
  BY <1>3 DEF DataInv, SolutionsInv
<1>5. best_solution \in Seq(VehicleType)
  BY <1>4 DEF Sound
<1>6. \/ r = [fleet |-> m_fleet, left |-> m_unassignedOrders, best |-> best_solution]
      \/ PlacedWell(r)
  BY <1>1, <1>4, <1>5, PlacedIs
<1>7. CASE r = [fleet |-> m_fleet, left |-> m_unassignedOrders, best |-> best_solution]
  <2>1. UNCHANGED <<given, solutions, lists>>
    BY <1>1, <1>2, <1>7 DEF solutions, lists
  <2>2. QED
    BY <1>2, <1>3, <2>1, RestKeeps
<1>8. CASE PlacedWell(r)
  <2>1. /\ r \in PlacingType /\ Sound(call, r.fleet) /\ FleetFeasible(r.fleet)
        /\ r.left = PhonyOrders(r.fleet) /\ r.best = r.fleet
        /\ OrdersOn(r.fleet) = OrdersOn(m_fleet) /\ Aboard(r.fleet) = Aboard(m_fleet)
    BY <1>8 DEF PlacedWell
  <2>2. r.left \subseteq Order
    BY <2>1 DEF PlacingType
  <2>3. SolutionsInv'
    <3>1. /\ Sound(call', m_fleet') /\ Sound(call', best_solution')
          /\ m_unassignedOrders' \subseteq Order
          /\ FleetFeasible(m_fleet') /\ FleetFeasible(best_solution')
          /\ SameOrders(m_fleet', best_solution') /\ PhonyOrders(m_fleet') = m_unassignedOrders'
      BY <1>1, <1>2, <2>1, <2>2 DEF SameOrders, given
    <3>2. QED
      BY <1>3, <3>1 DEF SolutionsInv
  <2>4. GivenInv' /\ AccountInv'
    <3>1. OrdersOn(m_fleet') = OrdersOn(m_fleet) /\ Aboard(m_fleet') = Aboard(m_fleet)
      BY <1>1, <2>1
    <3>2. QED
      BY <1>2, <1>3, <3>1, GivenKept DEF DataInv
  <2>5. ListsInv'
    <3>1. /\ <<>> \in Seq(Moves) /\ Len(<<>>) = 0 /\ DOMAIN <<>> = {}
      OBVIOUS
    <3>2. IsInjective(<<>>) /\ Len(<<>>) <= max_length
      BY <3>1, ListsHaveRoom DEF IsInjective
    <3>3. /\ tabu_list' \in Seq(Moves) /\ IsInjective(tabu_list') /\ Len(tabu_list') <= max_length
      BY <1>1, <3>1, <3>2 DEF DataInv, ListsInv
    <3>4. QED
      BY <1>2, <3>3 DEF DataInv, ListsInv, max_length
  <2>6. QED
    BY <2>3, <2>4, <2>5 DEF DataInv
<1>9. QED
  BY <1>6, <1>7, <1>8

\* The constructor.
LEMMA StartKeeps ==
  ASSUME DataInv, Start
  PROVE  DataInv'
<1>1. /\ pc = "start" /\ best_solution' = m_fleet
      /\ m_fleet' \in BySize(m_fleet, TRUE) /\ m_unassignedOrders' = PhonyOrders(m_fleet')
      /\ pc' = "move_2_real" /\ UNCHANGED <<lists, given>>
  BY DEF Start
<1>2. Sound(call, m_fleet) /\ FleetFeasible(m_fleet)
  BY <1>1 DEF DataInv, SolutionsInv
<1> DEFINE g == m_fleet'
<1>3. Sound(call, g) /\ FleetFeasible(g) /\ SameOrders(m_fleet, g)
  <2>1. g \in BySize(m_fleet, TRUE)
    BY <1>1
  <2> HIDE DEF g
  <2>2. QED
    BY <1>2, <2>1, SortedSound
<1>4. m_unassignedOrders' \subseteq Order
  <2> HIDE DEF g
  <2>1. g \in Seq(VehicleType)
    BY <1>3 DEF Sound
  <2>2. \A k \in 1..Len(g) : g[k].orders \subseteq Order
    BY <2>1, VehicleFacts
  <2>3. \A o : o \in PhonyOrders(g) => \E k \in 1..Len(g) : o \in g[k].orders
    BY <2>1, OrdersByPosition
  <2>4. PhonyOrders(g) \subseteq Order
    BY <2>2, <2>3
  <2>5. QED
    BY <1>1, <2>4 DEF g
<1>5. GivenInv' /\ AccountInv'
  <2>1. OrdersOn(m_fleet') = OrdersOn(m_fleet) /\ Aboard(m_fleet') = Aboard(m_fleet)
    BY <1>3 DEF SameOrders
  <2>2. QED
    BY <1>1, <2>1, GivenKept DEF DataInv
<1>6. ListsInv'
  BY <1>1 DEF DataInv, ListsInv, lists, max_length
<1>7. SolutionsInv'
  <2>1. /\ Sound(call', m_fleet') /\ Sound(call', best_solution')
        /\ FleetFeasible(m_fleet') /\ FleetFeasible(best_solution')
        /\ SameOrders(m_fleet', best_solution') /\ PhonyOrders(m_fleet') = m_unassignedOrders'
    BY <1>1, <1>2, <1>3 DEF SameOrders, given
  <2>2. QED
    BY <1>1, <1>4, <2>1 DEF SolutionsInv
<1>8. QED
  BY <1>5, <1>6, <1>7 DEF DataInv

\* The counters of the loops that the code bounds.
LEMMA Limits ==
  /\ max_no_swaps \in Nat /\ max_no_moves \in Nat /\ max_no_swaps + max_no_moves > 0
  BY LimitsAssumption

\* The objective of the best solution is a number of the code.
LEMMA BestObjective ==
  ASSUME DataInv
  PROVE  FleetObjective(best_solution) \in Nat
<1>1. Sound(call, best_solution)
  BY DEF DataInv, SolutionsInv
<1>2. QED
  BY <1>1, SoundTravels, FiguresAreNatural

\* A neighbourhood answers whether it has moved.
LEMMA MovedIsBoolean ==
  ASSUME NeighbourhoodTaken
  PROVE  moved' \in BOOLEAN
  BY DEF NeighbourhoodTaken

\* The control: the initial solution and the constructor.
LEMMA InitialControl ==
  ASSUME ControlInv, BuildInitial \/ Start \/ Prepared \/ Finish \/ MoveToReal
  PROVE  ControlInv'
<1>1. CASE BuildInitial
  <2>1. /\ pc \in {"stops", "unused", "phony"}
        /\ pc' \in {"stops", "unused", "phony", "start", "failed"}
        /\ UNCHANGED <<call, moved, counters, locals, resume, after_intensify>>
    BY <1>1 DEF BuildInitial, Initial_solution, SetStops, UseGiven, AddUnused, Place, AllPlaced
  <2>2. QED
    BY <2>1 DEF ControlInv, Turning, Intensifying, counters, locals, m_max_cycles
<1>2. CASE Start
  BY <1>2 DEF Start, ControlInv, Turning, Intensifying, counters, locals, m_max_cycles, given
<1>3. CASE Prepared
  BY <1>3 DEF Prepared, ControlInv, Turning, Intensifying, counters, locals, m_max_cycles, given
<1>4. CASE Finish
  BY <1>4 DEF Finish, ControlInv, Turning, Intensifying, counters, locals, m_max_cycles, given
<1>5. CASE MoveToReal
  BY <1>5 DEF MoveToReal, ControlInv, Turning, Intensifying, counters, locals, m_max_cycles, given
<1>6. QED
  BY <1>1, <1>2, <1>3, <1>4, <1>5

\* The control: the loop of tabu_search.
LEMMA LoopControl ==
  ASSUME ControlInv, DataInv, Cycle \/ Stuck \/ Explored \/ Counted \/ NextTurn
  PROVE  ControlInv'
<1>1. CASE Cycle
  <2>1. FleetObjective(best_solution) \in Nat
    BY BestObjective
  <2>2. curr_best' \in Nat
    BY <1>1, <2>1 DEF Cycle, ControlInv
  <2>3. QED
    BY <1>1, <2>2 DEF Cycle, ControlInv, Turning, Intensifying, locals, m_max_cycles, given
<1>2. CASE Stuck
  BY <1>2 DEF Stuck, ControlInv, Turning, Intensifying, counters, locals, m_max_cycles, given
<1>3. CASE Explored
  BY <1>3 DEF Explored, ControlInv, Turning, Intensifying, counters, locals, m_max_cycles, given
<1>4. CASE Counted
  <2>1. no_moves \in 0..(max_no_swaps + max_no_moves) /\ pc = "counted"
        /\ no_moves # max_no_swaps + max_no_moves
    BY <1>4 DEF Counted, ControlInv, Intensifying
  <2>2. no_moves' \in 0..(max_no_swaps + max_no_moves)
    BY <1>4, <2>1, Limits DEF Counted
  <2>3. pc' \in {"finish", "intensify", "judge"}
        /\ (pc' = "intensify" => after_intensify' = "judge")
        /\ (pc' # "intensify" => after_intensify' = after_intensify)
    BY <1>4 DEF Counted
  <2>4. iter < m_max_cycles
    BY <2>1 DEF ControlInv, Turning
  <2>5. UNCHANGED <<given, moved, iter, stuck_counter, curr_best, intensification, locals, resume>>
    BY <1>4 DEF Counted
  <2>6. QED
    BY <2>2, <2>3, <2>4, <2>5 DEF ControlInv, Turning, Intensifying, locals, m_max_cycles, given
<1>5. CASE NextTurn
  <2>1. /\ iter < m_max_cycles /\ iter \in 0..m_max_cycles /\ m_max_cycles \in Nat
        /\ no_moves # max_no_swaps + max_no_moves
    BY <1>5, CallsAssumption DEF NextTurn, ControlInv, Turning, Intensifying, m_max_cycles
  <2>2. iter' \in 0..m_max_cycles
    BY <1>5, <2>1 DEF NextTurn
  <2>3. /\ pc' = "cycle"
        /\ UNCHANGED <<given, moved, no_moves, stuck_counter, curr_best, intensification,
                       locals, resume, after_intensify>>
    BY <1>5 DEF NextTurn
  <2>4. QED
    BY <2>1, <2>2, <2>3 DEF ControlInv, Turning, Intensifying, locals, m_max_cycles, given
<1>6. QED
  BY <1>1, <1>2, <1>3, <1>4, <1>5

\* The control: the end of a turn.
LEMMA JudgeControl ==
  ASSUME ControlInv, Judge
  PROVE  ControlInv'
<1>1. pc = "judge" /\ stuck_counter \in Nat /\ no_moves \in 0..(max_no_swaps + max_no_moves)
      /\ i \in Nat /\ intensification \in BOOLEAN /\ moved \in BOOLEAN
      /\ after_intensify \in {"stuck", "judge", "next"} /\ iter < m_max_cycles
  BY DEF Judge, ControlInv, Turning
<1>2. UNCHANGED <<given, iter, no_moves, curr_best, do_spi, do_sbr, resume>>
  BY DEF Judge
<1>3. stuck_counter' \in Nat
  BY <1>1 DEF Judge
<1>4. i' \in Nat /\ moved' \in BOOLEAN
  <2>1. (i' = i /\ moved' = moved) \/ (i' = 0 /\ moved' = TRUE)
    BY Zenon DEF Judge
  <2>2. i' \in Nat
    <3>1. i' = i \/ i' = 0
      BY <2>1
    <3>2. QED
      BY <1>1, <3>1
  <2>3. moved' \in BOOLEAN
    <3>1. moved' = moved \/ moved' = TRUE
      BY <2>1
    <3>2. QED
      BY <1>1, <3>1
  <2>4. QED
    BY <2>2, <2>3
<1>5. intensification' \in BOOLEAN
  BY <1>1 DEF Judge
<1>6. /\ pc' \in {"finish", "next", "intensify", "diversify"}
      /\ pc' = "intensify" => after_intensify' = "next"
      /\ after_intensify' \in {"stuck", "judge", "next"}
  BY <1>1 DEF Judge
<1>7. pc' # "finish" => no_moves # max_no_swaps + max_no_moves
  BY <1>1, Limits DEF Judge
<1>8. QED
  BY <1>1, <1>2, <1>3, <1>4, <1>5, <1>6, <1>7
     DEF ControlInv, Turning, Intensifying, m_max_cycles, given

\* The control: intensify and diversify.
LEMMA LocalControl ==
  ASSUME ControlInv, Intensify \/ InsertsTried \/ ExchangesTried \/ Diversify
  PROVE  ControlInv'
<1>1. CASE Intensify
  BY <1>1 DEF Intensify, ControlInv, Turning, Intensifying, counters, m_max_cycles, given
<1>2. CASE InsertsTried
  BY <1>2 DEF InsertsTried, ControlInv, Turning, Intensifying, counters, m_max_cycles, given
<1>3. CASE ExchangesTried
  BY <1>3 DEF ExchangesTried, ControlInv, Turning, Intensifying, counters, locals, m_max_cycles, given
<1>4. CASE Diversify
  BY <1>4 DEF Diversify, ControlInv, Turning, Intensifying, counters, locals, m_max_cycles, given
<1>5. QED
  BY <1>1, <1>2, <1>3, <1>4

\* The control: the calls of a neighbourhood, which go on at the next place of
\* the program.
LEMMA CallControl ==
  ASSUME ControlInv, NeighbourhoodTaken,
         \/ pc = "explore" /\ pc' = "explored" /\ UNCHANGED <<given, counters, locals, resume, after_intensify>>
         \/ IntensifyInsert \/ IntensifyExchange
  PROVE  ControlInv'
<1>1. moved' \in BOOLEAN
  BY MovedIsBoolean
<1>2. CASE pc = "explore" /\ pc' = "explored"
           /\ UNCHANGED <<given, counters, locals, resume, after_intensify>>
  BY <1>1, <1>2 DEF ControlInv, Turning, Intensifying, counters, locals, m_max_cycles, given
<1>3. CASE IntensifyInsert
  <2>1. /\ pc = "insert" /\ resume' = "insert" /\ pc' \in {"move_2_real", "insert"}
        /\ do_spi' = moved' /\ i' = i + 1
        /\ UNCHANGED <<given, counters, do_sbr, after_intensify>>
    BY <1>3 DEF IntensifyInsert
  <2>2. i' \in Nat
    BY <2>1 DEF ControlInv
  <2>3. QED
    BY <1>1, <2>1, <2>2 DEF ControlInv, Turning, Intensifying, counters, m_max_cycles, given
<1>4. CASE IntensifyExchange
  <2>1. /\ pc = "exchange" /\ resume' = "exchange" /\ pc' \in {"move_2_real", "exchange"}
        /\ do_sbr' = moved' /\ i' = i + 1
        /\ UNCHANGED <<given, counters, do_spi, after_intensify>>
    BY <1>4 DEF IntensifyExchange
  <2>2. i' \in Nat
    BY <2>1 DEF ControlInv
  <2>3. QED
    BY <1>1, <2>1, <2>2 DEF ControlInv, Turning, Intensifying, counters, m_max_cycles, given
<1>5. QED
  BY <1>2, <1>3, <1>4

\* A number, or the next one.
LEMMA NextNatural ==
  ASSUME NEW a \in Nat, NEW b, b = a \/ b = a + 1
  PROVE  b \in Nat
  OBVIOUS

\* The control: the calls that diversify makes.
LEMMA DiversifyControl ==
  ASSUME ControlInv, NeighbourhoodTaken,
         NEW here \in {"unseen insert", "unseen exchange", "any exchange"},
         NEW otherwise \in {"unseen exchange", "any exchange", "diversify"},
         pc = here, i' = i \/ i' = i + 1, resume' = "diversify",
         pc' \in {otherwise, "diversify", "move_2_real"},
         UNCHANGED <<given, counters, do_spi, do_sbr, after_intensify>>
  PROVE  ControlInv'
<1>1. moved' \in BOOLEAN
  BY MovedIsBoolean
<1>2. i' \in Nat
  <2>1. i \in Nat
    BY DEF ControlInv
  <2>2. QED
    BY <2>1, NextNatural
<1>3. QED
  BY <1>1, <1>2 DEF ControlInv, Turning, Intensifying, counters, m_max_cycles, given

\* A call of a neighbourhood keeps the invariant.
LEMMA CallsKeep ==
  ASSUME ControlInv, DataInv, Explore \/ IntensifyInsert \/ IntensifyExchange
  PROVE  ControlInv' /\ DataInv'
<1>1. /\ pc \in {"explore", "insert", "exchange"}
      /\ pc' \in {"explored", "insert", "exchange", "move_2_real"} /\ UNCHANGED given
  BY DEF Explore, IntensifyInsert, IntensifyExchange
<1>2. Searching /\ pc' \notin {"stops", "unused", "phony", "start", "failed"}
  BY <1>1 DEF Searching
<1>3. ListsInv /\ Sound(call, m_fleet) /\ FleetFeasible(m_fleet)
  BY <1>2 DEF DataInv, SolutionsInv
<1>4. \E intensify, diversify \in BOOLEAN :
        single_pair_insertion(intensify, diversify) \/ swap_between_routes(intensify, diversify)
  BY DEF Explore, IntensifyInsert, IntensifyExchange
<1>5. NeighbourhoodTaken
  BY <1>3, <1>4, InsertionTakes, ExchangeTakes
<1>6. \/ pc = "explore" /\ pc' = "explored" /\ UNCHANGED <<given, counters, locals, resume, after_intensify>>
      \/ IntensifyInsert \/ IntensifyExchange
  BY DEF Explore
<1>7. QED
  BY <1>1, <1>2, <1>5, <1>6, NeighbourhoodKeeps, CallControl

\* So does one that diversify makes.
LEMMA DiversifyingKeeps ==
  ASSUME ControlInv, DataInv, InsertUnseen \/ ExchangeUnseen \/ ExchangeAny
  PROVE  ControlInv' /\ DataInv'
<1>1. PICK here \in {"unseen insert", "unseen exchange", "any exchange"},
           otherwise \in {"unseen exchange", "any exchange", "diversify"} :
        /\ pc = here /\ i' \in {i, i + 1} /\ resume' = "diversify"
        /\ pc' \in {otherwise, "diversify", "move_2_real"}
        /\ UNCHANGED <<given, counters, do_spi, do_sbr, after_intensify>>
        /\ \E diversify \in BOOLEAN :
             single_pair_insertion(FALSE, diversify) \/ swap_between_routes(FALSE, diversify)
  <2>1. CASE InsertUnseen
    BY <2>1 DEF InsertUnseen, DiversifyBy
  <2>2. CASE ExchangeUnseen
    BY <2>2 DEF ExchangeUnseen, DiversifyBy
  <2>3. CASE ExchangeAny
    BY <2>3 DEF ExchangeAny, DiversifyBy
  <2>4. QED
    BY <2>1, <2>2, <2>3
<1>2. /\ Searching /\ pc' \notin {"stops", "unused", "phony", "start", "failed"}
      /\ UNCHANGED given
  BY <1>1 DEF Searching
<1>3. ListsInv /\ Sound(call, m_fleet) /\ FleetFeasible(m_fleet)
  BY <1>2 DEF DataInv, SolutionsInv
<1>4. NeighbourhoodTaken
  BY <1>1, <1>3, InsertionTakes, ExchangeTakes
<1>5. DataInv'
  BY <1>2, <1>4, NeighbourhoodKeeps
<1>6. ControlInv'
  BY <1>1, <1>4, DiversifyControl
<1>7. QED
  BY <1>5, <1>6

\* The initial states.
LEMMA InitIsSound ==
  ASSUME Init
  PROVE  DataInv /\ ControlInv
<1>1. /\ call \in Calls /\ m_all_orders = UNION {feasible_orders[v] : v \in Truck}
      /\ m_unassigned = m_all_orders /\ m_assigned = {} /\ trucks = <<>> /\ to_place = {}
      /\ m_fleet = <<>> /\ pc = "stops"
      /\ best_solution = <<>> /\ m_unassignedOrders = {}
      /\ tabu_list = <<>> /\ infeasible_list = {} /\ seen_list = {} /\ moved = FALSE
      /\ iter = 0 /\ no_moves = 0 /\ stuck_counter = 0 /\ curr_best = 0
      /\ intensification = FALSE /\ i = 0 /\ do_spi = TRUE /\ do_sbr = TRUE
      /\ resume = "prepared" /\ after_intensify = "stuck"
  BY DEF Init, InitialInit
<1>2. m_all_orders \subseteq Order
  BY <1>1 DEF feasible_orders
<1>3. GivenInv /\ AccountInv
  <2>1. GivenTrucks(call, trucks, m_assigned) /\ AllAccounted(call, trucks, m_assigned)
    BY <1>1, EmptySound DEF GivenTrucks, AllAccounted
  <2>2. GivenInv
    BY <1>1, <1>2, <2>1 DEF GivenInv
  <2>3. AccountInv
    BY <1>1, <2>1 DEF AccountInv, Searching
  <2>4. QED
    BY <2>2, <2>3
<1>4. SolutionsInv
  BY <1>1, EmptySound DEF SolutionsInv, Searching
<1>5. ListsInv
  <2>1. /\ <<>> \in Seq(Moves) /\ Len(<<>>) = 0 /\ DOMAIN <<>> = {}
    OBVIOUS
  <2>2. IsInjective(<<>>) /\ Len(<<>>) <= max_length
    BY <2>1, ListsHaveRoom DEF IsInjective
  <2>3. QED
    BY <1>1, <2>1, <2>2 DEF ListsInv
<1>6. ControlInv
  <2>1. m_max_cycles \in Nat
    BY <1>1, CallsAssumption DEF m_max_cycles
  <2>2. 0 \in 0..m_max_cycles /\ 0 \in 0..(max_no_swaps + max_no_moves)
        /\ 0 # max_no_swaps + max_no_moves
    BY <2>1, Limits
  <2>3. iter \in 0..m_max_cycles /\ no_moves \in 0..(max_no_swaps + max_no_moves)
        /\ no_moves # max_no_swaps + max_no_moves
    BY <1>1, <2>2
  <2>4. {moved, intensification, do_spi, do_sbr} \subseteq BOOLEAN
    BY <1>1
  <2>5. {stuck_counter, curr_best, i} \subseteq Nat /\ ~Turning
    BY <1>1 DEF Turning, Intensifying
  <2>6. QED
    BY <1>1, <2>3, <2>4, <2>5 DEF ControlInv
<1>7. QED
  BY <1>3, <1>4, <1>5, <1>6 DEF DataInv

\* Every step keeps the invariant.
LEMMA StepKeeps ==
  ASSUME IInv, [Next]_vars
  PROVE  IInv'
<1>1. ControlInv /\ DataInv
  BY DEF IInv, DataInv
<1>2. SUFFICES ControlInv' /\ DataInv'
  BY DEF IInv, DataInv
<1>3. CASE UNCHANGED vars \/ Terminated
  <2>1. UNCHANGED vars
    BY <1>3 DEF Terminated
  <2>2. /\ UNCHANGED <<given, solutions, lists, counters, locals>>
        /\ moved' = moved /\ resume' = resume /\ after_intensify' = after_intensify /\ pc' = pc
    BY <2>1 DEF vars
  <2>3. ControlInv'
    <3>1. /\ call' = call /\ iter' = iter /\ no_moves' = no_moves
          /\ stuck_counter' = stuck_counter /\ curr_best' = curr_best
          /\ intensification' = intensification
          /\ i' = i /\ do_spi' = do_spi /\ do_sbr' = do_sbr
      BY <2>2 DEF given, counters, locals
    <3>2. Intensifying' = Intensifying /\ Turning' = Turning /\ m_max_cycles' = m_max_cycles
      BY <2>2, <3>1 DEF Turning, Intensifying, m_max_cycles
    <3>3. QED
      BY <1>1, <2>2, <3>1, <3>2, ZenonT(60) DEF ControlInv
  <2>4. GivenInv' /\ AccountInv'
    <3>1. /\ call' = call /\ trucks' = trucks /\ to_place' = to_place
          /\ m_all_orders' = m_all_orders /\ m_assigned' = m_assigned
          /\ m_unassigned' = m_unassigned /\ m_fleet' = m_fleet
      BY <2>2 DEF given, orders, solutions
    <3>2. GivenInv'
      BY <1>1, <2>2, <3>1 DEF DataInv, GivenInv, Waiting
    <3>3. AccountInv'
      BY <1>1, <2>2, <3>1 DEF DataInv, AccountInv, Searching
    <3>4. QED
      BY <3>2, <3>3
  <2>5. SolutionsInv'
    <3>1. m_fleet' = m_fleet /\ best_solution' = best_solution
          /\ m_unassignedOrders' = m_unassignedOrders /\ m_assigned' = m_assigned
          /\ call' = call
      BY <2>2 DEF solutions, given, orders
    <3>2. Searching' = Searching
      BY <2>2 DEF Searching
    <3>3. QED
      BY <1>1, <2>2, <3>1, <3>2 DEF DataInv, SolutionsInv
  <2>6. ListsInv'
    BY <1>1, <2>2 DEF DataInv, ListsInv, lists, max_length
  <2>7. QED
    BY <2>3, <2>4, <2>5, <2>6 DEF DataInv
<1>4. CASE BuildInitial
  <2>1. /\ Initial_solution /\ UNCHANGED <<best_solution, m_unassignedOrders, lists>>
    BY <1>4 DEF BuildInitial
  <2>2. ListsInv'
    BY <1>1, <2>1 DEF DataInv, ListsInv, lists, max_length
  <2>3. GivenInv' /\ SolutionsInv' /\ AccountInv'
    BY <1>1, <2>1, InitialKeeps DEF DataInv
  <2>4. QED
    BY <1>1, <1>4, <2>2, <2>3, InitialControl DEF DataInv
<1>5. CASE Start
  BY <1>1, <1>5, StartKeeps, InitialControl
<1>6. CASE Prepared \/ Explored
  <2>1. /\ Searching /\ pc' \notin {"stops", "unused", "phony", "start", "failed"}
        /\ m_fleet' = m_fleet \/ m_fleet' = delete_empty_truck(m_fleet)
        /\ UNCHANGED <<given, best_solution, m_unassignedOrders, lists>>
    BY <1>6 DEF Prepared, Explored, Searching
  <2>2. QED
    BY <1>1, <1>6, <2>1, DeletingKeeps, InitialControl, LoopControl
<1>7. CASE Cycle \/ Stuck \/ Counted \/ Judge \/ NextTurn \/ InsertsTried \/ ExchangesTried \/ Diversify
  <2>1. Searching /\ UNCHANGED <<given, solutions, lists>>
    BY <1>7 DEF Cycle, Stuck, Counted, Judge, NextTurn, InsertsTried, ExchangesTried, Diversify,
                Searching
  <2>2. pc' \notin {"stops", "unused", "phony", "start", "failed"}
    BY <1>1, <1>7 DEF Cycle, Stuck, Counted, Judge, NextTurn, InsertsTried, ExchangesTried, Diversify,
                      ControlInv
  <2>3. QED
    BY <1>1, <1>7, <2>1, <2>2, RestKeeps, LoopControl, JudgeControl, LocalControl
<1>8. CASE Intensify \/ Finish
  <2>1. /\ Searching /\ pc' \notin {"stops", "unused", "phony", "start", "failed"}
        /\ m_fleet' = best_solution
        /\ UNCHANGED <<given, best_solution, m_unassignedOrders, lists>>
    BY <1>8 DEF Intensify, Finish, Searching
  <2>2. QED
    BY <1>1, <1>8, <2>1, BestAgainKeeps, LocalControl, InitialControl
<1>9. CASE MoveToReal
  BY <1>1, <1>9, MoveToRealKeeps, InitialControl
<1>10. CASE Explore \/ IntensifyInsert \/ IntensifyExchange
  BY <1>1, <1>10, CallsKeep
<1>11. CASE InsertUnseen \/ ExchangeUnseen \/ ExchangeAny
  BY <1>1, <1>11, DiversifyingKeeps
<1>12. QED
  BY <1>3, <1>4, <1>5, <1>6, <1>7, <1>8, <1>9, <1>10, <1>11 DEF Next

\* The vehicles of the types that the proofs use have the shape that TLC checks.
LEMMA FleetHasShape ==
  ASSUME NEW fleet \in Seq(VehicleType)
  PROVE  FleetShape(fleet)
<1>1. DOMAIN fleet = 1..Len(fleet)
  OBVIOUS
<1>2. ASSUME NEW k \in 1..Len(fleet)
      PROVE  /\ fleet[k] = [idx |-> fleet[k].idx, path |-> fleet[k].path,
                            orders |-> fleet[k].orders, user_twv |-> fleet[k].user_twv,
                            user_cv |-> fleet[k].user_cv]
             /\ fleet[k].idx \in Truck /\ fleet[k].orders \subseteq Order
  <2>1. fleet[k] \in VehicleType
    OBVIOUS
  <2>2. QED
    BY <2>1 DEF VehicleType
<1>3. QED
  BY <1>1, <1>2 DEF FleetShape

\* What TLC checks follows from the invariant.
LEMMA InvariantGives ==
  ASSUME IInv
  PROVE  SolutionsAreSound /\ UnassignedArePhony
<1>1. GivenInv /\ SolutionsInv /\ ListsInv /\ ControlInv
  BY DEF IInv
<1>11. trucks \in Seq(VehicleType)
  BY <1>1 DEF GivenInv, GivenTrucks
<1>2. Sound(call, m_fleet) /\ Sound(call, best_solution)
  BY <1>1 DEF SolutionsInv
<1>3. FleetShape(trucks) /\ FleetShape(m_fleet) /\ FleetShape(best_solution)
  BY <1>2, <1>11, FleetHasShape DEF Sound
<1>4. Range(tabu_list) \subseteq Moves /\ IsInjective(tabu_list) /\ Len(tabu_list) <= max_length
  BY <1>1 DEF ListsInv, Range
<1>5. \A key \in infeasible_list \cup seen_list : Len(key) = 2 /\ key[2] \in Order
  <2>1. infeasible_list \cup seen_list \subseteq Keys
    BY <1>1 DEF ListsInv
  <2>2. ASSUME NEW key \in Keys
        PROVE  Len(key) = 2 /\ key[2] \in Order
    <3>1. \E route : \E o \in Order : key = <<route, o>>
      BY DEF Keys
    <3>2. PICK route : \E o \in Order : key = <<route, o>>
      BY <3>1
    <3>3. PICK o \in Order : key = <<route, o>>
      BY <3>2
    <3>4. QED
      BY <3>3
  <2>3. QED
    BY <2>1, <2>2
<1>6. /\ m_all_orders \subseteq Order /\ m_assigned \subseteq Order
      /\ m_unassigned \subseteq Order /\ to_place \subseteq m_unassigned
      /\ m_unassignedOrders \subseteq Order
  BY <1>1 DEF GivenInv, SolutionsInv
<1>7. /\ {moved, intensification, do_spi, do_sbr} \subseteq BOOLEAN
      /\ iter \in 0..m_max_cycles /\ no_moves \in 0..(max_no_swaps + max_no_moves)
      /\ {stuck_counter, curr_best, i} \subseteq Nat
  BY <1>1 DEF ControlInv
<1>8. TypeOK
  BY <1>3, <1>4, <1>5, <1>6, <1>7 DEF TypeOK
<1>9. EachOrderOnce /\ FleetsAreFeasible /\ UnassignedArePhony
  BY <1>1, <1>2 DEF SolutionsInv, Sound, SameOrders, EachOrderOnce, FleetsAreFeasible,
                    UnassignedArePhony
<1>10. QED
  BY <1>8, <1>9 DEF SolutionsAreSound

\* The strengthened invariant holds in every state of the search.
LEMMA InvariantHolds ==
  Spec => []IInv
<1>1. Init => IInv
  BY InitIsSound DEF IInv, DataInv
<1>2. IInv /\ [Next]_vars => IInv'
  BY StepKeeps
<1>3. QED
  BY <1>1, <1>2, PTL DEF Spec

\* Whatever the orders, the vehicles, the travel times and the stops of the
\* users are: every variable has its type, the current and the best solution
\* share out the same orders, each on one vehicle, and both stay feasible
\* (tabu_search, intensify, diversify and the neighbourhoods).
THEOREM Soundness == Spec => []SolutionsAreSound
<1>1. IInv => SolutionsAreSound
  BY InvariantGives
<1>2. QED
  BY <1>1, InvariantHolds, PTL

\* The orders that tabu keeps as unassigned are those on the phony vehicles of
\* the current solution, and of the best one, to which it may return.
THEOREM Unassigned == Spec => []UnassignedArePhony
<1>1. IInv => UnassignedArePhony
  BY InvariantGives
<1>2. QED
  BY <1>1, InvariantHolds, PTL

-----------------------------------------------------------------------------

(***************************************************************************)
(* What becomes of each order.                                             *)
(***************************************************************************)

\* A vehicle of a solution delivers its orders and, if it is a real one, those
\* that are pinned to it.
LEMMA FitDelivers ==
  ASSUME NEW c, NEW t, Fit(c, t), NEW o \in Order
  PROVE  Delivery(o) \in Nodes(t.path) <=>
           o \in t.orders \/ (~is_phony(t) /\ o \in Pinned(c, t.idx))
<1>1. CASE ~is_phony(t)
  BY <1>1 DEF Fit, HoldsPinned, Holding
<1>2. CASE is_phony(t) /\ t = NewTruck(PhonyTruck)
  <2>1. t.orders = {} /\ Nodes(t.path) = {StartSite(PhonyTruck), EndSite(PhonyTruck)}
    BY <1>2, DataAssumption, NewTruckIntact
  <2>2. QED
    BY <1>2, <2>1, KindsDiffer
<1>3. CASE is_phony(t) /\ \E a \in Order : t = push_back(NewTruck(PhonyTruck), a)
  <2>1. PICK a \in Order : t = push_back(NewTruck(PhonyTruck), a)
    BY <1>3
  <2> DEFINE v == PhonyTruck
  <2>2. v \in Truck /\ t = push_back(NewTruck(v), a)
    BY <2>1, DataAssumption
  <2> HIDE DEF v
  <2>3. t.orders = {a} /\ Nodes(t.path) = {StartSite(v), EndSite(v), Pickup(a), Delivery(a)}
    BY <2>2, PushedAndErased
  <2>4. Delivery(o) \in Nodes(t.path) <=> Delivery(o) = Delivery(a)
    BY <2>3, KindsDiffer
  <2>5. QED
    BY <1>3, <2>3, <2>4, KindsDiffer
<1>4. QED
  BY <1>1, <1>2, <1>3 DEF Fit

\* No order is delivered by two vehicles of a solution.
LEMMA DeliveredByOne ==
  ASSUME GivenInv, pc \notin {"stops", "failed"}, NEW fleet, Sound(call, fleet),
         NEW o \in Order, NEW k \in 1..Len(fleet), NEW l \in 1..Len(fleet),
         Delivery(o) \in Nodes(fleet[k].path), Delivery(o) \in Nodes(fleet[l].path)
  PROVE  k = l
<1>1. /\ fleet \in Seq(VehicleType) /\ OrdersApart(fleet) /\ DistinctTrucks(fleet)
      /\ Fit(call, fleet[k]) /\ Fit(call, fleet[l])
  BY DEF Sound
<1>2. SUFFICES ASSUME k # l PROVE FALSE
  OBVIOUS
<1>3. fleet[k].orders \cap fleet[l].orders = {}
  BY <1>1, <1>2, OrdersByPosition
<1>4. /\ o \in fleet[k].orders \/ (~is_phony(fleet[k]) /\ o \in Pinned(call, fleet[k].idx))
      /\ o \in fleet[l].orders \/ (~is_phony(fleet[l]) /\ o \in Pinned(call, fleet[l].idx))
  BY <1>1, FitDelivers
<1>5. ASSUME NEW t, Fit(call, t), ~is_phony(t)
      PROVE  t.idx \in Vehicles /\ Pinned(call, t.idx) \subseteq AllPinned(call)
  <2>1. t.idx \in Vehicles
    BY <1>5, VehiclesAre DEF Fit, is_phony
  <2>2. QED
    BY <2>1 DEF AllPinned
<1>6. fleet[k].orders \cap AllPinned(call) = {} /\ fleet[l].orders \cap AllPinned(call) = {}
  BY <1>1 DEF Fit
<1>7. /\ ~is_phony(fleet[k]) /\ o \in Pinned(call, fleet[k].idx)
      /\ ~is_phony(fleet[l]) /\ o \in Pinned(call, fleet[l].idx)
  BY <1>1, <1>3, <1>4, <1>5, <1>6
<1>8. fleet[k].idx # fleet[l].idx
  BY <1>1, <1>2, <1>7 DEF DistinctTrucks
<1>9. fleet[k].idx \in Vehicles /\ fleet[l].idx \in Vehicles
  BY <1>1, <1>5, <1>7
<1>10. Pinned(call, fleet[k].idx) \cap Pinned(call, fleet[l].idx) = {}
  BY <1>8, <1>9, AllPinnedAre
<1>11. QED
  BY <1>7, <1>10

\* An order of the problem that no vehicle of the solution delivers is in the
\* stops of a vehicle that is not in good order.
LEMMA DeliveredOrElsewhere ==
  ASSUME IInv, pc \in {"start", "done"}, NEW o \in m_all_orders,
         \A k \in 1..Len(m_fleet) : Delivery(o) \notin Nodes(m_fleet[k].path)
  PROVE  \E v \in Vehicles \ RealTrucks : o \in Range(stops[v])
<1>1. GivenInv /\ SolutionsInv /\ AccountInv
  BY DEF IInv
<1>2. /\ Aboard(m_fleet) = RealTrucks /\ o \in Order
      /\ o \in OrdersOn(m_fleet) \cup AllPinned(call) \cup Elsewhere(call)
  <2>1. pc = "start" \/ Searching
    BY DEF Searching
  <2>2. QED
    BY <1>1, <2>1 DEF AccountInv, GivenInv
<1>3. /\ m_fleet \in Seq(VehicleType) /\ DOMAIN m_fleet = 1..Len(m_fleet)
      /\ \A k \in 1..Len(m_fleet) : Fit(call, m_fleet[k])
  BY <1>1 DEF SolutionsInv, Sound
<1>4. \A k \in 1..Len(m_fleet) :
        /\ o \notin m_fleet[k].orders
        /\ ~is_phony(m_fleet[k]) => o \notin Pinned(call, m_fleet[k].idx)
  BY <1>2, <1>3, FitDelivers
<1>5. o \notin OrdersOn(m_fleet)
  BY <1>3, <1>4 DEF OrdersOn
<1>6. ASSUME NEW v \in RealTrucks
      PROVE  o \notin Pinned(call, v)
  <2>1. PICK k \in 1..Len(m_fleet) : m_fleet[k].idx = v
    BY <1>2 DEF Aboard
  <2>2. QED
    BY <1>4, <2>1, RealIsNotPhony
<1>7. CASE o \in Elsewhere(call)
  BY <1>7 DEF Elsewhere, stops
<1>8. CASE o \in AllPinned(call)
  <2>1. PICK v \in Vehicles : o \in Pinned(call, v)
    BY <1>8 DEF AllPinned
  <2>2. v \notin RealTrucks
    BY <1>6, <2>1
  <2>3. o \in Range(stops[v])
    BY <2>1 DEF Pinned, unmovable, Delivered, stops
  <2>4. QED
    BY <2>2, <2>3
<1>9. QED
  BY <1>2, <1>5, <1>7, <1>8

\* Every order that some vehicle can serve is delivered by one vehicle and one
\* only, when the search starts and when it is over, unless the user gave it to
\* a vehicle that is not in good order: the stops, the phony vehicles and the
\* moves of the search neither lose an order nor duplicate it.
THEOREM OrdersDeliveredOnce == Spec => []DeliveredOnce
<1>1. ASSUME IInv, pc \in {"start", "done"}, NEW o \in m_all_orders,
             NEW by, by = {k \in DOMAIN m_fleet : Delivery(o) \in Nodes(m_fleet[k].path)}
      PROVE  \/ Cardinality(by) = 1
             \/ by = {} /\ \E v \in Vehicles \ RealTrucks : o \in Range(stops[v])
  <2>1. /\ GivenInv /\ Sound(call, m_fleet) /\ o \in Order
        /\ m_fleet \in Seq(VehicleType) /\ DOMAIN m_fleet = 1..Len(m_fleet)
    BY <1>1 DEF IInv, SolutionsInv, Sound, GivenInv
  <2>2. CASE by = {}
    <3>1. \A k \in 1..Len(m_fleet) : Delivery(o) \notin Nodes(m_fleet[k].path)
      BY <1>1, <2>1, <2>2
    <3>2. QED
      BY <1>1, <2>2, <3>1, DeliveredOrElsewhere
  <2>3. CASE by # {}
    <3>1. PICK k \in by : TRUE
      BY <2>3
    <3>2. \A l \in by : l \in 1..Len(m_fleet) /\ Delivery(o) \in Nodes(m_fleet[l].path)
      BY <1>1, <2>1
    <3>3. \A l \in by : l = k
      BY <1>1, <2>1, <3>1, <3>2, DeliveredByOne
    <3>4. by = {k}
      BY <3>1, <3>3
    <3>5. Cardinality({k}) = 1
      BY FS_Singleton
    <3>6. QED
      BY <3>4, <3>5
  <2>4. QED
    BY <2>2, <2>3
<1>2. IInv => DeliveredOnce
  BY <1>1 DEF DeliveredOnce
<1>3. QED
  BY <1>2, InvariantHolds, PTL

\* What is on a vehicle before the execution date stays there, in the order the
\* user wanted it, and can not be moved: neither the erasing of stops that
\* violate something nor any move of the search touches it.
THEOREM UnmovableOrdersStay == Spec => []UnmovableStay
<1>1. ASSUME IInv, NEW k \in DOMAIN m_fleet, ~is_phony(m_fleet[k])
      PROVE  LET t == m_fleet[k]
             IN  /\ FixedOf(t.idx) \cap t.orders = {}
                 /\ KeepsOrder(t.path, StopsPath(t.idx, stops[t.idx]), NodesOf(FixedOf(t.idx)))
  <2> DEFINE t == m_fleet[k]
  <2>1. m_fleet \in Seq(VehicleType) /\ \A l \in 1..Len(m_fleet) : Fit(call, m_fleet[l])
    BY <1>1 DEF IInv, SolutionsInv, Sound
  <2>2. k \in 1..Len(m_fleet)
    BY <1>1, <2>1
  <2>3. Holding(t, WantedPath(call, t.idx), Pinned(call, t.idx))
    BY <1>1, <2>1, <2>2 DEF Fit, HoldsPinned
  <2>4. /\ FixedOf(t.idx) = Pinned(call, t.idx)
        /\ StopsPath(t.idx, stops[t.idx]) = WantedPath(call, t.idx)
    BY DEF FixedOf, Pinned, WantedPath, stops, execution_date
  <2> HIDE DEF t
  <2>5. /\ t.orders \cap Pinned(call, t.idx) = {}
        /\ KeepsOrder(t.path, WantedPath(call, t.idx), NodesOf(Pinned(call, t.idx)))
    BY <2>3 DEF Holding
  <2>6. /\ FixedOf(t.idx) \cap t.orders = {}
        /\ KeepsOrder(t.path, StopsPath(t.idx, stops[t.idx]), NodesOf(FixedOf(t.idx)))
    BY <2>4, <2>5
  <2>7. QED
    BY <2>6 DEF t
<1>2. IInv => UnmovableStay
  BY <1>1 DEF UnmovableStay
<1>3. QED
  BY <1>2, InvariantHolds, PTL

-----------------------------------------------------------------------------

(***************************************************************************)
(* The promise of Improvement.                                             *)
(***************************************************************************)

\* The orders of phony vehicles can be counted.
LEMMA PhonyOrdersFinite ==
  ASSUME NEW fleet, Sound(call, fleet)
  PROVE  PhonyOrders(fleet) \subseteq Order /\ IsFiniteSet(PhonyOrders(fleet))
<1>1. fleet \in Seq(VehicleType)
  BY DEF Sound
<1>2. \A k \in 1..Len(fleet) : fleet[k].orders \subseteq Order
  BY <1>1, VehicleFacts
<1>3. \A o : o \in PhonyOrders(fleet) => \E k \in 1..Len(fleet) : o \in fleet[k].orders
  BY <1>1, OrdersByPosition
<1>4. PhonyOrders(fleet) \subseteq Order
  BY <1>2, <1>3
<1>5. QED
  BY <1>4, DataAssumption, FS_Subset

\* The value of a solution is a pair of naturals.
LEMMA ValueIs ==
  ASSUME NEW fleet, Sound(call, fleet), NEW value, value = Value(fleet)
  PROVE  /\ value \in Nat \X Nat
         /\ value[1] = Cardinality(PhonyOrders(fleet)) /\ value[2] = FleetObjective(fleet)
<1>1. Cardinality(PhonyOrders(fleet)) \in Nat
  BY PhonyOrdersFinite, FS_CardinalityType
<1>2. FleetObjective(fleet) \in Nat
  BY SoundTravels, FiguresAreNatural
<1>3. QED
  BY <1>1, <1>2 DEF Value

\* A solution with fewer orders on phony vehicles, or one that is cheaper, is a
\* better one.
LEMMA Improves ==
  ASSUME Searching, pc # "done", pc' # "done", Sound(call, best_solution), Sound(call, best_solution'),
         OrdersOn(best_solution') = OrdersOn(best_solution),
         \/ Cardinality(PhonyOrders(best_solution')) < Cardinality(PhonyOrders(best_solution))
         \/ /\ PhonyOrders(best_solution') = PhonyOrders(best_solution)
            /\ FleetObjective(best_solution') < FleetObjective(best_solution)
  PROVE  Search!Next
<1> DEFINE a == Value(best_solution)
           b == Value(best_solution')
<1>1. /\ a \in Nat \X Nat
      /\ a[1] = Cardinality(PhonyOrders(best_solution)) /\ a[2] = FleetObjective(best_solution)
  <2>1. a = Value(best_solution)
    OBVIOUS
  <2> HIDE DEF a
  <2>2. QED
    BY <2>1, ValueIs
<1>2. /\ b \in Nat \X Nat
      /\ b[1] = Cardinality(PhonyOrders(best_solution')) /\ b[2] = FleetObjective(best_solution')
  <2>1. b = Value(best_solution')
    OBVIOUS
  <2> HIDE DEF b
  <2>2. QED
    BY <2>1, ValueIs
<1>3. Search!Better(b, a)
  <2> HIDE DEF a, b
  <2>1. QED
    BY <1>1, <1>2 DEF Search!Better
<1>4. Search!Improve
  BY <1>2, <1>3 DEF Search!Improve
<1>5. QED
  BY <1>4 DEF Search!Next

\* A step that does not end the search and leaves the best solution alone.
LEMMA BestStays ==
  ASSUME pc # "done", pc' # "done", UNCHANGED best_solution
  PROVE  UNCHANGED Search!vars
  BY DEF Search!vars

\* A neighbourhood keeps the promise: save_if_best compares the costs.
LEMMA NeighbourhoodImproves ==
  ASSUME IInv, Searching, pc # "done", pc' # "done", NeighbourhoodTaken
  PROVE  Search!Next \/ UNCHANGED Search!vars
<1>1. /\ Sound(call, m_fleet') /\ SameOrders(m_fleet', m_fleet)
      /\ best_solution' = best_solution \/ best_solution' = save_if_best(m_fleet')
  BY DEF NeighbourhoodTaken
<1>2. Sound(call, best_solution) /\ SameOrders(m_fleet, best_solution)
  BY DEF IInv, SolutionsInv
<1>3. CASE best_solution' = best_solution
  BY <1>3, BestStays
<1>4. CASE best_solution' # best_solution
  <2>1. best_solution' = m_fleet' /\ FleetObjective(m_fleet') < FleetObjective(best_solution)
    BY <1>1, <1>4 DEF save_if_best
  <2>2. /\ OrdersOn(m_fleet') = OrdersOn(best_solution)
        /\ PhonyOrders(m_fleet') = PhonyOrders(best_solution)
    BY <1>1, <1>2 DEF SameOrders
  <2>3. /\ Sound(call, best_solution') /\ OrdersOn(best_solution') = OrdersOn(best_solution)
        /\ PhonyOrders(best_solution') = PhonyOrders(best_solution)
        /\ FleetObjective(best_solution') < FleetObjective(best_solution)
    BY <1>1, <2>1, <2>2
  <2>4. QED
    BY <1>2, <2>3, Improves
<1>5. QED
  BY <1>3, <1>4

\* So does move_2_real, which compares nothing: each order it finds a place for
\* leaves the phony vehicles.
LEMMA PlacingImproves ==
  ASSUME IInv, MoveToReal
  PROVE  Search!Next \/ UNCHANGED Search!vars
<1>1. PICK r : /\ r = Placed /\ m_fleet' = r.fleet /\ m_unassignedOrders' = r.left
               /\ best_solution' = r.best
  BY DEF MoveToReal
<1>2. pc = "move_2_real" /\ pc' = resume
  BY DEF MoveToReal
<1>3. pc # "done" /\ pc' # "done" /\ Searching
  BY <1>2 DEF IInv, ControlInv, Searching
<1>4. /\ Sound(call, m_fleet) /\ Sound(call, best_solution) /\ m_unassignedOrders \in SUBSET Order
      /\ FleetFeasible(m_fleet)
      /\ SameOrders(m_fleet, best_solution) /\ PhonyOrders(m_fleet) = m_unassignedOrders
  BY <1>3 DEF IInv, SolutionsInv
<1>5. best_solution \in Seq(VehicleType)
  BY <1>4 DEF Sound
<1>6. \/ r = [fleet |-> m_fleet, left |-> m_unassignedOrders, best |-> best_solution]
      \/ PlacedWell(r)
  BY <1>1, <1>4, <1>5, PlacedIs
<1>7. CASE r = [fleet |-> m_fleet, left |-> m_unassignedOrders, best |-> best_solution]
  BY <1>1, <1>3, <1>7, BestStays
<1>8. CASE PlacedWell(r)
  <2>1. /\ Sound(call, r.fleet) /\ OrdersOn(r.fleet) = OrdersOn(m_fleet)
        /\ r.left = PhonyOrders(r.fleet) /\ r.best = r.fleet
        /\ r.left \subseteq m_unassignedOrders /\ r.left # m_unassignedOrders
    BY <1>8 DEF PlacedWell
  <2>2. PhonyOrders(best_solution) = m_unassignedOrders /\ OrdersOn(best_solution) = OrdersOn(m_fleet)
    BY <1>4 DEF SameOrders
  <2>3. Cardinality(r.left) < Cardinality(m_unassignedOrders)
    <3>1. IsFiniteSet(m_unassignedOrders)
      BY <1>4, DataAssumption, FS_Subset
    <3>2. /\ IsFiniteSet(r.left) /\ Cardinality(r.left) <= Cardinality(m_unassignedOrders)
          /\ Cardinality(m_unassignedOrders) # Cardinality(r.left)
      BY <2>1, <3>1, FS_Subset
    <3>3. Cardinality(r.left) \in Nat /\ Cardinality(m_unassignedOrders) \in Nat
      BY <3>1, <3>2, FS_CardinalityType
    <3>4. QED
      BY <3>2, <3>3
  <2>4. /\ Sound(call, best_solution') /\ OrdersOn(best_solution') = OrdersOn(best_solution)
        /\ Cardinality(PhonyOrders(best_solution')) < Cardinality(PhonyOrders(best_solution))
    BY <1>1, <2>1, <2>2, <2>3
  <2>5. QED
    BY <1>3, <1>4, <2>4, Improves
<1>9. QED
  BY <1>6, <1>7, <1>8

\* Every step of the search keeps the promise.
LEMMA StepImproves ==
  ASSUME IInv, Searching, [Next]_vars
  PROVE  Search!Next \/ UNCHANGED Search!vars
<1>1. CASE UNCHANGED vars \/ Terminated
  <2>1. UNCHANGED vars
    BY <1>1 DEF Terminated
  <2>2. UNCHANGED <<m_fleet, best_solution, pc>>
    BY <2>1 DEF vars, solutions
  <2>3. QED
    BY <2>2 DEF Search!vars
<1>2. CASE BuildInitial \/ Start
  <2>1. pc \in {"stops", "unused", "phony", "start"}
    BY <1>2 DEF BuildInitial, Initial_solution, SetStops, UseGiven, AddUnused, Place, AllPlaced, Start
  <2>2. QED
    BY <2>1, NotSearching
<1>3. CASE Finish
  <2>1. /\ pc = "finish" /\ pc' = "done" /\ m_fleet' = best_solution
        /\ best_solution' = best_solution
    BY <1>3 DEF Finish
  <2>2. Search!HandOut
    BY <2>1 DEF Search!HandOut
  <2>3. QED
    BY <2>2 DEF Search!Next
<1>4. CASE \/ Prepared \/ Cycle \/ Stuck \/ Explored \/ Counted \/ Judge \/ NextTurn
           \/ Intensify \/ InsertsTried \/ ExchangesTried \/ Diversify
  <2>1. pc # "done" /\ UNCHANGED best_solution
    BY <1>4 DEF Prepared, Cycle, Stuck, Explored, Counted, Judge, NextTurn, Intensify,
                InsertsTried, ExchangesTried, Diversify, solutions
  <2>2. pc' # "done"
    BY <1>4 DEF Prepared, Cycle, Stuck, Explored, Counted, Judge, NextTurn, Intensify,
                InsertsTried, ExchangesTried, Diversify, IInv, ControlInv
  <2>3. QED
    BY <2>1, <2>2, BestStays
<1>5. CASE MoveToReal
  BY <1>5, PlacingImproves
<1>6. CASE Explore \/ IntensifyInsert \/ IntensifyExchange
  <2>1. /\ pc # "done" /\ pc' # "done"
        /\ \E intensify, diversify \in BOOLEAN :
             single_pair_insertion(intensify, diversify) \/ swap_between_routes(intensify, diversify)
    BY <1>6 DEF Explore, IntensifyInsert, IntensifyExchange
  <2>2. ListsInv /\ Sound(call, m_fleet) /\ FleetFeasible(m_fleet)
    BY DEF IInv, SolutionsInv
  <2>3. NeighbourhoodTaken
    BY <2>1, <2>2, InsertionTakes, ExchangeTakes
  <2>4. QED
    BY <2>1, <2>3, NeighbourhoodImproves
<1>7. CASE InsertUnseen \/ ExchangeUnseen \/ ExchangeAny
  <2>1. /\ pc # "done" /\ pc' # "done"
        /\ \E intensify, diversify \in BOOLEAN :
             single_pair_insertion(intensify, diversify) \/ swap_between_routes(intensify, diversify)
    BY <1>7 DEF InsertUnseen, ExchangeUnseen, ExchangeAny, DiversifyBy
  <2>2. ListsInv /\ Sound(call, m_fleet) /\ FleetFeasible(m_fleet)
    BY DEF IInv, SolutionsInv
  <2>3. NeighbourhoodTaken
    BY <2>1, <2>2, InsertionTakes, ExchangeTakes
  <2>4. QED
    BY <2>1, <2>3, NeighbourhoodImproves
<1>8. QED
  BY <1>1, <1>2, <1>3, <1>4, <1>5, <1>6, <1>7 DEF Next

\* The search implements what an optimizer promises: the best solution never
\* gets worse, keeps its orders and is the one handed out, though move_2_real
\* replaces it without a comparison (move_2_real, save_if_best).
THEOREM SearchImproves == Spec => ImplementsImprovement
<1>1. IInv /\ [Next]_vars => [Searching => (Search!Next \/ UNCHANGED Search!vars)]_vars
  BY StepImproves
<1>2. QED
  BY <1>1, InvariantHolds, PTL DEF Spec, ImplementsImprovement

-----------------------------------------------------------------------------

(***************************************************************************)
(* The tabu list is respected.                                             *)
(***************************************************************************)

\* An order is on the vehicle that has it.
LEMMA VehicleOfIs ==
  ASSUME NEW fleet, Sound(call, fleet), NEW k \in 1..Len(fleet), NEW o \in fleet[k].orders
  PROVE  VehicleOf(fleet, o) = fleet[k].idx
<1> DEFINE with == {l \in DOMAIN fleet : o \in fleet[l].orders /\ ~is_phony(fleet[l])}
<1>1. fleet \in Seq(VehicleType) /\ DOMAIN fleet = 1..Len(fleet)
  BY DEF Sound
<1>2. \A l \in 1..Len(fleet) : o \in fleet[l].orders => l = k
  BY <1>1, OrdersByPosition DEF Sound
<1>3. VehicleOf(fleet, o) = IF with = {} THEN PhonyTruck ELSE fleet[Min(with)].idx
  BY DEF VehicleOf
<1>4. CASE is_phony(fleet[k])
  <2>1. with = {}
    BY <1>1, <1>2, <1>4
  <2>2. QED
    BY <1>3, <1>4, <2>1 DEF is_phony
<1>5. CASE ~is_phony(fleet[k])
  <2>1. with = {k}
    BY <1>1, <1>2, <1>5
  <2>2. with \in SUBSET Nat /\ with # {}
    BY <2>1
  <2> HIDE DEF with
  <2>3. Min(with) \in with
    BY <2>2, MinIsMember
  <2>4. QED
    BY <1>3, <2>1, <2>2, <2>3
<1>6. QED
  BY <1>4, <1>5

\* In an arrangement of the vehicles of a fleet, or of some of them, each order
\* is where it was.
LEMMA SelectionVehicles ==
  ASSUME NEW fleet, Sound(call, fleet), NEW S \in SUBSET (1..Len(fleet)), NEW g, Sound(call, g),
         Selects(fleet, g, S), NEW o \in OrdersOn(g)
  PROVE  VehicleOf(g, o) = VehicleOf(fleet, o)
<1>1. fleet \in Seq(VehicleType) /\ g \in Seq(VehicleType)
  BY DEF Sound
<1>2. PICK k \in 1..Len(g) : o \in g[k].orders
  BY <1>1, OrdersByPosition
<1>3. PICK l \in S : g[k] = fleet[l]
  BY <1>2 DEF Selects
<1>4. VehicleOf(g, o) = g[k].idx
  BY <1>2, VehicleOfIs
<1>5. VehicleOf(fleet, o) = fleet[l].idx
  BY <1>2, <1>3, VehicleOfIs
<1>6. QED
  BY <1>3, <1>4, <1>5

\* Sorting and deleting leave the orders where they are.
LEMMA ArrangedVehicles ==
  ASSUME NEW fleet, Sound(call, fleet), FleetFeasible(fleet),
         NEW g, (\E asc : g \in BySize(fleet, asc)) \/ g = delete_empty_truck(fleet)
  PROVE  /\ OrdersOn(g) = OrdersOn(fleet)
         /\ \A o \in OrdersOn(fleet) : VehicleOf(g, o) = VehicleOf(fleet, o)
<1>1. fleet \in Seq(VehicleType)
  BY DEF Sound
<1>2. CASE \E asc : g \in BySize(fleet, asc)
  <2>1. Selects(fleet, g, 1..Len(fleet)) /\ Sound(call, g) /\ SameOrders(fleet, g)
    BY <1>1, <1>2, SortedIs, SortedSound
  <2> DEFINE S == 1..Len(fleet)
  <2>2. S \in SUBSET (1..Len(fleet)) /\ Selects(fleet, g, S)
    BY <2>1
  <2> HIDE DEF S
  <2>3. \A o \in OrdersOn(g) : VehicleOf(g, o) = VehicleOf(fleet, o)
    BY <2>1, <2>2, SelectionVehicles
  <2>4. QED
    BY <2>1, <2>3 DEF SameOrders
<1>3. CASE g = delete_empty_truck(fleet)
  <2> DEFINE S == {k \in 1..Len(fleet) : ~(fleet[k].orders = {} /\ is_phony(fleet[k]))}
  <2>1. Selects(fleet, g, S)
    BY <1>1, <1>3, DeletedIs
  <2>2. S \in SUBSET (1..Len(fleet))
    OBVIOUS
  <2> HIDE DEF S
  <2>3. Sound(call, g) /\ SameOrders(g, fleet)
    BY <1>3, DeletedSound
  <2>4. \A o \in OrdersOn(g) : VehicleOf(g, o) = VehicleOf(fleet, o)
    BY <2>1, <2>2, <2>3, SelectionVehicles
  <2>5. QED
    BY <2>3, <2>4 DEF SameOrders
<1>4. QED
  BY <1>2, <1>3

\* When two vehicles share out their orders anew, the others keep theirs.
LEMMA OthersStay ==
  ASSUME NEW fleet, Sound(call, fleet), NEW g, Sound(call, g),
         NEW a \in 1..Len(fleet), NEW b \in 1..Len(fleet), NEW x, NEW y,
         Replaced(fleet, g, a, b, x, y), x.idx = fleet[a].idx, y.idx = fleet[b].idx,
         NEW changed, NEW o \in OrdersOn(fleet), o \notin changed,
         x.orders \ changed = fleet[a].orders \ changed,
         y.orders \ changed = fleet[b].orders \ changed
  PROVE  VehicleOf(g, o) = VehicleOf(fleet, o)
<1>1. fleet \in Seq(VehicleType)
  BY DEF Sound
<1>2. PICK k \in 1..Len(fleet) : o \in fleet[k].orders
  BY <1>1, OrdersByPosition
<1>3. /\ g[a] = x /\ g[b] = y /\ Len(g) = Len(fleet)
      /\ \A l \in 1..Len(fleet) : l # a /\ l # b => g[l] = fleet[l]
  BY DEF Replaced
<1>4. o \in g[k].orders /\ g[k].idx = fleet[k].idx
  BY <1>2, <1>3
<1>5. k \in 1..Len(g)
  BY <1>3
<1>6. VehicleOf(g, o) = g[k].idx /\ VehicleOf(fleet, o) = fleet[k].idx
  BY <1>2, <1>4, <1>5, VehicleOfIs
<1>7. QED
  BY <1>4, <1>6

\* An insertion that is made takes one order to another vehicle, and no other.
LEMMA InsertionMoves ==
  ASSUME NEW f, Sound(call, f), FleetFeasible(f), NEW c \in Insertions(f),
         NEW g, g = Inserted(f, c), is_feasible(g[c[1]]), has_order(g[c[3]], c[2])
  PROVE  /\ VehicleOf(f, c[2]) = f[c[1]].idx /\ VehicleOf(g, c[2]) = f[c[3]].idx
         /\ \A o \in OrdersOn(f) : o # c[2] => VehicleOf(g, o) = VehicleOf(f, o)
<1> DEFINE a == c[1]
           b == c[3]
           o == c[2]
           x == erase(f[a], o)
           y == hillClimb(f[b], o)
<1>1. f \in Seq(VehicleType) /\ \A k \in 1..Len(f) : Fit(call, f[k])
  BY DEF Sound
<1>2. /\ a \in 1..Len(f) /\ b \in 1..Len(f) /\ a # b /\ o \in Order
      /\ ~is_phony(f[a]) /\ ~is_phony(f[b]) /\ o \in f[a].orders
  BY <1>1, InsertionsAre
<1>3. ~has_order(f[b], o)
  <2>1. f[a].orders \cap f[b].orders = {}
    BY <1>1, <1>2, OrdersByPosition DEF Sound
  <2>2. QED
    BY <1>2, <2>1 DEF has_order
<1>4. g = [f EXCEPT ![a] = x, ![b] = y]
  BY <1>1, <1>2 DEF Inserted
<1>5. Sound(call, g)
  BY InsertedIs
<1>6. Fit(call, f[a]) /\ Fit(call, f[b]) /\ has_order(g[b], o)
  BY <1>1, <1>2
<1> HIDE DEF a, b, o
<1>7. /\ Fit(call, x) /\ x.idx = f[a].idx /\ x.orders = f[a].orders \ {o}
      /\ o \notin AllPinned(call)
  BY <1>2, <1>6, GiverFits
<1>8. g[b] = y
  BY <1>1, <1>2, <1>4
<1>9. Fit(call, y) /\ y.idx = f[b].idx /\ y.orders = f[b].orders \cup {o}
  BY <1>2, <1>3, <1>6, <1>7, <1>8, TakerFits
<1> HIDE DEF x, y
<1>10. x \in VehicleType /\ y \in VehicleType
  BY <1>7, <1>9 DEF Fit, Travels
<1>11. Replaced(f, g, a, b, x, y)
  BY <1>1, <1>2, <1>4, <1>10 DEF Replaced
<1>12. VehicleOf(f, o) = f[a].idx
  BY <1>2, VehicleOfIs
<1>13. VehicleOf(g, o) = f[b].idx
  <2>1. b \in 1..Len(g) /\ o \in g[b].orders
    BY <1>2, <1>8, <1>9, <1>11 DEF Replaced
  <2>2. QED
    BY <1>5, <1>8, <1>9, <2>1, VehicleOfIs
<1>14. ASSUME NEW q \in OrdersOn(f), q # o
       PROVE  VehicleOf(g, q) = VehicleOf(f, q)
  <2> DEFINE changed == {o}
  <2>1. /\ q \notin changed /\ x.orders \ changed = f[a].orders \ changed
        /\ y.orders \ changed = f[b].orders \ changed
    BY <1>7, <1>9, <1>14
  <2> HIDE DEF changed
  <2>2. QED
    BY <1>2, <1>5, <1>7, <1>9, <1>11, <2>1, OthersStay
<1>15. QED
  BY <1>12, <1>13, <1>14 DEF a, b, o

\* An exchange that is made takes two orders each to the vehicle of the other.
LEMMA ExchangeMoves ==
  ASSUME NEW f, Sound(call, f), FleetFeasible(f), NEW c \in Exchanges(f), GoodExchange(f, c),
         NEW g, g = Exchanged(Apart(f, c), c)
  PROVE  /\ VehicleOf(f, c[2]) = f[c[1]].idx /\ VehicleOf(g, c[2]) = f[c[3]].idx
         /\ VehicleOf(f, c[4]) = f[c[3]].idx /\ VehicleOf(g, c[4]) = f[c[1]].idx
         /\ \A o \in OrdersOn(f) : o \notin {c[2], c[4]} => VehicleOf(g, o) = VehicleOf(f, o)
         /\ c[2] # c[4] /\ {c[2], c[4]} \subseteq OrdersOn(f)
<1> DEFINE a == c[1]
           b == c[3]
           o == c[2]
           p == c[4]
           h == Apart(f, c)
           v == erase(f[a], o)
           w == erase(f[b], p)
           x == hillClimb(v, p)
           y == hillClimb(w, o)
<1>1. f \in Seq(VehicleType) /\ \A k \in 1..Len(f) : Fit(call, f[k])
  BY DEF Sound
<1>2. /\ a \in 1..Len(f) /\ b \in 1..Len(f) /\ a # b /\ o \in Order /\ p \in Order
      /\ ~is_phony(f[a]) /\ ~is_phony(f[b]) /\ o \in f[a].orders /\ p \in f[b].orders
  BY <1>1, ExchangesAre
<1>3. f[a].orders \cap f[b].orders = {}
  BY <1>1, <1>2, OrdersByPosition DEF Sound
<1>4. h = [f EXCEPT ![a] = v, ![b] = w]
  BY <1>1, <1>2 DEF Apart
<1>5. Fit(call, f[a]) /\ Fit(call, f[b])
  BY <1>1, <1>2
<1>6. g = [h EXCEPT ![a] = hillClimb(@, p), ![b] = hillClimb(@, o)]
  BY DEF Exchanged
<1>7. has_order(g[a], p) /\ has_order(g[b], o)
  BY DEF GoodExchange
<1>8. Sound(call, g)
  <2>1. h = Apart(f, c) /\ g = Exchanged(h, c)
    OBVIOUS
  <2> HIDE DEF h
  <2>2. QED
    BY <1>7, <2>1, ExchangedIs DEF a, b, o, p
<1> HIDE DEF a, b, o, p, h
<1>9. /\ Fit(call, v) /\ v.idx = f[a].idx /\ v.orders = f[a].orders \ {o}
      /\ Fit(call, w) /\ w.idx = f[b].idx /\ w.orders = f[b].orders \ {p}
      /\ o \notin AllPinned(call) /\ p \notin AllPinned(call)
  BY <1>2, <1>5, GiverFits
<1> HIDE DEF v, w
<1>10. ~has_order(v, p) /\ ~has_order(w, o) /\ ~is_phony(v) /\ ~is_phony(w)
  BY <1>2, <1>3, <1>9 DEF has_order, is_phony
<1>11. v \in VehicleType /\ w \in VehicleType
  BY <1>9 DEF Fit, Travels
<1>12. h \in Seq(VehicleType) /\ Len(h) = Len(f) /\ h[a] = v /\ h[b] = w
       /\ \A k \in 1..Len(f) : k # a /\ k # b => h[k] = f[k]
  BY <1>1, <1>2, <1>4, <1>11
<1>13. /\ g[a] = x /\ g[b] = y /\ DOMAIN g = 1..Len(f) /\ Len(g) = Len(f)
       /\ \A k \in 1..Len(f) : k # a /\ k # b => g[k] = f[k]
  BY <1>2, <1>6, <1>12
<1>14. /\ Fit(call, x) /\ x.idx = f[a].idx /\ x.orders = v.orders \cup {p}
       /\ Fit(call, y) /\ y.idx = f[b].idx /\ y.orders = w.orders \cup {o}
  BY <1>2, <1>7, <1>9, <1>10, <1>13, TakerFits
<1> HIDE DEF x, y
<1>15. x \in VehicleType /\ y \in VehicleType /\ g \in Seq(VehicleType)
  BY <1>8, <1>14 DEF Fit, Travels, Sound
<1>16. Replaced(f, g, a, b, x, y)
  BY <1>13, <1>15 DEF Replaced
<1>17. VehicleOf(f, o) = f[a].idx /\ VehicleOf(f, p) = f[b].idx
  BY <1>2, VehicleOfIs
<1>18. VehicleOf(g, o) = f[b].idx /\ VehicleOf(g, p) = f[a].idx
  <2>1. a \in 1..Len(g) /\ b \in 1..Len(g) /\ o \in g[b].orders /\ p \in g[a].orders
    BY <1>2, <1>13, <1>14
  <2>2. VehicleOf(g, o) = g[b].idx /\ VehicleOf(g, p) = g[a].idx
    BY <1>8, <2>1, VehicleOfIs
  <2>3. QED
    BY <1>13, <1>14, <2>2
<1>19. ASSUME NEW q \in OrdersOn(f), q \notin {o, p}
       PROVE  VehicleOf(g, q) = VehicleOf(f, q)
  <2> DEFINE changed == {o, p}
  <2>1. /\ q \notin changed /\ x.orders \ changed = f[a].orders \ changed
        /\ y.orders \ changed = f[b].orders \ changed
    BY <1>9, <1>14, <1>19
  <2> HIDE DEF changed
  <2>2. QED
    BY <1>2, <1>8, <1>9, <1>14, <1>16, <2>1, OthersStay
<1>20. o # p /\ {o, p} \subseteq OrdersOn(f)
  <2>1. o # p
    BY <1>2, <1>3
  <2>2. o \in OrdersOn(f) /\ p \in OrdersOn(f)
    BY <1>1, <1>2, OrdersByPosition
  <2>3. QED
    BY <2>1, <2>2
<1>21. QED
  BY <1>17, <1>18, <1>19, <1>20 DEF a, b, o, p

\* What a step that makes a move owes to the tabu list.
Respectful ==
  (moved' /\ Cardinality(Relocated) = 1) =>
     \A o \in Relocated :
       LET from == VehicleOf(m_fleet, o)
           to == VehicleOf(m_fleet', o)
       IN  \/ ~has_move(tabu_list, from, to, o)
           \/ FleetObjective(m_fleet') < FleetObjective(best_solution)
           \/ \E k \in DOMAIN m_fleet' : m_fleet'[k].idx = from /\ empty(m_fleet'[k])

\* A step that leaves the orders on their vehicles owes nothing.
LEMMA StayingRespects ==
  ASSUME \A o \in OrdersOn(m_fleet) : VehicleOf(m_fleet', o) = VehicleOf(m_fleet, o)
  PROVE  Respectful
<1>1. Relocated = {}
  BY DEF Relocated
<1>2. QED
  BY <1>1 DEF Respectful

\* single_pair_insertion respects the tabu list.
LEMMA InsertionRespects ==
  ASSUME ListsInv, Sound(call, m_fleet), FleetFeasible(m_fleet),
         NEW intensify, NEW diversify, single_pair_insertion(intensify, diversify)
  PROVE  Respectful
<1>1. PICK f \in BySize(m_fleet, TRUE) :
        \E found \in {BestInsertion(f, intensify, diversify)} :
          \/ NoMove(f, found)
          \/ \E c \in Range(found.choice) :
               MakeMove(found, Inserted(f, c), Move(f[c[1]].idx, f[c[3]].idx, c[2]),
                        {InsertionKey(f, c)})
  BY DEF single_pair_insertion
<1>2. Sound(call, f) /\ FleetFeasible(f)
  BY <1>1, SortedSound
<1>3. /\ OrdersOn(f) = OrdersOn(m_fleet)
      /\ \A o \in OrdersOn(m_fleet) : VehicleOf(f, o) = VehicleOf(m_fleet, o)
  BY <1>1, ArrangedVehicles
<1>4. PICK found : /\ found = BestInsertion(f, intensify, diversify)
                   /\ \/ NoMove(f, found)
                      \/ \E c \in Range(found.choice) :
                           MakeMove(found, Inserted(f, c), Move(f[c[1]].idx, f[c[3]].idx, c[2]),
                                    {InsertionKey(f, c)})
  BY <1>1
<1>5. infeasible_list \in SUBSET Keys
  BY DEF ListsInv
<1>6. \/ found.choice = <<>>
      \/ \E c \in Insertions(f) : found.choice = <<c>> /\ GoodInsertion(f, c)
  BY <1>2, <1>4, <1>5, BestInsertionIs
<1>7. CASE NoMove(f, found)
  BY <1>7 DEF NoMove, Respectful
<1>8. CASE \E c \in Range(found.choice) :
             MakeMove(found, Inserted(f, c), Move(f[c[1]].idx, f[c[3]].idx, c[2]),
                      {InsertionKey(f, c)})
  <2>1. PICK c \in Range(found.choice) : m_fleet' = Inserted(f, c)
    BY <1>8 DEF MakeMove
  <2>2. c \in Insertions(f) /\ GoodInsertion(f, c)
    BY <1>6, <2>1 DEF Range
  <2> DEFINE g == Inserted(f, c)
  <2>3. /\ g = Inserted(f, c) /\ m_fleet' = g
        /\ is_feasible(g[c[1]]) /\ has_order(g[c[3]], c[2])
        /\ \/ ~has_move(tabu_list, f[c[1]].idx, f[c[3]].idx, c[2])
           \/ FleetObjective(g) < FleetObjective(best_solution)
           \/ empty(g[c[1]])
    BY <2>1, <2>2 DEF GoodInsertion
  <2> HIDE DEF g
  <2>4. Sound(call, g) /\ Len(g) = Len(f) /\ g[c[1]].idx = f[c[1]].idx
    BY <1>2, <2>2, <2>3, InsertedIs
  <2>5. /\ VehicleOf(f, c[2]) = f[c[1]].idx /\ VehicleOf(g, c[2]) = f[c[3]].idx
        /\ \A o \in OrdersOn(f) : o # c[2] => VehicleOf(g, o) = VehicleOf(f, o)
    BY <1>2, <2>2, <2>3, InsertionMoves
  <2>6. ASSUME NEW o \in Relocated
        PROVE  o = c[2] /\ VehicleOf(m_fleet, o) = f[c[1]].idx
    <3>1. o \in OrdersOn(m_fleet) /\ VehicleOf(m_fleet, o) # VehicleOf(g, o)
      BY <2>3, <2>6 DEF Relocated
    <3>2. o \in OrdersOn(f) /\ VehicleOf(f, o) = VehicleOf(m_fleet, o)
      BY <1>3, <3>1
    <3>3. QED
      BY <2>5, <3>1, <3>2
  <2>7. c[1] \in DOMAIN g
    <3>1. c[1] \in 1..Len(f)
      BY <1>2, <2>2, InsertionsAre DEF Sound
    <3>2. QED
      BY <2>4, <3>1 DEF Sound
  <2>8. empty(g[c[1]]) => \E k \in DOMAIN g : g[k].idx = f[c[1]].idx /\ empty(g[k])
    BY <2>4, <2>7
  <2>9. QED
    BY <2>3, <2>5, <2>6, <2>8 DEF Respectful
<1>9. QED
  BY <1>4, <1>7, <1>8

\* An exchange between two vehicles takes two orders, so that the list has
\* nothing to say about a single one.
LEMMA ExchangeRespects ==
  ASSUME ListsInv, Sound(call, m_fleet), FleetFeasible(m_fleet),
         NEW intensify, NEW diversify, swap_between_routes(intensify, diversify)
  PROVE  Respectful
<1>1. PICK f \in BySize(m_fleet, FALSE) :
        \E found \in {BestExchange(f, intensify, diversify)} :
          \/ NoMove(f, found)
          \/ \E c \in Range(found.choice) : \E h \in {Apart(f, c)} :
               MakeMove(found, Exchanged(h, c), Swapping(f[c[1]].idx, f[c[3]].idx, c[2], c[4]),
                        {ToKey(h, c), FromKey(h, c)})
  BY DEF swap_between_routes
<1>2. Sound(call, f) /\ FleetFeasible(f)
  BY <1>1, SortedSound
<1>3. /\ OrdersOn(f) = OrdersOn(m_fleet)
      /\ \A o \in OrdersOn(m_fleet) : VehicleOf(f, o) = VehicleOf(m_fleet, o)
  BY <1>1, ArrangedVehicles
<1>4. PICK found : /\ found = BestExchange(f, intensify, diversify)
                   /\ \/ NoMove(f, found)
                      \/ \E c \in Range(found.choice) :
                           MakeMove(found, Exchanged(Apart(f, c), c),
                                    Swapping(f[c[1]].idx, f[c[3]].idx, c[2], c[4]),
                                    {ToKey(Apart(f, c), c), FromKey(Apart(f, c), c)})
  BY <1>1
<1>5. infeasible_list \in SUBSET Keys
  BY DEF ListsInv
<1>6. \/ found.choice = <<>>
      \/ \E c \in Exchanges(f) : found.choice = <<c>> /\ GoodExchange(f, c)
  BY <1>2, <1>4, <1>5, BestExchangeIs
<1>7. CASE NoMove(f, found)
  BY <1>7 DEF NoMove, Respectful
<1>8. CASE \E c \in Range(found.choice) :
             MakeMove(found, Exchanged(Apart(f, c), c),
                      Swapping(f[c[1]].idx, f[c[3]].idx, c[2], c[4]),
                      {ToKey(Apart(f, c), c), FromKey(Apart(f, c), c)})
  <2>1. PICK c \in Range(found.choice) : m_fleet' = Exchanged(Apart(f, c), c)
    BY <1>8 DEF MakeMove
  <2>2. c \in Exchanges(f) /\ GoodExchange(f, c)
    BY <1>6, <2>1 DEF Range
  <2> DEFINE g == Exchanged(Apart(f, c), c)
  <2>3. g = Exchanged(Apart(f, c), c) /\ m_fleet' = g
    BY <2>1
  <2> HIDE DEF g
  <2>4. /\ VehicleOf(f, c[2]) = f[c[1]].idx /\ VehicleOf(g, c[2]) = f[c[3]].idx
        /\ VehicleOf(f, c[4]) = f[c[3]].idx /\ VehicleOf(g, c[4]) = f[c[1]].idx
        /\ \A o \in OrdersOn(f) : o \notin {c[2], c[4]} => VehicleOf(g, o) = VehicleOf(f, o)
        /\ c[2] # c[4] /\ {c[2], c[4]} \subseteq OrdersOn(f)
    BY <1>2, <2>2, <2>3, ExchangeMoves
  <2>5. Relocated = {o \in OrdersOn(f) : VehicleOf(f, o) # VehicleOf(g, o)}
    BY <1>3, <2>3 DEF Relocated
  <2>6. CASE f[c[1]].idx = f[c[3]].idx
    <3>1. \A o \in OrdersOn(m_fleet) : VehicleOf(m_fleet', o) = VehicleOf(m_fleet, o)
      BY <1>3, <2>3, <2>4, <2>6
    <3>2. QED
      BY <3>1, StayingRespects
  <2>7. CASE f[c[1]].idx # f[c[3]].idx
    <3>1. Relocated = {c[2], c[4]}
      BY <2>4, <2>5, <2>7
    <3>2. Cardinality(Relocated) = 2
      BY <2>4, <3>1, TwoElements
    <3>3. QED
      BY <3>2 DEF Respectful
  <2>8. QED
    BY <2>6, <2>7
<1>9. QED
  BY <1>4, <1>7, <1>8

\* Every step that may make a move respects the tabu list.
LEMMA StepRespects ==
  ASSUME IInv, Searching, pc \notin {"move_2_real", "intensify", "finish"}, [Next]_vars
  PROVE  Respectful
<1>1. ListsInv /\ Sound(call, m_fleet) /\ FleetFeasible(m_fleet)
  BY DEF IInv, SolutionsInv
<1>2. CASE m_fleet' = m_fleet
  BY <1>2, StayingRespects
<1>3. CASE UNCHANGED vars \/ Terminated
  <2>1. m_fleet' = m_fleet
    BY <1>3 DEF Terminated, vars, solutions
  <2>2. QED
    BY <1>2, <2>1
<1>4. CASE BuildInitial \/ Start
  <2>1. pc \in {"stops", "unused", "phony", "start"}
    BY <1>4 DEF BuildInitial, Initial_solution, SetStops, UseGiven, AddUnused, Place, AllPlaced, Start
  <2>2. QED
    BY <2>1, NotSearching
<1>5. CASE Cycle \/ Stuck \/ Counted \/ Judge \/ NextTurn \/ InsertsTried \/ ExchangesTried \/ Diversify
  <2>1. m_fleet' = m_fleet
    BY <1>5 DEF Cycle, Stuck, Counted, Judge, NextTurn, InsertsTried, ExchangesTried, Diversify,
                solutions
  <2>2. QED
    BY <1>2, <2>1
<1>6. CASE Prepared \/ Explored
  <2>1. m_fleet' = m_fleet \/ m_fleet' = delete_empty_truck(m_fleet)
    BY <1>6 DEF Prepared, Explored
  <2>2. CASE m_fleet' = delete_empty_truck(m_fleet)
    <3>1. \A o \in OrdersOn(m_fleet) : VehicleOf(m_fleet', o) = VehicleOf(m_fleet, o)
      BY <1>1, <2>2, ArrangedVehicles
    <3>2. QED
      BY <3>1, StayingRespects
  <2>3. QED
    BY <1>2, <2>1, <2>2
<1>7. CASE Intensify \/ Finish \/ MoveToReal
  BY <1>7 DEF Intensify, Finish, MoveToReal
<1>8. CASE \/ Explore \/ IntensifyInsert \/ IntensifyExchange
           \/ InsertUnseen \/ ExchangeUnseen \/ ExchangeAny
  <2>1. \E intensify, diversify \in BOOLEAN :
          single_pair_insertion(intensify, diversify) \/ swap_between_routes(intensify, diversify)
    BY <1>8 DEF Explore, IntensifyInsert, IntensifyExchange, InsertUnseen, ExchangeUnseen,
                ExchangeAny, DiversifyBy
  <2>2. QED
    BY <1>1, <2>1, InsertionRespects, ExchangeRespects
<1>9. QED
  BY <1>3, <1>4, <1>5, <1>6, <1>7, <1>8 DEF Next

\* Whatever the lengths of the lists and of the search: a move that was made
\* lately, or its reverse, is made again only if it leads to a solution better
\* than the best one, or empties a vehicle (single_pair_insertion, has_move).
THEOREM TabuListRespected == Spec => TabuIsRespected
<1>1. IInv /\ [Next]_vars =>
        [(/\ Searching /\ moved' /\ pc \notin {"move_2_real", "intensify", "finish"}
          /\ Cardinality(Relocated) = 1) =>
           \A o \in Relocated :
             LET from == VehicleOf(m_fleet, o)
                 to == VehicleOf(m_fleet', o)
             IN  \/ ~has_move(tabu_list, from, to, o)
                 \/ FleetObjective(m_fleet') < FleetObjective(best_solution)
                 \/ \E k \in DOMAIN m_fleet' : m_fleet'[k].idx = from /\ empty(m_fleet'[k])]_vars
  BY StepRespects DEF Respectful
<1>2. QED
  BY <1>1, InvariantHolds, PTL DEF Spec, TabuIsRespected

=============================================================================
