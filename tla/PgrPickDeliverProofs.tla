------------------------ MODULE PgrPickDeliverProofs ------------------------
(***************************************************************************)
(* Theorems about the construction of an initial solution (SimpleInitial)  *)
(* and about the whole call (PgrPickDeliver), for every problem: all       *)
(* orders and vehicles, all travel times.                                  *)
(*                                                                         *)
(* The construction places every order once, its routes are what its kind  *)
(* promises, and a vehicle that suits an order takes it.  What the         *)
(* searches compute matters for the first only in so far as a vehicle      *)
(* keeps its shape and gains at most the order it is offered.              *)
(*                                                                         *)
(* The optimizer starts from the least of the solutions, shares out every  *)
(* order once, adds no violation and never makes the best solution worse.  *)
(* Each vehicle it ends with is one it was given, after orders came and    *)
(* went, and its walks over the fleet are followed turn by turn.           *)
(***************************************************************************)
EXTENDS PgrPickDeliver, VehicleRouteProofs

\* Some order has the most companions, as there are finitely many orders.
LEMMA SomeHasMost ==
  ASSUME NEW S, S # {}, NEW n \in Nat, NEW c \in [S -> 0..n]
  PROVE  \E o \in S : \A p \in S : c[p] <= c[o]
<1> DEFINE Missing == {n - c[o] : o \in S}
<1>1. Missing \in SUBSET Nat /\ Missing # {}
  OBVIOUS
<1>2. PICK x \in Missing : \A y \in Missing : x <= y
  BY <1>1, LeastNatural
<1>3. PICK o \in S : x = n - c[o]
  OBVIOUS
<1>4. \A p \in S : n - c[o] <= n - c[p]
  BY <1>2, <1>3
<1>5. QED
  BY <1>4

\* find_best_J and find_best_I choose one of the orders they are given.
LEMMA BestIsMember ==
  ASSUME NEW S \in SUBSET Order, S # {}
  PROVE  find_best_J(S) \in S /\ find_best_I(S) \in S
<1> DEFINE n == Cardinality(Order)
           J == [o \in S |-> Cardinality(subsetJ(o, S))]
           I == [o \in S |-> Cardinality(subsetI(o, S))]
           MostJ == {o \in S : \A p \in S : J[p] <= J[o]}
           MostI == {o \in S : \A p \in S : I[p] <= I[o]}
<1>1. Order \in SUBSET Nat /\ IsFiniteSet(Order) /\ n \in Nat
  BY DataAssumption, FS_CardinalityType
<1>2. \A o \in S : subsetJ(o, S) \in SUBSET Order /\ subsetI(o, S) \in SUBSET Order
  BY DEF subsetJ, subsetI
<1>3. ASSUME NEW T \in SUBSET Order
      PROVE  Cardinality(T) \in 0..n
  <2>1. IsFiniteSet(T) /\ Cardinality(T) <= n
    BY <1>1, FS_Subset
  <2>2. Cardinality(T) \in Nat
    BY <2>1, FS_CardinalityType
  <2>3. QED
    BY <1>1, <2>1, <2>2
<1>4. J \in [S -> 0..n] /\ I \in [S -> 0..n]
  BY <1>2, <1>3
<1>5. MostJ \in SUBSET Nat /\ MostJ # {} /\ MostJ \subseteq S
  <2> HIDE DEF J
  <2>1. QED
    BY <1>1, <1>4, SomeHasMost
<1>6. MostI \in SUBSET Nat /\ MostI # {} /\ MostI \subseteq S
  <2> HIDE DEF I
  <2>1. QED
    BY <1>1, <1>4, SomeHasMost
<1>7. find_best_J(S) = Min(MostJ) /\ find_best_I(S) = Min(MostI)
  BY DEF find_best_J, find_best_I, FirstWithMost
<1>8. QED
  <2> HIDE DEF MostJ, MostI
  <2>1. QED
    BY <1>5, <1>6, <1>7, MinIsMember

-----------------------------------------------------------------------------

\* A vehicle as a record, whatever its path.
IsVehicle(t) ==
  t = [idx |-> t.idx, path |-> t.path, orders |-> t.orders,
       user_twv |-> t.user_twv, user_cv |-> t.user_cv]

\* u is the vehicle t after it was offered the order o.
Offered(t, o, u) ==
  /\ IsVehicle(u)
  /\ u.idx = t.idx
  /\ u.orders \in {t.orders, t.orders \cup {o}}

\* A vehicle whose path is replaced and that gains the order was offered it.
LEMMA GainOffers ==
  ASSUME NEW t, IsVehicle(t), NEW o, NEW path, NEW u,
         u = [t EXCEPT !.path = path, !.orders = t.orders \cup {o}]
  PROVE  Offered(t, o, u)
<1> DEFINE orders == t.orders \cup {o}
           moved == [t EXCEPT !.path = path]
<1>1. PICK a, b, c, d, e :
        t = [idx |-> a, path |-> b, orders |-> c, user_twv |-> d, user_cv |-> e]
  BY DEF IsVehicle
<1>2. u = [idx |-> a, path |-> path, orders |-> orders, user_twv |-> d, user_cv |-> e]
  <2>1. u = [moved EXCEPT !.orders = orders]
    BY <1>1
  <2>2. moved = [idx |-> a, path |-> path, orders |-> c, user_twv |-> d, user_cv |-> e]
    BY <1>1
  <2> HIDE DEF moved, orders
  <2>3. [moved EXCEPT !.orders = orders] =
          [idx |-> a, path |-> path, orders |-> orders, user_twv |-> d, user_cv |-> e]
    BY <2>2
  <2>4. QED
    BY <2>1, <2>3
<1>3. u.idx = t.idx /\ u.orders = t.orders \cup {o}
  BY <1>1, <1>2
<1>4. IsVehicle(u)
  BY <1>2 DEF IsVehicle
<1>5. QED
  BY <1>3, <1>4 DEF Offered

\* Every way to place an order leaves a vehicle that has at most the order
\* more.
LEMMA PlaceOffers ==
  ASSUME NEW t, IsVehicle(t), NEW o
  PROVE  Offered(t, o, Place(t, o))
<1>1. Offered(t, o, push_back(t, o))
  <2>1. PICK path : push_back(t, o) = [t EXCEPT !.path = path, !.orders = t.orders \cup {o}]
    BY DEF push_back
  <2>2. QED
    BY <2>1, GainOffers
<1>2. Offered(t, o, push_front(t, o))
  <2>1. PICK path : push_front(t, o) = [t EXCEPT !.path = path, !.orders = t.orders \cup {o}]
    BY DEF push_front
  <2>2. QED
    BY <2>1, GainOffers
<1>3. Offered(t, o, t)
  BY DEF IsVehicle, Offered
<1>4. ASSUME NEW p, NEW q
      PROVE  Offered(t, o, WithOrderAt(t, o, p, q))
  <2>1. PICK path : WithOrderAt(t, o, p, q) =
                     [t EXCEPT !.path = path, !.orders = t.orders \cup {o}]
    BY DEF WithOrderAt
  <2>2. QED
    BY <2>1, GainOffers
<1>5. Offered(t, o, hillClimb(t, o))
  <2>1. \A pq : Offered(t, o, WithOrderAtPair(t, o, pq))
    BY <1>4 DEF WithOrderAtPair
  <2>2. QED
    BY <1>3, <2>1 DEF hillClimb, BestOf
<1>6. Offered(t, o, semiLIFO(t, o))
  BY <1>3, <1>4 DEF semiLIFO, LatestDrop
<1>7. QED
  BY <1>1, <1>2, <1>5, <1>6 DEF Place

-----------------------------------------------------------------------------

\* Appending to a sequence, of whatever elements it is.
LEMMA AppendToFleet ==
  ASSUME NEW s, s \in Seq(Range(s)), NEW e
  PROVE  /\ Append(s, e) \in Seq(Range(Append(s, e)))
         /\ Len(s) \in Nat /\ DOMAIN s = 1..Len(s)
         /\ DOMAIN Append(s, e) = 1..(Len(s) + 1)
         /\ \A k \in 1..Len(s) : Append(s, e)[k] = s[k]
         /\ Append(s, e)[Len(s) + 1] = e
<1> DEFINE S == Range(s) \cup {e}
           t == Append(s, e)
<1>1. Len(s) \in Nat /\ DOMAIN s = 1..Len(s) /\ s \in [1..Len(s) -> S]
  BY DEF Range
<1>2. s \in Seq(S)
  BY <1>1
<1>3. /\ t \in Seq(S) /\ Len(t) = Len(s) + 1
      /\ \A k \in 1..Len(s) : t[k] = s[k]
      /\ t[Len(s) + 1] = e
  <2> HIDE DEF S
  <2>1. e \in S
    BY DEF S
  <2>2. QED
    BY <1>2, <2>1
<1>4. DOMAIN t = 1..(Len(s) + 1)
  BY <1>1, <1>3
<1>5. t \in Seq(Range(t))
  <2> HIDE DEF S, t
  <2>1. t \in [1..Len(t) -> S] /\ Len(t) \in Nat
    BY <1>3
  <2>2. \A k \in 1..Len(t) : t[k] \in Range(t)
    BY <2>1 DEF Range
  <2>3. t \in [1..Len(t) -> Range(t)]
    BY <2>1, <2>2
  <2>4. QED
    BY <2>1, <2>3
<1>6. QED
  BY <1>1, <1>3, <1>4, <1>5

\* The orders that are offered are orders of no route.
OffersAreUnassigned == building = "inner" => current_feasible \subseteq unassigned

\* A vehicle without orders means that the order it was taken for waits.
EmptyMeansWaiting == building = "inner" /\ truck.orders = {} => unassigned # {}

IInv == TypeOK /\ EachOrderOnce /\ OffersAreUnassigned /\ EmptyMeansWaiting

\* The routes while a vehicle is filled: those of built and then the vehicle.
LEMMA RoutesInner ==
  ASSUME TypeOK, building = "inner"
  PROVE  /\ Len(built) \in Nat /\ DOMAIN built = 1..Len(built)
         /\ DOMAIN Routes = 1..(Len(built) + 1)
         /\ \A k \in DOMAIN built : Routes[k] = built[k]
         /\ Routes[Len(built) + 1] = truck
  BY AppendToFleet DEF TypeOK, Routes

\* A vehicle that is taken from the fleet is empty.
LEMMA NewTruckShape ==
  ASSUME NEW v \in trucks
  PROVE  VehicleShape(NewTruck(v)) /\ NewTruck(v).orders = {}
  BY DEF VehicleShape, NewTruck

\* At the start every order is unassigned and no vehicle is filled.
LEMMA InitEstablishes == Init => IInv
<1> SUFFICES ASSUME Init PROVE IInv
  OBVIOUS
<1>1. Routes = <<>> /\ DOMAIN Routes = {}
  BY DEF Init, Routes
<1>2. VehicleShape(truck)
  BY NewTruckShape DEF Init
<1>3. built \in Seq(Range(built)) /\ DOMAIN built = {}
  BY DEF Init
<1>4. TypeOK
  BY <1>2, <1>3 DEF Init, TypeOK
<1>5. EachOrderOnce
  BY <1>1 DEF Init, EachOrderOnce
<1>6. OffersAreUnassigned /\ EmptyMeansWaiting
  BY DEF Init, OffersAreUnassigned, EmptyMeansWaiting
<1>7. QED
  BY <1>4, <1>5, <1>6 DEF IInv

\* The first unassigned order is a vehicle's to serve, and the vehicle is new.
LEMMA GetTruckPreserves ==
  ASSUME IInv, GetTruck
  PROVE  IInv'
<1>1. PICK v \in trucks : /\ get_truck(Min(unassigned), v)
                          /\ truck' = NewTruck(v)
                          /\ current_feasible' = Offers(v)
  BY DEF GetTruck
<1>2. m_used' \in SUBSET trucks /\ m_unused' \in SUBSET trucks
  BY <1>1 DEF get_truck, IInv, TypeOK
<1>3. VehicleShape(truck)' /\ truck'.orders = {}
  BY <1>1, NewTruckShape DEF VehicleShape, GetTruck
<1>4. UNCHANGED <<kind, all_orders, unassigned, assigned, trucks, built>>
  BY DEF GetTruck
<1>5. current_feasible' \subseteq unassigned'
  BY <1>1, <1>4 DEF Offers
<1>6. \A k \in DOMAIN built' : VehicleShape(built[k])'
  BY <1>4 DEF IInv, TypeOK, VehicleShape
<1>7. TypeOK'
  BY <1>2, <1>3, <1>4, <1>5, <1>6 DEF IInv, TypeOK, GetTruck
<1>8. Routes = built
  BY DEF GetTruck, Routes
<1>9. EachOrderOnce'
  <2>1. CASE building' = "inner"
    <3>1. /\ Len(built) \in Nat /\ DOMAIN built = 1..Len(built)
          /\ DOMAIN Routes' = 1..(Len(built) + 1)
          /\ \A k \in DOMAIN built : Routes'[k] = built[k]
          /\ Routes'[Len(built) + 1] = truck'
      BY <1>4, <2>1, AppendToFleet DEF IInv, TypeOK, Routes
    <3>2. QED
      BY <1>3, <1>4, <1>8, <3>1 DEF IInv, EachOrderOnce
  <2>2. CASE building' # "inner"
    <3>1. Routes' = Routes
      BY <1>4, <1>8, <2>2 DEF Routes
    <3>2. QED
      BY <1>4, <3>1 DEF IInv, EachOrderOnce
  <2>3. QED
    BY <2>1, <2>2
<1>10. unassigned' # {}
  BY <1>4 DEF GetTruck
<1>11. QED
  BY <1>5, <1>7, <1>9, <1>10 DEF IInv, OffersAreUnassigned, EmptyMeansWaiting

\* The order that is offered moves from unassigned to the vehicle, or nowhere.
LEMMA OfferOrderPreserves ==
  ASSUME IInv, OfferOrder
  PROVE  IInv'
<1> DEFINE o == NextOrder
           n == Len(built)
<1>1. /\ building = "inner" /\ building' = "inner" /\ current_feasible # {}
      /\ truck' = Place(truck, o)
      /\ current_feasible' = Remaining(o, o \in truck'.orders)
      /\ IF o \in truck'.orders
         THEN assigned' = assigned \cup {o} /\ unassigned' = unassigned \ {o}
         ELSE UNCHANGED <<assigned, unassigned>>
      /\ UNCHANGED <<kind, all_orders, trucks, m_unused, m_used, built>>
  BY DEF OfferOrder, has_order, fleetVars
<1>2. current_feasible \in SUBSET unassigned /\ current_feasible \in SUBSET Order
  BY <1>1 DEF IInv, OffersAreUnassigned, TypeOK
<1>3. o \in current_feasible
  BY <1>1, <1>2, BestIsMember, MinIsMember, DataAssumption DEF NextOrder
<1>4. IsVehicle(truck) /\ truck.idx \in trucks /\ truck.orders \in SUBSET all_orders
  BY DEF IInv, TypeOK, VehicleShape, IsVehicle
<1>5. /\ IsVehicle(truck') /\ truck'.idx = truck.idx
      /\ truck'.orders \in {truck.orders, truck.orders \cup {o}}
  BY <1>1, <1>4, PlaceOffers DEF Offered
<1>6. current_feasible' \in SUBSET (current_feasible \ {o})
  BY <1>1 DEF Remaining, Companions, subsetJ, subsetI
<1> HIDE DEF o
<1>7. unassigned \in SUBSET all_orders /\ assigned \in SUBSET all_orders
  BY DEF IInv, TypeOK
<1>8. TypeOK'
  <2>1. VehicleShape(truck)'
    BY <1>1, <1>2, <1>3, <1>4, <1>5, <1>7 DEF VehicleShape, IsVehicle
  <2>2. \A k \in DOMAIN built' : VehicleShape(built[k])'
    BY <1>1 DEF IInv, TypeOK, VehicleShape
  <2>3. QED
    BY <1>1, <1>2, <1>3, <1>6, <1>7, <2>1, <2>2 DEF IInv, TypeOK
<1>9. OffersAreUnassigned'
  BY <1>1, <1>2, <1>6 DEF OffersAreUnassigned
<1>10. EachOrderOnce'
  <2>1. /\ n \in Nat /\ DOMAIN built = 1..n
        /\ DOMAIN Routes = 1..(n + 1) /\ DOMAIN Routes' = 1..(n + 1)
        /\ \A k \in 1..n : Routes[k] = built[k] /\ Routes'[k] = built[k]
        /\ Routes[n + 1] = truck /\ Routes'[n + 1] = truck'
    BY <1>1, AppendToFleet DEF IInv, TypeOK, Routes
  <2> HIDE DEF n
  <2>2. o \notin assigned /\ o \in unassigned
    BY <1>2, <1>3 DEF IInv, EachOrderOnce
  <2>3. CASE o \in truck'.orders
    <3>1. truck'.orders = truck.orders \cup {o}
      BY <1>5, <2>3
    <3>2. \A k \in 1..(n + 1) : o \notin Routes[k].orders
      BY <2>1, <2>2 DEF IInv, EachOrderOnce
    <3>3. assigned' \cup unassigned' = all_orders' /\ assigned' \cap unassigned' = {}
      BY <1>1, <2>2, <2>3 DEF IInv, EachOrderOnce
    <3>4. \A p \in assigned' : \E k \in DOMAIN Routes' : p \in Routes'[k].orders
      BY <1>1, <2>1, <2>3, <3>1 DEF IInv, EachOrderOnce
    <3>5. \A k \in DOMAIN Routes' : Routes'[k].orders \subseteq assigned'
      BY <1>1, <2>1, <2>3, <3>1 DEF IInv, EachOrderOnce
    <3>6. \A k, l \in DOMAIN Routes' :
            k # l => Routes'[k].orders \cap Routes'[l].orders = {}
      BY <2>1, <3>1, <3>2 DEF IInv, EachOrderOnce
    <3>7. QED
      BY <3>3, <3>4, <3>5, <3>6 DEF EachOrderOnce
  <2>4. CASE o \notin truck'.orders
    <3>1. truck'.orders = truck.orders
      BY <1>5, <2>4
    <3>2. \A k \in DOMAIN Routes : Routes'[k].orders = Routes[k].orders
      BY <2>1, <3>1
    <3>3. QED
      BY <1>1, <2>1, <2>4, <3>2 DEF IInv, EachOrderOnce
  <2>5. QED
    BY <2>3, <2>4
<1>11. EmptyMeansWaiting'
  BY <1>1, <1>5 DEF IInv, EmptyMeansWaiting
<1>12. QED
  BY <1>8, <1>9, <1>10, <1>11 DEF IInv

\* The vehicle joins the solution; one without orders does not.
LEMMA CloseTruckPreserves ==
  ASSUME IInv, CloseTruck
  PROVE  IInv'
<1>1. /\ building = "inner" /\ building' \in {"outer", "failed"}
      /\ UNCHANGED <<kind, all_orders, unassigned, assigned, trucks, m_unused,
                     m_used, truck, current_feasible>>
  BY DEF CloseTruck, fleetVars
<1>2. VehicleShape(truck) /\ VehicleShape(truck)'
  BY <1>1 DEF IInv, TypeOK, VehicleShape
<1>3. \A k \in DOMAIN built : VehicleShape(built[k])
  BY DEF IInv, TypeOK
<1>4. CASE MadeProgress
  <2>1. built' = Append(built, truck)
    BY <1>4 DEF CloseTruck
  <2>2. /\ built' \in Seq(Range(built'))
        /\ Len(built) \in Nat /\ DOMAIN built = 1..Len(built)
        /\ DOMAIN built' = 1..(Len(built) + 1)
        /\ \A k \in 1..Len(built) : built'[k] = built[k]
        /\ built'[Len(built) + 1] = truck
    BY <2>1, AppendToFleet DEF IInv, TypeOK
  <2>3. \A k \in DOMAIN built' : VehicleShape(built'[k])
    BY <1>2, <1>3, <2>2
  <2>4. \A k \in DOMAIN built' : VehicleShape(built[k])'
    BY <1>1, <2>3 DEF VehicleShape
  <2>5. TypeOK'
    BY <1>1, <1>2, <2>2, <2>4 DEF IInv, TypeOK
  <2>6. Routes' = Routes
    BY <1>1, <2>1 DEF Routes
  <2>7. QED
    BY <1>1, <2>5, <2>6 DEF IInv, EachOrderOnce, OffersAreUnassigned, EmptyMeansWaiting
<1>5. CASE ~MadeProgress
  <2>1. built' = built /\ truck.orders = {}
    BY <1>5 DEF CloseTruck, MadeProgress
  <2>2. \A k \in DOMAIN built' : VehicleShape(built[k])'
    BY <1>1, <1>3, <2>1 DEF VehicleShape
  <2>3. TypeOK'
    BY <1>1, <1>2, <2>1, <2>2 DEF IInv, TypeOK
  <2>4. Routes' = built
    BY <1>1, <2>1 DEF Routes
  <2>5. EachOrderOnce'
    BY <1>1, <2>1, <2>4, RoutesInner DEF IInv, EachOrderOnce
  <2>6. QED
    BY <1>1, <2>3, <2>5 DEF IInv, OffersAreUnassigned, EmptyMeansWaiting
<1>6. QED
  BY <1>4, <1>5

\* The invariant is inductive, one lemma per action.
LEMMA IInvInductive == IInv /\ [Next]_vars => IInv'
<1> SUFFICES ASSUME IInv, [Next]_vars PROVE IInv'
  OBVIOUS
<1>1. CASE GetTruck
  BY <1>1, GetTruckPreserves
<1>2. CASE OfferOrder
  BY <1>2, OfferOrderPreserves
<1>3. CASE CloseTruck
  BY <1>3, CloseTruckPreserves
<1>4. CASE GetTruckThrows \/ Finish \/ UNCHANGED vars
  <2>1. /\ UNCHANGED <<kind, all_orders, unassigned, assigned, trucks, m_unused,
                       m_used, built, truck, current_feasible>>
        /\ (building' \in {"failed", "done"} /\ building = "outer") \/ building' = building
    BY <1>4 DEF GetTruckThrows, Finish, vars, fleetVars
  <2>2. Routes' = Routes
    BY <2>1 DEF Routes
  <2>3. TypeOK'
    BY <2>1 DEF IInv, TypeOK, VehicleShape
  <2>4. QED
    BY <2>1, <2>2, <2>3 DEF IInv, EachOrderOnce, OffersAreUnassigned, EmptyMeansWaiting
<1>5. QED
  BY <1>1, <1>2, <1>3, <1>4 DEF Next

\* Every variable has its type, and every order is placed exactly once or is
\* still unassigned: simple::Initial_solution::invariant, for every problem.
THEOREM TypeCorrect == Spec => []TypeOK
<1>1. IInv => TypeOK
  BY DEF IInv
<1>2. QED
  BY <1>1, InitEstablishes, IInvInductive, PTL DEF Spec

\* An order is unassigned or on exactly one route, whatever the kind and the
\* orders and vehicles (initialsol::simple: m_orders, assigned, unassigned).
THEOREM OrdersPlacedOnce == Spec => []EachOrderOnce
<1>1. IInv => EachOrderOnce
  BY DEF IInv
<1>2. QED
  BY <1>1, InitEstablishes, IInvInductive, PTL DEF Spec

-----------------------------------------------------------------------------

\* A vehicle that joins the solution is a route that is closed.
LEMMA CloseAppends ==
  ASSUME TypeOK, built' = Append(built, truck)
  PROVE  [k \in DOMAIN built' |-> built'[k].orders] =
           Append([k \in DOMAIN built |-> built[k].orders], truck.orders)
<1> DEFINE n == Len(built)
           f == [k \in 1..n |-> built[k].orders]
           g == [k \in 1..(n + 1) |-> built'[k].orders]
           S == {built'[k].orders : k \in 1..(n + 1)}
<1>1. /\ n \in Nat /\ DOMAIN built = 1..n /\ DOMAIN built' = 1..(n + 1)
      /\ \A k \in 1..n : built'[k] = built[k]
      /\ built'[n + 1] = truck
  BY AppendToFleet DEF TypeOK
<1> HIDE DEF n
<1>2. f \in [1..n -> S] /\ g \in [1..(n + 1) -> S] /\ truck.orders \in S
  BY <1>1
<1> HIDE DEF S
<1>3. f \in Seq(S) /\ Len(f) = n
  BY <1>1, <1>2
<1>4. Append(f, truck.orders) = g
  <2>1. /\ Append(f, truck.orders) \in [1..(n + 1) -> S]
        /\ \A k \in 1..n : Append(f, truck.orders)[k] = f[k]
        /\ Append(f, truck.orders)[n + 1] = truck.orders
    <3> DEFINE h == Append(f, truck.orders)
    <3> HIDE DEF f
    <3>1. h \in Seq(S) /\ Len(h) = n + 1
      BY <1>1, <1>2, <1>3
    <3>2. /\ \A k \in 1..n : h[k] = f[k]
          /\ h[n + 1] = truck.orders
      BY <1>1, <1>2, <1>3
    <3>3. h \in [1..Len(h) -> S]
      <4> HIDE DEF h
      <4>1. QED
        BY <3>1
    <3>4. QED
      BY <3>1, <3>2, <3>3
  <2>2. \A k \in 1..(n + 1) : Append(f, truck.orders)[k] = g[k]
    BY <1>1, <2>1
  <2>3. QED
    BY <1>2, <2>1, <2>2
<1>5. QED
  BY <1>1, <1>4

\* Every step of the construction is a step of OrderAssignment, or none.
LEMMA StepRefines ==
  ASSUME IInv, [Next]_vars
  PROVE  [Assignment!Next]_(Assignment!vars)
<1> USE DEF Assignment!Next, Assignment!vars
<1>1. CASE GetTruck
  <2>1. /\ building = "outer" /\ building' \in {"inner", "failed"} /\ unassigned # {}
        /\ truck'.orders = {} /\ UNCHANGED <<unassigned, built>>
    BY <1>1, NewTruckShape DEF GetTruck
  <2>2. QED
    BY <2>1 DEF Assignment!Abandon
<1>2. CASE GetTruckThrows
  BY <1>2 DEF GetTruckThrows, Assignment!Abandon
<1>3. CASE OfferOrder
  <2> DEFINE o == NextOrder
  <2>1. /\ building = "inner" /\ building' = "inner" /\ current_feasible # {}
        /\ truck' = Place(truck, o) /\ built' = built
        /\ IF o \in truck'.orders THEN unassigned' = unassigned \ {o}
           ELSE unassigned' = unassigned
    BY <1>3 DEF OfferOrder, has_order
  <2>2. o \in unassigned
    BY <2>1, BestIsMember, MinIsMember, DataAssumption
      DEF NextOrder, IInv, TypeOK, OffersAreUnassigned
  <2>3. truck'.orders \in {truck.orders, truck.orders \cup {o}}
    BY <2>1, PlaceOffers DEF Offered, IsVehicle, IInv, TypeOK, VehicleShape
  <2> HIDE DEF o
  <2>4. CASE o \in truck'.orders
    BY <2>1, <2>2, <2>3, <2>4 DEF Assignment!Assign
  <2>5. CASE o \notin truck'.orders
    BY <2>1, <2>3, <2>5
  <2>6. QED
    BY <2>4, <2>5
<1>4. CASE CloseTruck
  <2>1. building = "inner" /\ UNCHANGED unassigned
    BY <1>4 DEF CloseTruck
  <2>2. CASE MadeProgress
    BY <1>4, <2>1, <2>2, CloseAppends
      DEF CloseTruck, MadeProgress, Assignment!Close, IInv
  <2>3. CASE ~MadeProgress
    BY <1>4, <2>1, <2>3
      DEF CloseTruck, MadeProgress, Assignment!Abandon, IInv, EmptyMeansWaiting
  <2>4. QED
    BY <2>2, <2>3
<1>5. CASE Finish
  BY <1>5 DEF Finish, Assignment!Complete
<1>6. CASE UNCHANGED vars
  BY <1>6 DEF vars
<1>7. QED
  BY <1>1, <1>2, <1>3, <1>4, <1>5, <1>6 DEF Next

\* The construction implements OrderAssignment: what it decides about the
\* orders is what the abstract specification allows, for every problem.
THEOREM Refinement == Spec => ImplementsOrderAssignment
<1>1. Init => Assignment!Init
  BY DEF Init, Assignment!Init
<1>2. IInv /\ [Next]_vars => [Assignment!Next]_(Assignment!vars)
  BY StepRefines
<1>3. QED
  BY <1>1, <1>2, InitEstablishes, IInvInductive, PTL
    DEF Spec, ImplementsOrderAssignment, Assignment!Spec

-----------------------------------------------------------------------------

(***************************************************************************)
(* The routes fit the kind of construction.                                *)
(***************************************************************************)

\* No pickup follows a delivery.
PicksFirst(path) ==
  \A p, q \in DOMAIN path : IsDelivery(path[p].node) /\ IsPickup(path[q].node) => q < p

\* What the kind promises of one route.
FitsTheKind(t) ==
  /\ kind \notin {"FrontTruck", "BackTruck"} /\ t.orders # {} => is_feasible(t)
  /\ kind = "OneDepot" => PicksFirst(t.path)
  /\ kind \in {"BestBack", "BestFront"} =>
       \A a, b \in t.orders : a # b => isCompatibleIJ(a, b) \/ isCompatibleIJ(b, a)

\* What a kind still offers to the vehicle that has these orders.
OffersFit ==
  /\ kind = "BestBack" => \A o \in truck.orders : current_feasible \subseteq compatibleJ[o]
  /\ kind = "BestFront" => \A o \in truck.orders : current_feasible \subseteq compatibleI[o]
  /\ kind = "OnePerTruck" =>
       \/ current_feasible = {}
       \/ /\ truck = NewTruck(truck.idx)
          /\ current_feasible \subseteq feasible_orders[truck.idx]

\* A vehicle that is as it should be, tolerates nothing, and visits the nodes
\* of its own orders only, so that it can take another one.
Fillable(t) ==
  /\ Intact(t) /\ t.user_twv = 0 /\ t.user_cv = 0
  /\ \A o \in Order \ t.orders : OffPath(t, o)

RoutesFit ==
  /\ \A k \in DOMAIN built : Fillable(built[k]) /\ FitsTheKind(built[k])
  /\ building = "inner" => Fillable(truck) /\ FitsTheKind(truck) /\ OffersFit

\* Delivering behind all the pickups keeps them first.
LEMMA PicksStayFirst ==
  ASSUME NEW path \in Seq(Stop), NEW v, path[1].node = StartSite(v), Len(path) >= 2,
         NEW o, NEW q \in 3..(Len(path) + 1), NEW e, HasOrder(path, o, 2, q, e),
         \A r \in q..(Len(path) + 1) : ~IsPickup(path[r - 1].node), PicksFirst(path)
  PROVE  PicksFirst(e)
<1> DEFINE n == Len(path)
<1>1. /\ e \in Seq(Stop) /\ Len(e) = n + 2 /\ n \in Nat
      /\ \A j \in 1..(n + 2) : e[j].node = OrderedNode(path, o, 2, q, j)
  BY DEF HasOrder
<1>2. DOMAIN e = 1..(n + 2) /\ DOMAIN path = 1..n
  BY <1>1
<1>3. ~IsDelivery(StartSite(v)) /\ ~IsDelivery(Pickup(o)) /\ ~IsPickup(Delivery(o))
  BY DEF IsDelivery, IsPickup, StartSite, Pickup, Delivery
<1>4. \A r \in q..(n + 1) : ~IsPickup(path[r - 1].node)
  OBVIOUS
<1> HIDE DEF n
<1>5. \A j \in 1..(n + 2) : j >= q => ~IsPickup(e[j].node)
  <2>1. TAKE j \in 1..(n + 2)
  <2>2. HAVE j >= q
  <2>3. CASE j = q
    <3>1. OrderedNode(path, o, 2, q, j) = Delivery(o)
      BY <1>1, <2>3 DEF OrderedNode, n
    <3>2. QED
      BY <1>1, <1>3, <3>1
  <2>4. CASE j > q
    <3>1. j - 1 \in q..(n + 1) /\ (j - 1) - 1 = j - 2 /\ ~(j < 2) /\ j # 2 /\ ~(j < q) /\ j # q
      BY <1>1, <2>4 DEF n
    <3>2. OrderedNode(path, o, 2, q, j) = path[j - 2].node
      BY <3>1 DEF OrderedNode
    <3>3. QED
      BY <1>1, <1>4, <3>1, <3>2
  <2>5. QED
    BY <1>1, <2>2, <2>3, <2>4 DEF n
<1>6. SUFFICES ASSUME NEW a \in 1..(n + 2), NEW b \in 1..(n + 2),
                      IsDelivery(e[a].node), IsPickup(e[b].node)
               PROVE  b < a
  BY <1>2 DEF PicksFirst
<1>7. b < q
  BY <1>1, <1>5, <1>6 DEF n
<1>8. CASE a >= q
  BY <1>1, <1>7, <1>8 DEF n
<1>9. CASE a < q
  <2>1. a # 1
    <3>1. OrderedNode(path, o, 2, q, 1) = path[1].node
      BY DEF OrderedNode
    <3>2. QED
      BY <1>1, <1>3, <1>6, <3>1
  <2>2. a # 2
    <3>1. OrderedNode(path, o, 2, q, 2) = Pickup(o)
      BY DEF OrderedNode
    <3>2. QED
      BY <1>1, <1>3, <1>6, <3>1
  <2>3. a > 2 /\ a - 1 \in 1..n
    BY <1>1, <1>9, <2>1, <2>2 DEF n
  <2>4. CASE b <= 2
    BY <2>3, <2>4
  <2>5. CASE b > 2
    <3>1. b - 1 \in 1..n
      BY <1>1, <1>7, <2>5 DEF n
    <3>2. e[a].node = path[a - 1].node /\ e[b].node = path[b - 1].node
      <4>1. /\ OrderedNode(path, o, 2, q, a) = path[a - 1].node
            /\ OrderedNode(path, o, 2, q, b) = path[b - 1].node
        BY <1>7, <1>9, <2>3, <2>5 DEF OrderedNode
      <4>2. QED
        BY <1>1, <4>1
    <3>3. b - 1 < a - 1
      BY <1>2, <1>6, <2>3, <3>1, <3>2 DEF PicksFirst
    <3>4. QED
      BY <2>3, <3>1, <3>3
  <2>6. QED
    BY <2>4, <2>5
<1>10. QED
  BY <1>1, <1>8, <1>9 DEF n

\* A vehicle without orders can be filled.
LEMMA NewTruckFillable ==
  ASSUME NEW v \in Truck, NEW t, t = NewTruck(v)
  PROVE  Fillable(t) /\ FitsTheKind(t) /\ t.orders = {} /\ t.idx = v
<1>1. /\ Intact(t) /\ t.idx = v /\ t.orders = {} /\ t.user_twv = 0 /\ t.user_cv = 0
      /\ Nodes(t.path) = {StartSite(v), EndSite(v)} /\ t.path = NewPath(v)
  BY NewTruckIntact
<1>2. \A o \in Order : OffPath(t, o)
  BY <1>1, KindsDiffer DEF OffPath
<1>3. PicksFirst(t.path)
  <2>1. /\ NewPath(v) \in Seq(Stop) /\ Len(NewPath(v)) = 2
        /\ NewPath(v)[1].node = StartSite(v) /\ NewPath(v)[2].node = EndSite(v)
    BY NewPathIs
  <2>2. \A p \in DOMAIN NewPath(v) : p = 1 \/ p = 2
    BY <2>1
  <2>3. ~IsDelivery(StartSite(v)) /\ ~IsDelivery(EndSite(v))
    BY DEF IsDelivery, StartSite, EndSite
  <2>4. \A p \in DOMAIN NewPath(v) : ~IsDelivery(NewPath(v)[p].node)
    BY <2>1, <2>2, <2>3
  <2>5. QED
    BY <1>1, <2>4 DEF PicksFirst
<1>4. QED
  BY <1>1, <1>2, <1>3 DEF Fillable, FitsTheKind

\* What placing the order o on the vehicle t makes of it.
Placed(t, o, u) ==
  /\ Fillable(u) /\ u.orders = t.orders \cup {o}
  /\ kind \notin {"FrontTruck", "BackTruck", "OnePerTruck"} => is_feasible(u)
  /\ kind = "OnePerTruck" => u = push_back(t, o)
  /\ kind = "OneDepot" /\ PicksFirst(t.path) => PicksFirst(u.path)

\* A vehicle that can be filled can be filled further when it has the order.
LEMMA TookFills ==
  ASSUME NEW t, Fillable(t), NEW o \in Order, NEW u, Took(t, o, u)
  PROVE  Fillable(u) /\ u.orders = t.orders \cup {o}
<1>1. ASSUME NEW a \in Order \ u.orders
      PROVE  OffPath(u, a)
  <2>1. a \in Order \ t.orders /\ a # o
    BY <1>1 DEF Took
  <2>2. Pickup(a) \notin {Pickup(o), Delivery(o)} /\ Delivery(a) \notin {Pickup(o), Delivery(o)}
    BY <2>1, KindsDiffer
  <2>3. OffPath(t, a)
    BY <2>1 DEF Fillable
  <2>4. QED
    BY <2>2, <2>3 DEF Took, OffPath
<1>2. QED
  BY <1>1 DEF Took, SameVehicle, Fillable

\* What the four ways to place an order make of a vehicle that can be filled.
LEMMA PlaceFills ==
  ASSUME NEW t, Fillable(t), NEW o \in Order, o \notin t.orders,
         NEW u, u = Place(t, o)
  PROVE  u = t \/ Placed(t, o, u)
<1>1. /\ Intact(t) /\ t.user_twv = 0 /\ t.user_cv = 0 /\ OffPath(t, o)
      /\ \A a \in Order \ t.orders : OffPath(t, a)
  BY DEF Fillable
<1>2. SUFFICES ASSUME u # t
               PROVE  Placed(t, o, u)
  OBVIOUS
<1>3. Took(t, o, u) => Fillable(u) /\ u.orders = t.orders \cup {o}
  BY TookFills
<1>4. CASE kind = "FrontTruck"
  <2>1. u = push_front(t, o)
    BY <1>4 DEF Place
  <2>2. Took(t, o, u)
    BY <1>1, <2>1, PushesTake
  <2>3. QED
    BY <1>3, <1>4, <2>2 DEF Placed
<1>5. CASE kind \in {"BackTruck", "OnePerTruck"}
  <2>1. u = push_back(t, o)
    BY <1>5 DEF Place
  <2>2. Took(t, o, u)
    BY <1>1, <2>1, PushesTake
  <2>3. QED
    BY <1>3, <1>5, <2>1, <2>2 DEF Placed
<1>6. CASE kind = "OneDepot"
  <2>1. u = semiLIFO(t, o)
    BY <1>6 DEF Place
  <2>2. Took(t, o, u)
    BY <1>1, <1>2, <2>1, SemiLIFOTakes
  <2>3. /\ is_feasible(u)
        /\ \E q \in 3..(Len(t.path) + 1) :
             /\ HasOrder(t.path, o, 2, q, u.path)
             /\ \A r \in q..(Len(t.path) + 1) : ~IsPickup(t.path[r - 1].node)
    BY <1>1, <1>2, <2>1, SemiLIFOIs
  <2>4. t.path \in Seq(Stop) /\ t.path[1].node = StartSite(t.idx) /\ Len(t.path) >= 2
    BY <1>1, VehicleFacts DEF Intact, FromStartToEnd
  <2>5. PicksFirst(t.path) => PicksFirst(u.path)
    BY <2>3, <2>4, PicksStayFirst
  <2>6. QED
    BY <1>3, <1>6, <2>2, <2>3, <2>5 DEF Placed
<1>7. CASE kind \notin {"FrontTruck", "BackTruck", "OnePerTruck", "OneDepot"}
  <2>1. u = hillClimb(t, o)
    BY <1>7 DEF Place
  <2>2. Took(t, o, u)
    BY <1>1, <1>2, <2>1, HillClimbTakes
  <2>3. is_feasible(u)
    BY <1>1, <1>2, <2>1, HillClimbIs
  <2>4. QED
    BY <1>3, <1>7, <2>2, <2>3 DEF Placed
<1>8. QED
  BY <1>4, <1>5, <1>6, <1>7

-----------------------------------------------------------------------------

\* The turn of the inner loop: the vehicle and what it is still offered fit.
LEMMA OfferOrderFits ==
  ASSUME IInv, RoutesFit, OfferOrder
  PROVE  RoutesFit'
<1> DEFINE o == NextOrder
<1>1. /\ building = "inner" /\ building' = "inner" /\ current_feasible # {}
      /\ truck' = Place(truck, o)
      /\ current_feasible' = Remaining(o, o \in truck'.orders)
      /\ kind' = kind /\ built' = built
  BY DEF OfferOrder, has_order
<1>2. current_feasible \in SUBSET unassigned /\ current_feasible \in SUBSET Order
  BY <1>1 DEF IInv, OffersAreUnassigned, TypeOK
<1>3. o \in current_feasible
  BY <1>1, <1>2, BestIsMember, MinIsMember, DataAssumption DEF NextOrder
<1> HIDE DEF o
<1>4. o \in Order /\ o \notin truck.orders
  <2>1. \A k \in DOMAIN Routes : Routes[k].orders \subseteq assigned
    BY DEF IInv, EachOrderOnce
  <2>2. Len(built) + 1 \in DOMAIN Routes /\ Routes[Len(built) + 1] = truck
    BY <1>1, RoutesInner DEF IInv
  <2>3. assigned \cap unassigned = {}
    BY DEF IInv, EachOrderOnce
  <2>4. QED
    BY <1>2, <1>3, <2>1, <2>2, <2>3
<1>5. Fillable(truck) /\ FitsTheKind(truck) /\ OffersFit
  BY <1>1 DEF RoutesFit
<1>6. truck' = truck \/ Placed(truck, o, truck')
  BY <1>1, <1>4, <1>5, PlaceFills
<1>7. \A k \in DOMAIN built' : Fillable(built'[k]) /\ FitsTheKind(built[k])'
  BY <1>1 DEF RoutesFit, FitsTheKind
<1>8. CASE truck' = truck
  <2>1. current_feasible' = current_feasible \ {o}
    BY <1>1, <1>4, <1>8 DEF Remaining
  <2>2. OffersFit'
    BY <1>1, <1>5, <1>8, <2>1 DEF OffersFit
  <2>3. Fillable(truck)' /\ FitsTheKind(truck)'
    BY <1>1, <1>5, <1>8 DEF Fillable, FitsTheKind
  <2>4. QED
    BY <1>7, <2>2, <2>3 DEF RoutesFit
<1>9. CASE Placed(truck, o, truck')
  <2>1. Fillable(truck') /\ truck'.orders = truck.orders \cup {o}
    BY <1>9 DEF Placed
  <2>2. current_feasible' = Companions(o) \ {o}
    BY <1>1, <2>1 DEF Remaining
  <2>3. CASE kind = "OnePerTruck"
    <3>1. truck = NewTruck(truck.idx) /\ o \in feasible_orders[truck.idx]
      BY <1>3, <1>5, <2>3 DEF OffersFit
    <3>2. truck' = push_back(truck, o)
      BY <1>9, <2>3 DEF Placed
    <3>3. truck.idx \in Truck
      BY DEF IInv, TypeOK, VehicleShape
    <3>4. is_order_feasible(truck.idx, o)
      BY <3>1, <3>3 DEF feasible_orders
    <3>5. is_feasible(truck')
      BY <3>1, <3>2, <3>4 DEF is_order_feasible
    <3>6. current_feasible' = {}
      BY <2>2, <2>3 DEF Companions
    <3>7. QED
      BY <1>1, <1>7, <2>1, <2>3, <3>5, <3>6 DEF RoutesFit, FitsTheKind, OffersFit
  <2>4. CASE kind = "BestBack"
    <3>1. \A a \in truck.orders : current_feasible \subseteq compatibleJ[a]
      BY <1>5, <2>4 DEF OffersFit
    <3>2. truck.orders \in SUBSET Order
      BY <1>5, VehicleFacts DEF Fillable, Intact
    <3>3. \A a \in truck.orders : isCompatibleIJ(a, o)
      BY <1>3, <3>1, <3>2 DEF compatibleJ
    <3>4. \A a, b \in truck.orders : a # b => isCompatibleIJ(a, b) \/ isCompatibleIJ(b, a)
      BY <1>5, <2>4 DEF FitsTheKind
    <3>5. \A a, b \in truck'.orders : a # b => isCompatibleIJ(a, b) \/ isCompatibleIJ(b, a)
      BY <2>1, <3>3, <3>4
    <3>6. current_feasible' \subseteq compatibleJ[o] /\ current_feasible' \subseteq current_feasible
      BY <2>2, <2>4 DEF Companions, subsetJ
    <3>7. \A a \in truck'.orders : current_feasible' \subseteq compatibleJ[a]
      BY <2>1, <3>1, <3>6
    <3>8. is_feasible(truck')
      BY <1>9, <2>4 DEF Placed
    <3>9. QED
      BY <1>1, <1>7, <2>1, <2>4, <3>5, <3>7, <3>8 DEF RoutesFit, FitsTheKind, OffersFit
  <2>5. CASE kind = "BestFront"
    <3>1. \A a \in truck.orders : current_feasible \subseteq compatibleI[a]
      BY <1>5, <2>5 DEF OffersFit
    <3>2. truck.orders \in SUBSET Order
      BY <1>5, VehicleFacts DEF Fillable, Intact
    <3>3. \A a \in truck.orders : isCompatibleIJ(o, a)
      BY <1>3, <3>1, <3>2 DEF compatibleI
    <3>4. \A a, b \in truck.orders : a # b => isCompatibleIJ(a, b) \/ isCompatibleIJ(b, a)
      BY <1>5, <2>5 DEF FitsTheKind
    <3>5. \A a, b \in truck'.orders : a # b => isCompatibleIJ(a, b) \/ isCompatibleIJ(b, a)
      BY <2>1, <3>3, <3>4
    <3>6. current_feasible' \subseteq compatibleI[o] /\ current_feasible' \subseteq current_feasible
      BY <2>2, <2>5 DEF Companions, subsetI
    <3>7. \A a \in truck'.orders : current_feasible' \subseteq compatibleI[a]
      BY <2>1, <3>1, <3>6
    <3>8. is_feasible(truck')
      BY <1>9, <2>5 DEF Placed
    <3>9. QED
      BY <1>1, <1>7, <2>1, <2>5, <3>5, <3>7, <3>8 DEF RoutesFit, FitsTheKind, OffersFit
  <2>6. CASE kind \notin {"OnePerTruck", "BestBack", "BestFront"}
    <3>1. kind \notin {"FrontTruck", "BackTruck"} => is_feasible(truck')
      BY <1>9, <2>6 DEF Placed
    <3>2. kind = "OneDepot" => PicksFirst(truck'.path)
      BY <1>5, <1>9 DEF Placed, FitsTheKind
    <3>3. FitsTheKind(truck)'
      BY <1>1, <2>6, <3>1, <3>2 DEF FitsTheKind
    <3>4. OffersFit'
      BY <1>1, <2>6 DEF OffersFit
    <3>5. QED
      BY <1>7, <2>1, <3>3, <3>4 DEF RoutesFit
  <2>7. QED
    BY <2>3, <2>4, <2>5, <2>6
<1>10. QED
  BY <1>6, <1>8, <1>9

\* The vehicle that is taken is empty, so it fits its kind.
LEMMA GetTruckFits ==
  ASSUME IInv, RoutesFit, GetTruck
  PROVE  RoutesFit'
<1>1. PICK v \in trucks : truck' = NewTruck(v) /\ current_feasible' = Offers(v)
  BY DEF GetTruck
<1>2. kind' = kind /\ built' = built
  BY DEF GetTruck
<1>3. v \in Truck
  BY <1>1 DEF IInv, TypeOK
<1>4. Fillable(truck') /\ FitsTheKind(truck') /\ truck'.orders = {} /\ truck'.idx = v
  BY <1>1, <1>3, NewTruckFillable
<1>5. FitsTheKind(truck)'
  BY <1>2, <1>4 DEF FitsTheKind
<1>6. OffersFit'
  BY <1>1, <1>2, <1>4 DEF OffersFit, Offers
<1>7. \A k \in DOMAIN built' : Fillable(built'[k]) /\ FitsTheKind(built[k])'
  BY <1>2 DEF RoutesFit, FitsTheKind
<1>8. QED
  BY <1>4, <1>5, <1>6, <1>7 DEF RoutesFit

\* The vehicle that is closed fits its kind, so the routes do.
LEMMA CloseTruckFits ==
  ASSUME IInv, RoutesFit, CloseTruck
  PROVE  RoutesFit'
<1>1. /\ building = "inner" /\ building' \in {"outer", "failed"} /\ kind' = kind
      /\ built' = built \/ built' = Append(built, truck)
  BY DEF CloseTruck
<1>2. /\ Fillable(truck) /\ FitsTheKind(truck)
      /\ \A k \in DOMAIN built : Fillable(built[k]) /\ FitsTheKind(built[k])
  BY <1>1 DEF RoutesFit
<1>3. \A k \in DOMAIN built' : built'[k] = truck \/ \E l \in DOMAIN built : built'[k] = built[l]
  <2>1. CASE built' = built
    BY <2>1
  <2>2. CASE built' = Append(built, truck)
    <3>1. /\ Len(built) \in Nat /\ DOMAIN built = 1..Len(built)
          /\ DOMAIN built' = 1..(Len(built) + 1)
          /\ \A k \in 1..Len(built) : built'[k] = built[k]
          /\ built'[Len(built) + 1] = truck
      BY <2>2, AppendToFleet DEF IInv, TypeOK
    <3>2. QED
      BY <3>1
  <2>3. QED
    BY <1>1, <2>1, <2>2
<1>4. \A k \in DOMAIN built' : Fillable(built'[k]) /\ FitsTheKind(built'[k])
  BY <1>2, <1>3
<1>5. \A k \in DOMAIN built' : Fillable(built'[k]) /\ FitsTheKind(built[k])'
  BY <1>1, <1>4 DEF FitsTheKind
<1>6. QED
  BY <1>1, <1>5 DEF RoutesFit

\* The routes fit their kind after every step.
LEMMA RoutesFitInductive == IInv /\ RoutesFit /\ [Next]_vars => RoutesFit'
<1> SUFFICES ASSUME IInv, RoutesFit, [Next]_vars PROVE RoutesFit'
  OBVIOUS
<1>1. CASE GetTruck
  BY <1>1, GetTruckFits
<1>2. CASE OfferOrder
  BY <1>2, OfferOrderFits
<1>3. CASE CloseTruck
  BY <1>3, CloseTruckFits
<1>4. CASE GetTruckThrows \/ Finish \/ UNCHANGED vars
  <2>1. /\ kind' = kind /\ built' = built /\ truck' = truck
        /\ current_feasible' = current_feasible
        /\ building' \in {"failed", "done"} \/ building' = building
    BY <1>4 DEF GetTruckThrows, Finish, vars, fleetVars
  <2>2. \A k \in DOMAIN built' : Fillable(built'[k]) /\ FitsTheKind(built[k])'
    BY <2>1 DEF RoutesFit, FitsTheKind
  <2>3. building' = "inner" => Fillable(truck)' /\ FitsTheKind(truck)' /\ OffersFit'
    BY <2>1 DEF RoutesFit, FitsTheKind, Fillable, OffersFit
  <2>4. QED
    BY <2>2, <2>3 DEF RoutesFit
<1>5. QED
  BY <1>1, <1>2, <1>3, <1>4 DEF Next

\* There is no route at the start.
LEMMA InitFits == Init => RoutesFit
<1>1. SUFFICES ASSUME Init
               PROVE  RoutesFit
  OBVIOUS
<1>2. DOMAIN built = {} /\ building = "outer"
  BY <1>1 DEF Init
<1>3. QED
  BY <1>2 DEF RoutesFit

\* What the invariant says of the routes is what the run checks.
LEMMA FitIsWhatIsPromised == IInv /\ RoutesFit => RoutesFitTheKind
<1>1. SUFFICES ASSUME IInv, RoutesFit
               PROVE  RoutesFitTheKind
  OBVIOUS
<1>2. \A k \in DOMAIN Routes : FitsTheKind(Routes[k])
  <2>1. CASE building = "inner"
    <3>1. /\ Len(built) \in Nat /\ DOMAIN built = 1..Len(built)
          /\ DOMAIN Routes = 1..(Len(built) + 1)
          /\ \A k \in DOMAIN built : Routes[k] = built[k]
          /\ Routes[Len(built) + 1] = truck
      BY <1>1, <2>1, RoutesInner DEF IInv
    <3>2. FitsTheKind(truck) /\ \A k \in DOMAIN built : FitsTheKind(built[k])
      BY <1>1, <2>1 DEF RoutesFit
    <3>3. \A k \in DOMAIN Routes : k \in DOMAIN built \/ k = Len(built) + 1
      BY <3>1
    <3>4. QED
      BY <3>1, <3>2, <3>3
  <2>2. CASE building # "inner"
    BY <1>1, <2>2 DEF RoutesFit, Routes
  <2>3. QED
    BY <2>1, <2>2
<1>3. SearchesAreFeasible
  BY <1>2 DEF FitsTheKind, SearchesAreFeasible
<1>4. PicksThenDrops
  BY <1>2 DEF FitsTheKind, PicksFirst, PicksThenDrops
<1>5. RoutesAreCompatible
  BY <1>1, <1>2 DEF FitsTheKind, RoutesFit, OffersFit, RoutesAreCompatible
<1>6. QED
  BY <1>3, <1>4, <1>5 DEF RoutesFitTheKind

\* The routes are what the kind of construction promises: feasible, although no
\* assertion looks at the vehicle that is filled, with the pickups first, or of
\* orders that are compatible two by two.
THEOREM RoutesFitTheirKind == Spec => []RoutesFitTheKind
  BY InitEstablishes, IInvInductive, InitFits, RoutesFitInductive, FitIsWhatIsPromised, PTL
    DEF Spec


-----------------------------------------------------------------------------

(***************************************************************************)
(* A vehicle that suits the order it was taken for does not stay empty,    *)
(* when travel times are ordinary.                                         *)
(***************************************************************************)

\* As long as the vehicle is empty it is as it was taken, and the order it was
\* taken for is still to be offered to it.
FirstIsOffered ==
  building = "inner" /\ truck.orders = {} =>
    /\ truck = NewTruck(truck.idx)
    /\ Min(unassigned) \in feasible_orders[truck.idx] => Min(unassigned) \in current_feasible

\* Every way to place an order puts it on an empty vehicle that can serve it on
\* its own.
LEMMA PlaceTakes ==
  ASSUME OrdinaryTimes, NEW v \in Truck, NEW o \in feasible_orders[v],
         NEW t, t = NewTruck(v)
  PROVE  o \in Place(t, o).orders
<1>1. o \in Order /\ is_order_feasible(v, o)
  BY DEF feasible_orders
<1>2. o \in hillClimb(t, o).orders /\ o \in semiLIFO(t, o).orders
  BY <1>1, EmptyVehicleTakes DEF has_order
<1>3. o \in push_back(t, o).orders /\ o \in push_front(t, o).orders
  BY DEF push_back, push_front, NewTruck
<1>4. QED
  BY <1>2, <1>3 DEF Place

\* A vehicle is taken empty, and is offered the order it was taken for if it
\* can serve it.
LEMMA GetTruckOffersFirst ==
  ASSUME IInv, GetTruck
  PROVE  FirstIsOffered'
<1>1. PICK v \in trucks : truck' = NewTruck(v) /\ current_feasible' = Offers(v)
  BY DEF GetTruck
<1>2. unassigned' = unassigned /\ unassigned # {}
  BY DEF GetTruck
<1>3. Min(unassigned) \in unassigned
  <2>1. unassigned \in SUBSET Nat
    BY DataAssumption DEF IInv, TypeOK
  <2>2. QED
    BY <1>2, <2>1, MinIsMember
<1>4. truck'.idx = v
  BY <1>1 DEF NewTruck
<1>5. QED
  BY <1>1, <1>2, <1>3, <1>4 DEF FirstIsOffered, Offers

\* The order is not dropped: an empty vehicle takes it.
LEMMA OfferOrderOffersFirst ==
  ASSUME OrdinaryTimes, IInv, RoutesFit, FirstIsOffered, OfferOrder
  PROVE  FirstIsOffered'
<1> DEFINE o == NextOrder
           m == Min(unassigned)
           v == truck.idx
<1>1. /\ building = "inner" /\ building' = "inner" /\ current_feasible # {}
      /\ truck' = Place(truck, o)
      /\ current_feasible' = Remaining(o, o \in truck'.orders)
      /\ o \in truck'.orders \/ unassigned' = unassigned
  BY DEF OfferOrder, has_order
<1>2. current_feasible \in SUBSET unassigned /\ current_feasible \in SUBSET Order
  BY <1>1 DEF IInv, OffersAreUnassigned, TypeOK
<1>3. o \in current_feasible
  BY <1>1, <1>2, BestIsMember, MinIsMember, DataAssumption DEF NextOrder
<1> HIDE DEF o
<1>4. SUFFICES ASSUME truck'.orders = {}
               PROVE  /\ truck' = NewTruck(truck'.idx)
                      /\ Min(unassigned') \in feasible_orders[truck'.idx]
                           => Min(unassigned') \in current_feasible'
  BY DEF FirstIsOffered
<1>5. o \notin truck.orders
  <2>1. IsVehicle(truck)
    BY DEF IInv, TypeOK, VehicleShape, IsVehicle
  <2>2. truck'.orders \in {truck.orders, truck.orders \cup {o}}
    BY <1>1, <2>1, PlaceOffers DEF Offered
  <2>3. QED
    BY <1>4, <2>2
<1>6. truck' = truck
  <2>1. Fillable(truck) /\ o \in Order
    BY <1>1, <1>2, <1>3 DEF RoutesFit
  <2>2. truck' = truck \/ Placed(truck, o, truck')
    BY <1>1, <1>5, <2>1, PlaceFills
  <2>3. ~Placed(truck, o, truck')
    BY <1>4 DEF Placed
  <2>4. QED
    BY <2>2, <2>3
<1>7. /\ truck = NewTruck(v) /\ v \in Truck
      /\ m \in feasible_orders[v] => m \in current_feasible
  <2>1. truck.orders = {}
    BY <1>4, <1>6
  <2>2. v \in Truck
    BY DEF IInv, TypeOK, VehicleShape
  <2>3. QED
    BY <1>1, <2>1, <2>2 DEF FirstIsOffered
<1>8. o \notin feasible_orders[v]
  <2>1. ASSUME o \in feasible_orders[v]
        PROVE  FALSE
    <3>1. o \in Place(truck, o).orders
      <4> HIDE DEF v
      <4>1. QED
        BY <1>7, <2>1, PlaceTakes
    <3>2. QED
      BY <1>1, <1>4, <3>1
  <2>2. QED
    BY <2>1
<1>9. current_feasible' = current_feasible \ {o} /\ unassigned' = unassigned
  BY <1>1, <1>4 DEF Remaining
<1>10. QED
  BY <1>6, <1>7, <1>8, <1>9

\* The order a vehicle was taken for is offered to it until it takes one.
LEMMA FirstIsOfferedInductive ==
  ASSUME OrdinaryTimes
  PROVE  IInv /\ RoutesFit /\ FirstIsOffered /\ [Next]_vars => FirstIsOffered'
<1> SUFFICES ASSUME IInv, RoutesFit, FirstIsOffered, [Next]_vars PROVE FirstIsOffered'
  OBVIOUS
<1>1. CASE GetTruck
  BY <1>1, GetTruckOffersFirst
<1>2. CASE OfferOrder
  BY <1>2, OfferOrderOffersFirst
<1>3. CASE CloseTruck \/ GetTruckThrows \/ Finish
  <2>1. building' # "inner"
    BY <1>3 DEF CloseTruck, GetTruckThrows, Finish
  <2>2. QED
    BY <2>1 DEF FirstIsOffered
<1>4. CASE UNCHANGED vars
  BY <1>4 DEF vars, FirstIsOffered
<1>5. QED
  BY <1>1, <1>2, <1>3, <1>4 DEF Next

\* The assertion of do_while_foo that the loop makes progress does not fail with
\* a vehicle that suits the order it was taken for, when travel times are
\* ordinary: whatever the kind offers first, the order comes up as long as the
\* vehicle is empty, and an empty vehicle takes it.
THEOREM SuitableVehiclesTakeOrders ==
  ASSUME OrdinaryTimes
  PROVE  Spec => []SuitableVehicleTakesAnOrder
<1>1. Init => FirstIsOffered
  BY DEF Init, FirstIsOffered
<1>2. FirstIsOffered => SuitableVehicleTakesAnOrder
  BY DEF FirstIsOffered, SuitableVehicleTakesAnOrder
<1>3. QED
  BY <1>1, <1>2, InitEstablishes, IInvInductive, InitFits, RoutesFitInductive,
     FirstIsOfferedInductive, PTL DEF Spec

-----------------------------------------------------------------------------

(***************************************************************************)
(* What the optimizer does to one vehicle.                                 *)
(***************************************************************************)

\* u is the vehicle t after orders came and went: with ordinary travel times it
\* violates no more.
Becomes(t, u) == u.idx = t.idx /\ (OrdinaryTimes => ViolatesNoMore(t, u))

\* A vehicle that nothing happens to becomes itself.
LEMMA BecomesItself ==
  ASSUME NEW t, Fillable(t)
  PROVE  Becomes(t, t)
<1>1. twvTot(t) \in Nat /\ cvTot(t) \in Nat
  BY IntactTravels, VehicleFigures DEF Fillable
<1>2. QED
  BY <1>1 DEF Becomes, ViolatesNoMore

\* What becomes of a vehicle, and then of that.
LEMMA BecomesThen ==
  ASSUME NEW t, NEW u, NEW w, Becomes(t, u), Becomes(u, w)
  PROVE  Becomes(t, w)
<1>1. ASSUME OrdinaryTimes
      PROVE  ViolatesNoMore(t, w)
  <2>1. ViolatesNoMore(t, u) /\ ViolatesNoMore(u, w)
    BY <1>1 DEF Becomes
  <2> DEFINE a == twvTot(t)
             b == twvTot(u)
             c == twvTot(w)
             k == cvTot(t)
             l == cvTot(u)
             m == cvTot(w)
  <2>2. /\ a \in Nat /\ b \in Nat /\ c \in Nat /\ b <= a /\ c <= b
        /\ k \in Nat /\ l \in Nat /\ m \in Nat /\ l <= k /\ m <= l
    BY <2>1 DEF ViolatesNoMore
  <2> HIDE DEF a, b, c, k, l, m
  <2>3. c <= a /\ m <= k
    BY <2>2
  <2>4. QED
    BY <2>2, <2>3 DEF ViolatesNoMore, a, c, k, m
<1>2. QED
  BY <1>1 DEF Becomes

\* A vehicle that is offered an order takes it, and is feasible then, or is as
\* it was.
LEMMA InsertingIs ==
  ASSUME NEW t, Fillable(t), NEW o \in Order, o \notin t.orders,
         NEW u, u = hillClimb(t, o) \/ u = semiLIFO(t, o)
  PROVE  /\ Fillable(u) /\ Becomes(t, u)
         /\ u.orders = IF has_order(u, o) THEN t.orders \cup {o} ELSE t.orders
<1>1. Intact(t) /\ t.user_twv = 0 /\ t.user_cv = 0 /\ OffPath(t, o)
  BY DEF Fillable
<1>2. CASE u = t
  BY <1>2, BecomesItself DEF has_order
<1>3. CASE u # t
  <2>1. Took(t, o, u) /\ is_feasible(u)
    <3>1. CASE u = hillClimb(t, o)
      BY <1>1, <1>3, <3>1, HillClimbTakes, HillClimbIs
    <3>2. CASE u = semiLIFO(t, o)
      BY <1>1, <1>3, <3>2, SemiLIFOTakes, SemiLIFOIs
    <3>3. QED
      BY <3>1, <3>2
  <2>2. Fillable(u) /\ u.orders = t.orders \cup {o} /\ u.idx = t.idx
    BY <2>1, TookFills DEF Took, SameVehicle
  <2>3. /\ twvTot(t) \in Nat /\ cvTot(t) \in Nat /\ twvTot(u) \in Nat /\ cvTot(u) \in Nat
    BY <1>1, <2>2, IntactTravels, VehicleFigures DEF Fillable
  <2>4. twvTot(u) <= 0 /\ cvTot(u) <= 0
    BY <2>1, <2>2 DEF is_feasible, Fillable
  <2>5. ViolatesNoMore(t, u)
    BY <2>3, <2>4 DEF ViolatesNoMore
  <2>6. QED
    BY <2>2, <2>5 DEF Becomes, has_order
<1>4. QED
  BY <1>2, <1>3

\* A vehicle that loses an order can be filled as before.
LEMMA ErasingIs ==
  ASSUME NEW t, Fillable(t), NEW o \in t.orders, NEW u, u = erase(t, o)
  PROVE  Fillable(u) /\ Becomes(t, u) /\ u.orders = t.orders \ {o}
<1>1. /\ Intact(t) /\ o \in Order /\ Delivery(o) \in Nodes(t.path)
      /\ t.user_twv = 0 /\ t.user_cv = 0
  BY VehicleFacts DEF Fillable, Intact
<1>2. /\ Intact(u) /\ SameVehicle(t, u) /\ u.orders = t.orders \ {o}
      /\ Nodes(u.path) = Nodes(t.path) \ {Pickup(o), Delivery(o)}
  BY <1>1, EraseIntact
<1>3. ASSUME NEW a \in Order \ u.orders
      PROVE  OffPath(u, a)
  <2>1. CASE a = o
    BY <1>2, <2>1 DEF OffPath
  <2>2. CASE a # o
    <3>1. OffPath(t, a)
      BY <1>2, <2>2 DEF Fillable
    <3>2. QED
      BY <1>2, <3>1 DEF OffPath
  <2>3. QED
    BY <2>1, <2>2
<1>4. Becomes(t, u)
  <2>1. Balanced(t)
    BY <1>1, IntactBalanced
  <2>2. OrdinaryTimes => ViolatesNoMore(t, u)
    BY <1>1, <2>1, ErasingAddsNothing
  <2>3. QED
    BY <1>1, <1>2, <2>2 DEF Becomes, SameVehicle
<1>5. QED
  BY <1>1, <1>2, <1>3, <1>4 DEF Fillable, SameVehicle

(***************************************************************************)
(* What the optimizer does to a fleet.                                     *)
(***************************************************************************)

\* The vehicles share out all orders of the problem.
Shared(fleet) ==
  /\ fleet \in Seq(VehicleType)
  /\ \A k \in 1..Len(fleet) : Fillable(fleet[k]) /\ fleet[k].idx \in trucks
  /\ OrdersApart(fleet)
  /\ OrdersOn(fleet) = all_orders

\* Every vehicle of g is one of the fleet, or what became of it.
Descends(fleet, g) ==
  \E p \in [1..Len(g) -> 1..Len(fleet)] :
    /\ \A j, k \in 1..Len(g) : p[j] = p[k] => j = k
    /\ \A k \in 1..Len(g) : Becomes(fleet[p[k]], g[k])

\* The vehicles of g are those of the fleet, position by position, or what
\* became of them.
Continues(fleet, g) ==
  Len(g) = Len(fleet) /\ \A k \in 1..Len(fleet) : Becomes(fleet[k], g[k])

\* A fleet that continues another one descends from it.
LEMMA ContinuingDescends ==
  ASSUME NEW fleet \in Seq(VehicleType), NEW g, Continues(fleet, g)
  PROVE  Descends(fleet, g)
<1> DEFINE p == [k \in 1..Len(g) |-> k]
<1>1. p \in [1..Len(g) -> 1..Len(fleet)]
  BY DEF Continues
<1>2. \A k \in 1..Len(g) : Becomes(fleet[p[k]], g[k])
  BY DEF Continues
<1>3. \A j, k \in 1..Len(g) : p[j] = p[k] => j = k
  OBVIOUS
<1> HIDE DEF p
<1>4. QED
  BY <1>1, <1>2, <1>3 DEF Descends

\* Continuing and descending go on.
LEMMA ContinuesThen ==
  ASSUME NEW fleet, NEW g, NEW h, Continues(fleet, g), Continues(g, h)
  PROVE  Continues(fleet, h)
  BY BecomesThen DEF Continues

\* The vehicles of a descendant's descendant are the fleet's as well.
LEMMA DescendsThen ==
  ASSUME NEW fleet, NEW g, NEW h, Descends(fleet, g), Descends(g, h)
  PROVE  Descends(fleet, h)
<1>1. PICK p \in [1..Len(g) -> 1..Len(fleet)] :
        /\ \A j, k \in 1..Len(g) : p[j] = p[k] => j = k
        /\ \A k \in 1..Len(g) : Becomes(fleet[p[k]], g[k])
  BY DEF Descends
<1>2. PICK q \in [1..Len(h) -> 1..Len(g)] :
        /\ \A j, k \in 1..Len(h) : q[j] = q[k] => j = k
        /\ \A k \in 1..Len(h) : Becomes(g[q[k]], h[k])
  BY DEF Descends
<1> DEFINE r == [k \in 1..Len(h) |-> p[q[k]]]
<1>3. \A k \in 1..Len(h) : q[k] \in 1..Len(g)
  BY <1>2
<1>4. r \in [1..Len(h) -> 1..Len(fleet)]
  BY <1>1, <1>3
<1>5. \A j, k \in 1..Len(h) : r[j] = r[k] => j = k
  BY <1>1, <1>2, <1>3
<1>6. \A k \in 1..Len(h) : Becomes(fleet[r[k]], h[k])
  BY <1>1, <1>2, <1>3, BecomesThen
<1> HIDE DEF r
<1>7. QED
  BY <1>4, <1>5, <1>6 DEF Descends

\* A selection that leaves out vehicles without orders shares them out as well.
LEMMA SelectionShared ==
  ASSUME NEW fleet, Shared(fleet), NEW S \in SUBSET (1..Len(fleet)), NEW g,
         Selects(fleet, g, S), \A k \in (1..Len(fleet)) \ S : fleet[k].orders = {}
  PROVE  Shared(g) /\ Descends(fleet, g)
<1>1. PICK p \in [1..Len(g) -> S] :
        /\ \A j, k \in 1..Len(g) : p[j] = p[k] => j = k
        /\ \A l \in S : \E k \in 1..Len(g) : p[k] = l
        /\ \A k \in 1..Len(g) : g[k] = fleet[p[k]]
  BY DEF Selects
<1>2. /\ fleet \in Seq(VehicleType) /\ OrdersApart(fleet) /\ OrdersOn(fleet) = all_orders
      /\ \A k \in 1..Len(fleet) : Fillable(fleet[k]) /\ fleet[k].idx \in trucks
      /\ g \in Seq(VehicleType)
  BY DEF Shared, Selects
<1>3. \A k \in 1..Len(g) : p[k] \in S /\ p[k] \in 1..Len(fleet)
  BY <1>1
<1>4. OrdersApart(g)
  BY <1>2, SelectionApart
<1>5. OrdersOn(g) = all_orders
  <2>1. ASSUME NEW o
        PROVE  o \in OrdersOn(g) <=> o \in OrdersOn(fleet)
    <3>1. o \in OrdersOn(g) <=> \E k \in 1..Len(g) : o \in g[k].orders
      BY <1>2, OrdersByPosition
    <3>2. o \in OrdersOn(fleet) <=> \E k \in 1..Len(fleet) : o \in fleet[k].orders
      BY <1>2, OrdersByPosition
    <3>3. \A l \in 1..Len(fleet) : o \in fleet[l].orders => l \in S
      OBVIOUS
    <3>4. ASSUME NEW k \in 1..Len(g), o \in g[k].orders
          PROVE  \E l \in 1..Len(fleet) : o \in fleet[l].orders
      BY <1>1, <1>3, <3>4
    <3>5. ASSUME NEW l \in 1..Len(fleet), o \in fleet[l].orders
          PROVE  \E k \in 1..Len(g) : o \in g[k].orders
      <4>1. PICK k \in 1..Len(g) : p[k] = l
        BY <1>1, <3>3, <3>5
      <4>2. QED
        BY <1>1, <3>5, <4>1
    <3>6. QED
      BY <3>1, <3>2, <3>4, <3>5
  <2>2. QED
    BY <1>2, <2>1
<1>6. \A k \in 1..Len(g) : Fillable(g[k]) /\ g[k].idx \in trucks
  BY <1>1, <1>2, <1>3
<1>7. Descends(fleet, g)
  <2>1. \A k \in 1..Len(g) : Becomes(fleet[p[k]], g[k])
    BY <1>1, <1>2, <1>3, BecomesItself
  <2>2. p \in [1..Len(g) -> 1..Len(fleet)]
    BY <1>1
  <2>3. QED
    BY <1>1, <2>1, <2>2 DEF Descends
<1>8. QED
  BY <1>2, <1>4, <1>5, <1>6, <1>7 DEF Shared

\* Two vehicles that together keep their orders.
LEMMA ReplacedShared ==
  ASSUME NEW fleet, Shared(fleet), NEW a \in 1..Len(fleet), NEW b \in 1..Len(fleet), a # b,
         NEW x, NEW y, Fillable(x), Fillable(y), Becomes(fleet[a], x), Becomes(fleet[b], y),
         x.orders \cap y.orders = {},
         x.orders \cup y.orders = fleet[a].orders \cup fleet[b].orders,
         NEW g, Replaced(fleet, g, a, b, x, y)
  PROVE  Shared(g) /\ Continues(fleet, g)
<1>1. /\ g \in Seq(VehicleType) /\ Len(g) = Len(fleet) /\ g[a] = x /\ g[b] = y
      /\ \A k \in 1..Len(fleet) : k # a /\ k # b => g[k] = fleet[k]
  BY DEF Replaced
<1>2. /\ fleet \in Seq(VehicleType) /\ OrdersApart(fleet) /\ OrdersOn(fleet) = all_orders
      /\ \A k \in 1..Len(fleet) : Fillable(fleet[k]) /\ fleet[k].idx \in trucks
  BY DEF Shared
<1>3. \A k \in 1..Len(fleet) : Becomes(fleet[k], g[k])
  BY <1>1, <1>2, BecomesItself
<1>4. \A k \in 1..Len(g) : Fillable(g[k]) /\ g[k].idx \in trucks
  BY <1>1, <1>2, <1>3 DEF Becomes
<1>5. \A j, k \in 1..Len(fleet) : j # k => fleet[j].orders \cap fleet[k].orders = {}
  BY <1>2, OrdersByPosition
<1>6. OrdersApart(g)
  <2>1. ASSUME NEW j \in 1..Len(g), NEW k \in 1..Len(g), j # k
        PROVE  g[j].orders \cap g[k].orders = {}
    <3>1. CASE {j, k} = {a, b}
      BY <1>1, <2>1, <3>1
    <3>2. CASE j \in {a, b} /\ k \notin {a, b}
      <4>1. g[k] = fleet[k] /\ g[j].orders \subseteq fleet[a].orders \cup fleet[b].orders
        BY <1>1, <3>2
      <4>2. QED
        BY <1>1, <1>5, <3>2, <4>1
    <3>3. CASE j \notin {a, b} /\ k \in {a, b}
      <4>1. g[j] = fleet[j] /\ g[k].orders \subseteq fleet[a].orders \cup fleet[b].orders
        BY <1>1, <3>3
      <4>2. QED
        BY <1>1, <1>5, <3>3, <4>1
    <3>4. CASE j \notin {a, b} /\ k \notin {a, b}
      BY <1>1, <1>5, <2>1, <3>4
    <3>5. QED
      BY <2>1, <3>1, <3>2, <3>3, <3>4
  <2>2. QED
    BY <1>1, <2>1, OrdersByPosition
<1>7. OrdersOn(g) = all_orders
  <2>1. ASSUME NEW o
        PROVE  o \in OrdersOn(g) <=> o \in OrdersOn(fleet)
    <3>1. o \in OrdersOn(g) <=> \E k \in 1..Len(fleet) : o \in g[k].orders
      BY <1>1, OrdersByPosition
    <3>2. o \in OrdersOn(fleet) <=> \E k \in 1..Len(fleet) : o \in fleet[k].orders
      BY <1>2, OrdersByPosition
    <3>3. /\ o \in g[a].orders \/ o \in g[b].orders
               <=> o \in fleet[a].orders \/ o \in fleet[b].orders
          /\ \A k \in 1..Len(fleet) : k \notin {a, b} => g[k] = fleet[k]
      BY <1>1
    <3>4. QED
      BY <3>1, <3>2, <3>3
  <2>2. QED
    BY <1>2, <2>1
<1>8. QED
  BY <1>1, <1>3, <1>4, <1>6, <1>7 DEF Shared, Continues

\* The vehicles of such a fleet travel.
LEMMA SharedTravels ==
  ASSUME NEW fleet, Shared(fleet)
  PROVE  Travelling(fleet)
  BY IntactTravels DEF Shared, Travelling, Fillable

\* A fleet does not get longer.
LEMMA DescendantIsNoLonger ==
  ASSUME NEW fleet \in Seq(VehicleType), NEW g \in Seq(VehicleType), Descends(fleet, g)
  PROVE  Len(g) <= Len(fleet)
<1>1. PICK p \in [1..Len(g) -> 1..Len(fleet)] : \A j, k \in 1..Len(g) : p[j] = p[k] => j = k
  BY DEF Descends
<1>2. Len(g) \in Nat /\ Len(fleet) \in Nat
  OBVIOUS
<1>3. \A n \in Nat : IsFiniteSet(1..n) /\ Cardinality(1..n) = n
  <2>1. ASSUME NEW n \in Nat
        PROVE  IsFiniteSet(1..n) /\ Cardinality(1..n) = n
    <3>1. 1 \in Int /\ n \in Int
      OBVIOUS
    <3>2. IsFiniteSet(1..n) /\ Cardinality(1..n) = IF 1 > n THEN 0 ELSE n - 1 + 1
      BY <3>1, FS_Interval
    <3>3. QED
      BY <3>2
  <2>2. QED
    BY <2>1
<1>4. p \in Injection(1..Len(g), 1..Len(fleet))
  BY <1>1 DEF Injection, IsInjective
<1>5. Cardinality(1..Len(g)) <= Cardinality(1..Len(fleet))
  BY <1>2, <1>3, <1>4, FS_Injection
<1>6. QED
  BY <1>2, <1>3, <1>5

\* Sorting.
LEMMA BySizeIs ==
  ASSUME NEW fleet, Shared(fleet), NEW g \in BySize(fleet)
  PROVE  /\ Shared(g) /\ Descends(fleet, g) /\ Len(g) = Len(fleet)
         /\ FleetDuration(g) = FleetDuration(fleet)
<1>1. fleet \in Seq(VehicleType)
  BY DEF Shared
<1>2. Len(g) = Len(fleet) /\ Selects(fleet, g, 1..Len(fleet))
  BY <1>1, ArrangedIs DEF BySize, Sortings
<1>3. QED
  BY <1>2, SelectionShared, SharedTravels, SameDuration

\* Deleting the vehicles without orders.
LEMMA DeletedIs ==
  ASSUME NEW fleet, Shared(fleet), NEW g, g = delete_empty_truck(fleet)
  PROVE  Shared(g) /\ Descends(fleet, g) /\ Len(g) <= Len(fleet)
<1> DEFINE S == {k \in 1..Len(fleet) : fleet[k].orders # {}}
<1>1. fleet \in Seq(VehicleType) /\ DOMAIN fleet = 1..Len(fleet)
  BY DEF Shared
<1>2. g = VehiclesAt(fleet, S)
  BY <1>1 DEF delete_empty_truck, Kept
<1>3. S \in SUBSET (1..Len(fleet)) /\ \A k \in (1..Len(fleet)) \ S : fleet[k].orders = {}
  OBVIOUS
<1> HIDE DEF S
<1>4. Selects(fleet, g, S)
  BY <1>1, <1>2, <1>3, VehiclesAtAre
<1>5. Shared(g) /\ Descends(fleet, g)
  BY <1>3, <1>4, SelectionShared
<1>6. QED
  BY <1>1, <1>5, DescendantIsNoLonger DEF Shared

\* The first vehicle becomes the last one.
LEMMA RotatedIs ==
  ASSUME NEW fleet, Shared(fleet), all_orders # {}, NEW g, g = Rotated(fleet)
  PROVE  Shared(g) /\ Descends(fleet, g) /\ Len(g) = Len(fleet)
<1> DEFINE n == Len(fleet)
           p == [k \in 1..n |-> IF k < n THEN k + 1 ELSE 1]
<1>1. fleet \in Seq(VehicleType) /\ n \in Nat
  BY DEF Shared
<1>2. n > 0
  <2>1. OrdersOn(fleet) # {}
    BY DEF Shared
  <2>2. \E k \in 1..n : fleet[k].orders # {}
    BY <1>1, <2>1, OrdersByPosition
  <2>3. QED
    BY <1>1, <2>2
<1>3. /\ g \in Seq(VehicleType) /\ Len(g) = n
      /\ \A k \in 1..n : g[k] = IF k < n THEN fleet[k + 1] ELSE fleet[1]
  <2> DEFINE rest == Tail(fleet)
             last == <<Head(fleet)>>
  <2>1. /\ rest \in Seq(VehicleType) /\ Len(rest) = n - 1
        /\ \A k \in 1..(n - 1) : rest[k] = fleet[k + 1]
    BY <1>1, <1>2
  <2>2. last \in Seq(VehicleType) /\ Len(last) = 1 /\ last[1] = fleet[1]
    BY <1>1, <1>2
  <2>3. g = rest \o last
    BY DEF Rotated
  <2> HIDE DEF rest, last, n
  <2>4. /\ g \in Seq(VehicleType) /\ Len(g) = Len(rest) + Len(last)
        /\ \A j \in 1..Len(rest) : g[j] = rest[j]
        /\ \A j \in 1..Len(last) : g[Len(rest) + j] = last[j]
    <3> DEFINE S == VehicleType
    <3>1. rest \in Seq(S) /\ last \in Seq(S)
      BY <2>1, <2>2
    <3> HIDE DEF S
    <3>2. /\ g \in Seq(S) /\ Len(g) = Len(rest) + Len(last)
          /\ \A j \in 1..Len(rest) : g[j] = rest[j]
          /\ \A j \in 1..Len(last) : g[Len(rest) + j] = last[j]
      BY <2>3, <3>1, ConcatIs
    <3>3. QED
      BY <3>2 DEF S
  <2>5. Len(g) = n /\ g[n] = fleet[1]
    <3>1. 1 \in 1..Len(last) /\ Len(rest) + 1 = n /\ Len(rest) + Len(last) = n
      BY <1>1, <2>1, <2>2
    <3>2. QED
      BY <2>2, <2>4, <3>1
  <2>6. \A k \in 1..n : k < n => g[k] = fleet[k + 1]
    BY <1>1, <2>1, <2>4
  <2>7. \A k \in 1..n : k < n \/ k = n
    BY <1>1
  <2>8. QED
    BY <1>1, <2>4, <2>5, <2>6, <2>7
<1>4. /\ p \in [1..n -> 1..n]
      /\ \A k \in 1..n : p[k] = IF k < n THEN k + 1 ELSE 1
  BY <1>1, <1>2
<1> HIDE DEF p
<1>5. \A j, k \in 1..n : p[j] = p[k] => j = k
  BY <1>1, <1>2, <1>4
<1>6. \A l \in 1..n : \E k \in 1..n : p[k] = l
  <2>1. ASSUME NEW l \in 1..n
        PROVE  \E k \in 1..n : p[k] = l
    <3>1. CASE l = 1
      BY <1>1, <1>2, <1>4, <3>1
    <3>2. CASE l # 1
      <4>1. l - 1 \in 1..n /\ l - 1 < n /\ (l - 1) + 1 = l
        BY <1>1, <3>2
      <4>2. p[l - 1] = l
        BY <1>4, <4>1
      <4>3. QED
        BY <4>1, <4>2
    <3>3. QED
      BY <3>1, <3>2
  <2>2. QED
    BY <2>1
<1>7. \A k \in 1..n : g[k] = fleet[p[k]]
  BY <1>3, <1>4
<1>8. Selects(fleet, g, 1..n)
  <2> HIDE DEF n
  <2> DEFINE S == 1..n
  <2>1. /\ g \in Seq(VehicleType) /\ p \in [1..Len(g) -> S]
        /\ \A j, k \in 1..Len(g) : p[j] = p[k] => j = k
        /\ \A l \in S : \E k \in 1..Len(g) : p[k] = l
        /\ \A k \in 1..Len(g) : g[k] = fleet[p[k]]
    BY <1>3, <1>4, <1>5, <1>6, <1>7
  <2> HIDE DEF S
  <2>2. Selects(fleet, g, S)
    BY <2>1 DEF Selects
  <2>3. QED
    BY <2>2 DEF S
<1>9. QED
  BY <1>3, <1>8, SelectionShared

\* The order in which a loop visits some orders: none of them twice.
LEMMA OrdersVisited ==
  ASSUME NEW orders \in SUBSET Order, NEW seq, seq = InOrder({<<o>> : o \in orders})
  PROVE  /\ Len(seq) \in Nat
         /\ \A k \in 1..Len(seq) : seq[k][1] \in orders
         /\ \A j, k \in 1..Len(seq) : seq[j][1] = seq[k][1] => j = k
<1> DEFINE tuples == {<<o>> : o \in orders}
           f == [o \in orders |-> <<o>>]
<1>1. orders \in SUBSET Nat /\ IsFiniteSet(orders)
  BY DataAssumption, FS_Subset
<1>2. \A a \in tuples : a[1] \in orders /\ a = <<a[1]>>
  OBVIOUS
<1>3. tuples \in SUBSET [1..1 -> Nat]
  <2>1. ASSUME NEW a \in tuples
        PROVE  a \in [1..1 -> Nat]
    <3>1. PICK o \in orders : a = <<o>>
      OBVIOUS
    <3>2. <<o>> \in Seq(Nat) /\ Len(<<o>>) = 1
      BY <1>1
    <3>3. QED
      BY <3>1, <3>2
  <2>2. QED
    BY <2>1
<1>4. IsFiniteSet(tuples)
  <2>1. f \in Surjection(orders, tuples)
    BY DEF Surjection
  <2> HIDE DEF f, tuples
  <2>2. QED
    BY <1>1, <2>1, FS_Surjection
<1> HIDE DEF tuples
<1>5. Visits(seq, tuples, Cardinality(tuples))
  <2>1. seq = InOrder(tuples)
    BY DEF tuples
  <2>2. QED
    BY <1>3, <1>4, <2>1, InOrderIs
<1>6. seq \in Seq(tuples) /\ \A h, j \in 1..Len(seq) : seq[h] = seq[j] => h = j
  BY <1>5 DEF Visits
<1>7. \A k \in 1..Len(seq) : seq[k] \in tuples
  BY <1>6
<1>8. \A a \in tuples : a[1] \in orders /\ a = <<a[1]>>
  BY <1>2 DEF tuples
<1>9. \A j, k \in 1..Len(seq) : seq[j][1] = seq[k][1] => seq[j] = seq[k]
  BY <1>7, <1>8
<1>10. Len(seq) \in Nat
  BY <1>6
<1>11. \A k \in 1..Len(seq) : seq[k][1] \in orders
  BY <1>7, <1>8
<1>12. ASSUME NEW j \in 1..Len(seq), NEW k \in 1..Len(seq), seq[j][1] = seq[k][1]
       PROVE  j = k
  <2>1. seq[j] = seq[k]
    BY <1>9, <1>12
  <2>2. QED
    BY <1>6, <2>1
<1>13. QED
  BY <1>10, <1>11, <1>12


\* Two vehicles of a fleet are replaced.
LEMMA PairReplaced ==
  ASSUME NEW fleet \in Seq(VehicleType), NEW a \in 1..Len(fleet), NEW b \in 1..Len(fleet), a # b,
         NEW x \in VehicleType, NEW y \in VehicleType,
         NEW g, g = [fleet EXCEPT ![a] = x, ![b] = y]
  PROVE  Replaced(fleet, g, a, b, x, y)
<1> DEFINE S == VehicleType
<1>1. fleet \in Seq(S) /\ x \in S /\ y \in S
  OBVIOUS
<1> HIDE DEF S
<1>2. /\ g \in Seq(S) /\ Len(g) = Len(fleet) /\ g[a] = x /\ g[b] = y
      /\ \A k \in 1..Len(fleet) : k # a /\ k # b => g[k] = fleet[k]
  BY <1>1
<1>3. QED
  BY <1>2 DEF Replaced, S

\* An order goes from the vehicle at k to one before it, or nothing happens.
LEMMA HandedDownIs ==
  ASSUME NEW fleet, Shared(fleet), NEW k \in 1..Len(fleet), NEW o \in fleet[k].orders,
         NEW g, g = HandDown(fleet, k, o, Asked(fleet, k, o))
  PROVE  /\ Shared(g) /\ Continues(fleet, g)
         /\ \A a \in fleet[k].orders : a # o => a \in g[k].orders
<1> DEFINE asked == Asked(fleet, k, o)
           takers == Takers(asked, o)
           m == Min(takers)
<1>1. /\ fleet \in Seq(VehicleType) /\ Len(fleet) \in Nat /\ OrdersApart(fleet)
      /\ \A l \in 1..Len(fleet) : Fillable(fleet[l]) /\ fleet[l].idx \in trucks
  BY DEF Shared
<1>2. o \in Order /\ \A l \in 1..Len(fleet) : fleet[l] \in VehicleType
  <2>1. fleet[k].orders \in SUBSET Order
    BY <1>1, VehicleFacts
  <2>2. QED
    BY <1>1, <2>1
<1>3. CASE takers = {}
  <2>1. g = fleet
    BY <1>3 DEF HandDown
  <2>2. Continues(fleet, fleet)
    BY <1>1, BecomesItself DEF Continues
  <2>3. QED
    BY <2>1, <2>2
<1>4. CASE takers # {}
  <2>1. \A l \in 1..(k - 1) : asked[l] = hillClimb(fleet[l], o)
    BY DEF Asked
  <2>2. takers \subseteq 1..(k - 1) /\ \A l \in takers : has_order(asked[l], o)
    BY DEF Takers, Asked
  <2> DEFINE y == asked[m]
             x == erase(fleet[k], o)
  <2>3. g = [fleet EXCEPT ![k] = x, ![m] = y]
    BY <1>4 DEF HandDown
  <2> HIDE DEF asked, takers
  <2>4. m \in takers /\ m \in 1..(k - 1)
    <3>1. takers \in SUBSET Nat
      BY <2>2
    <3>2. QED
      BY <1>4, <2>2, <3>1, MinIsMember
  <2> HIDE DEF m
  <2>5. m \in 1..Len(fleet) /\ k # m
    BY <1>1, <2>4
  <2>6. y = hillClimb(fleet[m], o) /\ has_order(y, o)
    BY <2>1, <2>2, <2>4
  <2> HIDE DEF y, x
  <2>7. fleet[m].orders \cap fleet[k].orders = {}
    BY <1>1, <2>5, OrdersByPosition
  <2>8. /\ Fillable(y) /\ Becomes(fleet[m], y)
        /\ y.orders = fleet[m].orders \cup {o}
    BY <1>1, <1>2, <2>5, <2>6, <2>7, InsertingIs
  <2>9. Fillable(x) /\ Becomes(fleet[k], x) /\ x.orders = fleet[k].orders \ {o}
    BY <1>1, ErasingIs DEF x
  <2>10. x \in VehicleType /\ y \in VehicleType
    BY <2>8, <2>9 DEF Fillable, Intact
  <2>11. Replaced(fleet, g, k, m, x, y)
    BY <1>1, <2>3, <2>5, <2>10, PairReplaced
  <2>12. /\ x.orders \cap y.orders = {}
         /\ x.orders \cup y.orders = fleet[k].orders \cup fleet[m].orders
    BY <2>7, <2>8, <2>9
  <2>13. Shared(g) /\ Continues(fleet, g)
    BY <2>5, <2>8, <2>9, <2>11, <2>12, ReplacedShared
  <2>14. g[k] = x
    BY <2>11 DEF Replaced
  <2>15. QED
    BY <2>9, <2>13, <2>14
<1>5. QED
  BY <1>3, <1>4

\* All orders of a vehicle go down, or try to.
LEMMA DecreasedIs ==
  ASSUME NEW fleet, Shared(fleet), NEW k \in 1..Len(fleet), NEW g, g = decrease_truck(fleet, k)
  PROVE  Shared(g) /\ Continues(fleet, g)
<1> DEFINE seq == InOrder({<<o>> : o \in fleet[k].orders})
           n == Len(seq)
           Step(f, j) == HandDown(f, k, seq[j][1], Asked(f, k, seq[j][1]))
           Computes(h) == h = [j \in 0..n |-> IF j = 0 THEN fleet ELSE Step(h[j - 1], j)]
           found == CHOOSE h : Computes(h)
           X == Seq(VehicleType)
           Waiting(f, j) == \A l \in 1..n : l > j => seq[l][1] \in f[k].orders
           G == [j \in 0..n |-> {f \in X : Shared(f) /\ Continues(fleet, f) /\ Waiting(f, j)}]
<1>1. g = found[n]
  BY DEF decrease_truck, ForEach, Visiting, Iterated
<1>2. /\ fleet \in X
      /\ \A l \in 1..Len(fleet) : Fillable(fleet[l]) /\ fleet[l].idx \in trucks
  BY DEF Shared
<1>3. /\ n \in Nat /\ \A j \in 1..n : seq[j][1] \in fleet[k].orders
      /\ \A h, j \in 1..n : seq[h][1] = seq[j][1] => h = j
  <2>1. fleet[k].orders \in SUBSET Order
    BY <1>2, VehicleFacts
  <2> HIDE DEF seq
  <2>2. QED
    BY <2>1, OrdersVisited DEF seq
<1>4. \A j \in 0..n : G[j] = {f \in X : Shared(f) /\ Continues(fleet, f) /\ Waiting(f, j)}
  OBVIOUS
<1> HIDE DEF seq, n
<1>5. Continues(fleet, fleet) /\ Waiting(fleet, 0)
  BY <1>2, <1>3, BecomesItself DEF Continues
<1>6. ASSUME NEW j \in 1..n, NEW f \in X, Shared(f), Continues(fleet, f), Waiting(f, j - 1)
      PROVE  /\ Step(f, j) \in X /\ Shared(Step(f, j)) /\ Continues(fleet, Step(f, j))
             /\ Waiting(Step(f, j), j)
  <2>1. k \in 1..Len(f)
    BY <1>6 DEF Continues
  <2>2. seq[j][1] \in f[k].orders
    BY <1>3, <1>6
  <2> DEFINE next == Step(f, j)
  <2>3. next = HandDown(f, k, seq[j][1], Asked(f, k, seq[j][1]))
    OBVIOUS
  <2> HIDE DEF next
  <2>4. /\ Shared(next) /\ Continues(f, next)
        /\ \A a \in f[k].orders : a # seq[j][1] => a \in next[k].orders
    BY <1>6, <2>1, <2>2, <2>3, HandedDownIs
  <2>5. Continues(fleet, next)
    BY <1>6, <2>4, ContinuesThen
  <2>6. Waiting(next, j)
    <3>1. ASSUME NEW l \in 1..n, l > j
          PROVE  seq[l][1] \in next[k].orders
      <4>1. seq[l][1] \in f[k].orders
        BY <1>3, <1>6, <3>1
      <4>2. seq[l][1] # seq[j][1]
        BY <1>3, <3>1
      <4>3. QED
        BY <2>4, <4>1, <4>2
    <3>2. QED
      BY <3>1
  <2>7. next \in X
    BY <2>4 DEF Shared
  <2>8. QED
    BY <2>4, <2>5, <2>6, <2>7 DEF next
<1> HIDE DEF X, Step, Waiting
<1>7. 0 \in 0..n /\ n \in 0..n /\ \A j \in 1..n : j \in 0..n /\ j - 1 \in 0..n /\ j # 0
  BY <1>3
<1>8. fleet \in G[0] /\ \A j \in 1..n : \A f \in G[j - 1] : Step(f, j) \in G[j]
  <2> HIDE DEF G
  <2>1. \A j \in 1..n : \A f \in X :
          Shared(f) /\ Continues(fleet, f) /\ Waiting(f, j - 1) =>
          /\ Step(f, j) \in X /\ Shared(Step(f, j)) /\ Continues(fleet, Step(f, j))
          /\ Waiting(Step(f, j), j)
    BY <1>6
  <2>2. QED
    BY <1>2, <1>4, <1>5, <1>7, <2>1
<1>9. \E h : Computes(h)
  <2> DEFINE step == [x \in X \X (1..n) |-> Step(x[1], x[2])]
  <2>1. \A j \in 1..n : \A f \in X : step[<<f, j>>] = Step(f, j)
    OBVIOUS
  <2>2. \A j \in 0..n : G[j] \subseteq X
    BY <1>4
  <2> HIDE DEF G, step
  <2>3. \A j \in 1..n : \A f \in G[j - 1] : step[<<f, j>>] \in G[j]
    BY <1>7, <1>8, <2>1, <2>2
  <2>4. PICK h : Computed(n, fleet, step, h) /\ \A j \in 0..n : h[j] \in G[j]
    BY <1>3, <1>8, <2>3, StepsExist
  <2>5. \A j \in 0..n : j # 0 => j \in 1..n /\ h[j - 1] \in X
    <3>1. \A j \in 0..n : j # 0 => j \in 1..n
      BY <1>3
    <3>2. QED
      BY <1>7, <2>2, <2>4, <3>1
  <2>6. Computes(h)
    BY <2>1, <2>4, <2>5 DEF Computed
  <2>7. QED
    BY <2>6
<1>10. \A j \in 0..n : found[j] = IF j = 0 THEN fleet ELSE Step(found[j - 1], j)
  BY <1>9
<1> HIDE DEF found
<1>11. found[n] \in G[n]
  <2> HIDE DEF G
  <2>1. found[0] \in G[0] /\ \A j \in 1..n : found[j - 1] \in G[j - 1] => found[j] \in G[j]
    BY <1>7, <1>8, <1>10
  <2>2. \A j \in 0..n : found[j] \in G[j]
    BY <1>3, <2>1, StepsLead
  <2>3. QED
    BY <1>7, <2>2
<1>12. QED
  BY <1>1, <1>4, <1>7, <1>11


\* A vehicle that an order was inserted into.
LEMMA InsertedIs ==
  ASSUME NEW t, Fillable(t), NEW o \in Order, o \notin t.orders,
         NEW u, u = Inserted(t, o), has_order(u, o)
  PROVE  Fillable(u) /\ Becomes(t, u) /\ u.orders = t.orders \cup {o}
<1>1. u = hillClimb(t, o) \/ u = semiLIFO(t, o)
  BY DEF Inserted
<1>2. /\ Fillable(u) /\ Becomes(t, u)
      /\ u.orders = IF has_order(u, o) THEN t.orders \cup {o} ELSE t.orders
  <2> HIDE DEF Inserted
  <2>1. QED
    BY <1>1, InsertingIs
<1>3. QED
  BY <1>2

\* The pairs inter_swap works on.
PairType == [from : VehicleType, to : VehicleType]

\* The two of s are what became of t and u: together they have the same orders.
PairOf(t, u, s) ==
  /\ s \in PairType
  /\ Fillable(s.from) /\ Becomes(t, s.from)
  /\ Fillable(s.to) /\ Becomes(u, s.to)
  /\ s.from.orders \cap s.to.orders = {}
  /\ s.from.orders \cup s.to.orders = t.orders \cup u.orders

\* An order moves from the first vehicle to the second one.
LEMMA MovedIs ==
  ASSUME NEW t, NEW u, NEW s, PairOf(t, u, s), NEW o \in s.from.orders,
         NEW r, r = MoveTo(s, o), has_order(r.to, o)
  PROVE  PairOf(t, u, r) /\ r.from.orders = s.from.orders \ {o}
<1>1. /\ s \in PairType /\ Fillable(s.from) /\ Becomes(t, s.from)
      /\ Fillable(s.to) /\ Becomes(u, s.to)
      /\ s.from.orders \cap s.to.orders = {}
      /\ s.from.orders \cup s.to.orders = t.orders \cup u.orders
  BY DEF PairOf
<1>2. o \in Order /\ o \notin s.to.orders
  <2>1. s.from.orders \in SUBSET Order
    BY <1>1, VehicleFacts DEF PairType
  <2>2. QED
    BY <1>1, <2>1
<1> DEFINE x == erase(s.from, o)
           y == Inserted(s.to, o)
<1>3. r = [from |-> x, to |-> y]
  BY DEF MoveTo
<1>4. y = Inserted(s.to, o)
  OBVIOUS
<1>5. r.from = x /\ r.to = y /\ has_order(y, o)
  <2> HIDE DEF x, y
  <2>1. r.from = x /\ r.to = y
    BY <1>3
  <2>2. QED
    BY <2>1 DEF has_order
<1>6. Fillable(x) /\ Becomes(s.from, x) /\ x.orders = s.from.orders \ {o}
  BY <1>1, ErasingIs
<1> HIDE DEF x, y
<1>7. Fillable(y) /\ Becomes(s.to, y) /\ y.orders = s.to.orders \cup {o}
  BY <1>1, <1>2, <1>4, <1>5, InsertedIs
<1>8. Becomes(t, x) /\ Becomes(u, y)
  BY <1>1, <1>6, <1>7, BecomesThen
<1>9. r \in PairType
  <2>1. x \in VehicleType /\ y \in VehicleType
    BY <1>6, <1>7 DEF Fillable, Intact
  <2>2. QED
    BY <1>3, <2>1 DEF PairType
<1>10. x.orders \cap y.orders = {} /\ x.orders \cup y.orders = t.orders \cup u.orders
  BY <1>1, <1>2, <1>6, <1>7
<1>11. QED
  BY <1>5, <1>6, <1>7, <1>8, <1>9, <1>10 DEF PairOf

\* An order of the first vehicle and one of the second change places.
LEMMA ExchangedIs ==
  ASSUME NEW t, NEW u, NEW s, PairOf(t, u, s), NEW o \in s.from.orders,
         NEW other \in s.to.orders, NEW r, r = Exchanged(s, o, other),
         has_order(r.from, other), has_order(r.to, o)
  PROVE  PairOf(t, u, r) /\ r.from.orders = (s.from.orders \ {o}) \cup {other}
<1>1. /\ s \in PairType /\ Fillable(s.from) /\ Becomes(t, s.from)
      /\ Fillable(s.to) /\ Becomes(u, s.to)
      /\ s.from.orders \cap s.to.orders = {}
      /\ s.from.orders \cup s.to.orders = t.orders \cup u.orders
  BY DEF PairOf
<1>2. o \in Order /\ other \in Order
  <2>1. s.from.orders \in SUBSET Order /\ s.to.orders \in SUBSET Order
    BY <1>1, VehicleFacts DEF PairType
  <2>2. QED
    BY <2>1
<1> DEFINE a == erase(s.from, o)
           b == erase(s.to, other)
           x == Inserted(a, other)
           y == Inserted(b, o)
<1>3. r = [from |-> x, to |-> y]
  BY DEF Exchanged
<1>4. Fillable(a) /\ Becomes(s.from, a) /\ a.orders = s.from.orders \ {o}
  BY <1>1, ErasingIs
<1>5. Fillable(b) /\ Becomes(s.to, b) /\ b.orders = s.to.orders \ {other}
  BY <1>1, ErasingIs
<1> HIDE DEF a, b
<1>6. x = Inserted(a, other) /\ y = Inserted(b, o)
  OBVIOUS
<1> HIDE DEF x, y
<1>7. r.from = x /\ r.to = y /\ has_order(x, other) /\ has_order(y, o)
  <2>1. r.from = x /\ r.to = y
    BY <1>3
  <2>2. QED
    BY <2>1 DEF has_order
<1>8. Fillable(x) /\ Becomes(a, x) /\ x.orders = a.orders \cup {other}
  <2>1. other \notin a.orders
    BY <1>1, <1>4
  <2>2. QED
    BY <1>2, <1>4, <1>6, <1>7, <2>1, InsertedIs
<1>9. Fillable(y) /\ Becomes(b, y) /\ y.orders = b.orders \cup {o}
  <2>1. o \notin b.orders
    BY <1>1, <1>5
  <2>2. QED
    BY <1>2, <1>5, <1>6, <1>7, <2>1, InsertedIs
<1>10. Becomes(t, x) /\ Becomes(u, y)
  <2>1. Becomes(s.from, x) /\ Becomes(s.to, y)
    BY <1>4, <1>5, <1>8, <1>9, BecomesThen
  <2>2. QED
    BY <1>1, <2>1, BecomesThen
<1>11. r \in PairType
  <2>1. x \in VehicleType /\ y \in VehicleType
    BY <1>8, <1>9 DEF Fillable, Intact
  <2>2. QED
    BY <1>3, <2>1 DEF PairType
<1>12. x.orders \cap y.orders = {} /\ x.orders \cup y.orders = t.orders \cup u.orders
  BY <1>1, <1>4, <1>5, <1>8, <1>9
<1>13. QED
  BY <1>4, <1>7, <1>8, <1>9, <1>10, <1>11, <1>12 DEF PairOf

\* One turn of swap_worse: the other orders of the first vehicle stay there.
LEMMA MovedOrExchangedIs ==
  ASSUME NEW t, NEW u, NEW s, PairOf(t, u, s), NEW o \in s.from.orders, NEW orders, NEW fleet,
         NEW r, r = MoveOrExchange(fleet, s, o, orders, MoveTo(s, o))
  PROVE  PairOf(t, u, r) /\ \A a \in s.from.orders : a # o => a \in r.from.orders
<1> DEFINE moved == MoveTo(s, o)
<1>1. CASE MayMove(s) /\ has_order(moved.to, o)
  <2>1. r = moved
    BY <1>1 DEF MoveOrExchange
  <2>2. QED
    BY <1>1, <2>1, MovedIs
<1>2. CASE ~(MayMove(s) /\ has_order(moved.to, o))
  <2> DEFINE both == orders \cap s.to.orders
             exchanged == [other \in both |-> Exchanged(s, o, other)]
             partners == {other \in both : ShorterExchange(fleet, s, exchanged[other], o, other)}
  <2>1. r = FirstExchange(fleet, s, o, exchanged)
    BY <1>2 DEF MoveOrExchange, Exchange
  <2>2. r = IF partners = {} THEN s ELSE exchanged[Min(partners)]
    BY <2>1 DEF FirstExchange
  <2>3. CASE partners = {}
    BY <2>2, <2>3
  <2>4. CASE partners # {}
    <3> DEFINE other == Min(partners)
    <3>1. partners \in SUBSET both
      OBVIOUS
    <3>2. both \in SUBSET Nat
      <4>1. s.to.orders \in SUBSET Order
        BY VehicleFacts DEF PairOf, PairType
      <4>2. QED
        BY <4>1, DataAssumption
    <3>3. \A x \in partners : ShorterExchange(fleet, s, exchanged[x], o, x)
      OBVIOUS
    <3>4. \A x \in both : exchanged[x] = Exchanged(s, o, x)
      OBVIOUS
    <3>5. both \subseteq s.to.orders
      OBVIOUS
    <3> HIDE DEF partners, exchanged, both
    <3>6. other \in partners
      BY <2>4, <3>1, <3>2, MinIsMember
    <3> HIDE DEF other
    <3>7. r = exchanged[other]
      BY <2>2, <2>4 DEF other
    <3>8. r = Exchanged(s, o, other) /\ other \in s.to.orders
      BY <3>1, <3>4, <3>5, <3>6, <3>7
    <3>9. has_order(r.from, other) /\ has_order(r.to, o)
      <4>1. ShorterExchange(fleet, s, r, o, other)
        BY <3>3, <3>6, <3>7
      <4>2. QED
        BY <4>1 DEF ShorterExchange
    <3>10. PairOf(t, u, r) /\ r.from.orders = (s.from.orders \ {o}) \cup {other}
      BY <3>8, <3>9, ExchangedIs
    <3>11. QED
      BY <3>10
  <2>5. QED
    BY <2>3, <2>4
<1>3. QED
  BY <1>1, <1>2

\* All turns of swap_worse.
LEMMA SwappedIs ==
  ASSUME NEW fleet, Shared(fleet), from \in 1..Len(fleet), to \in 1..Len(fleet), from # to,
         NEW s, s = swap_worse(fleet)
  PROVE  PairOf(fleet[from], fleet[to], s)
<1> DEFINE t == fleet[from]
           u == fleet[to]
           base == [from |-> t, to |-> u]
           seq == InOrder({<<o>> : o \in t.orders})
           n == Len(seq)
           Step(r, j) == MoveOrExchange(fleet, r, seq[j][1], u.orders, MoveTo(r, seq[j][1]))
           Computes(h) == h = [j \in 0..n |-> IF j = 0 THEN base ELSE Step(h[j - 1], j)]
           found == CHOOSE h : Computes(h)
           X == PairType
           Waiting(r, j) == \A l \in 1..n : l > j => seq[l][1] \in r.from.orders
           G == [j \in 0..n |-> {r \in X : PairOf(t, u, r) /\ Waiting(r, j)}]
<1>1. s = found[n]
  BY DEF swap_worse, ForEach, Visiting, Iterated
<1>2. /\ Fillable(t) /\ Fillable(u) /\ t.orders \cap u.orders = {}
      /\ t \in VehicleType /\ u \in VehicleType
  <2>1. /\ fleet \in Seq(VehicleType) /\ OrdersApart(fleet)
        /\ \A l \in 1..Len(fleet) : Fillable(fleet[l])
    BY DEF Shared
  <2>2. QED
    BY <2>1, OrdersByPosition
<1> HIDE DEF t, u
<1>3. /\ n \in Nat /\ \A j \in 1..n : seq[j][1] \in t.orders
      /\ \A h, j \in 1..n : seq[h][1] = seq[j][1] => h = j
  <2>1. t.orders \in SUBSET Order
    BY <1>2, VehicleFacts
  <2> HIDE DEF seq
  <2>2. QED
    BY <2>1, OrdersVisited DEF seq
<1>4. \A j \in 0..n : G[j] = {r \in X : PairOf(t, u, r) /\ Waiting(r, j)}
  OBVIOUS
<1> HIDE DEF seq, n
<1>5. base \in X /\ PairOf(t, u, base) /\ Waiting(base, 0)
  <2>1. base \in PairType /\ base.from = t /\ base.to = u
    BY <1>2 DEF PairType
  <2> HIDE DEF base
  <2>2. QED
    BY <1>2, <1>3, <2>1, BecomesItself DEF PairOf
<1> HIDE DEF base
<1>6. ASSUME NEW j \in 1..n, NEW r \in X, PairOf(t, u, r), Waiting(r, j - 1)
      PROVE  /\ Step(r, j) \in X /\ PairOf(t, u, Step(r, j)) /\ Waiting(Step(r, j), j)
  <2>1. seq[j][1] \in r.from.orders
    BY <1>3, <1>6
  <2> DEFINE next == Step(r, j)
  <2>2. next = MoveOrExchange(fleet, r, seq[j][1], u.orders, MoveTo(r, seq[j][1]))
    OBVIOUS
  <2> HIDE DEF next
  <2>3. /\ PairOf(t, u, next)
        /\ \A a \in r.from.orders : a # seq[j][1] => a \in next.from.orders
    BY <1>6, <2>1, <2>2, MovedOrExchangedIs
  <2>4. Waiting(next, j)
    <3>1. ASSUME NEW l \in 1..n, l > j
          PROVE  seq[l][1] \in next.from.orders
      <4>1. seq[l][1] \in r.from.orders
        BY <1>3, <1>6, <3>1
      <4>2. seq[l][1] # seq[j][1]
        BY <1>3, <3>1
      <4>3. QED
        BY <2>3, <4>1, <4>2
    <3>2. QED
      BY <3>1
  <2>5. next \in X
    BY <2>3 DEF PairOf
  <2>6. QED
    BY <2>3, <2>4, <2>5 DEF next
<1> HIDE DEF X, Step, Waiting
<1>7. 0 \in 0..n /\ n \in 0..n /\ \A j \in 1..n : j \in 0..n /\ j - 1 \in 0..n /\ j # 0
  BY <1>3
<1>8. base \in G[0] /\ \A j \in 1..n : \A r \in G[j - 1] : Step(r, j) \in G[j]
  <2> HIDE DEF G
  <2>1. \A j \in 1..n : \A r \in X :
          PairOf(t, u, r) /\ Waiting(r, j - 1) =>
          Step(r, j) \in X /\ PairOf(t, u, Step(r, j)) /\ Waiting(Step(r, j), j)
    BY <1>6
  <2>2. QED
    BY <1>4, <1>5, <1>7, <2>1
<1>9. \E h : Computes(h)
  <2> DEFINE step == [x \in X \X (1..n) |-> Step(x[1], x[2])]
  <2>1. \A j \in 1..n : \A r \in X : step[<<r, j>>] = Step(r, j)
    OBVIOUS
  <2>2. \A j \in 0..n : G[j] \subseteq X
    BY <1>4
  <2> HIDE DEF G, step
  <2>3. \A j \in 1..n : \A r \in G[j - 1] : step[<<r, j>>] \in G[j]
    BY <1>7, <1>8, <2>1, <2>2
  <2>4. PICK h : Computed(n, base, step, h) /\ \A j \in 0..n : h[j] \in G[j]
    BY <1>3, <1>8, <2>3, StepsExist
  <2>5. \A j \in 0..n : j # 0 => j \in 1..n /\ h[j - 1] \in X
    <3>1. \A j \in 0..n : j # 0 => j \in 1..n
      BY <1>3
    <3>2. QED
      BY <1>7, <2>2, <2>4, <3>1
  <2>6. Computes(h)
    BY <2>1, <2>4, <2>5 DEF Computed
  <2>7. QED
    BY <2>6
<1>10. \A j \in 0..n : found[j] = IF j = 0 THEN base ELSE Step(found[j - 1], j)
  BY <1>9
<1> HIDE DEF found
<1>11. found[n] \in G[n]
  <2> HIDE DEF G
  <2>1. found[0] \in G[0] /\ \A j \in 1..n : found[j - 1] \in G[j - 1] => found[j] \in G[j]
    BY <1>7, <1>8, <1>10
  <2>2. \A j \in 0..n : found[j] \in G[j]
    BY <1>3, <2>1, StepsLead
  <2>3. QED
    BY <1>7, <2>2
<1>12. PairOf(t, u, s)
  BY <1>1, <1>4, <1>7, <1>11
<1>13. QED
  BY <1>12 DEF t, u

\* The two are written back.
LEMMA PairWrittenBack ==
  ASSUME NEW fleet, Shared(fleet), from \in 1..Len(fleet), to \in 1..Len(fleet), from # to,
         NEW s, s = swap_worse(fleet), NEW g, g = WithPair(fleet, s)
  PROVE  Shared(g) /\ Continues(fleet, g)
<1>1. PairOf(fleet[from], fleet[to], s)
  BY SwappedIs
<1>2. /\ s.from \in VehicleType /\ Fillable(s.from) /\ Becomes(fleet[from], s.from)
      /\ s.to \in VehicleType /\ Fillable(s.to) /\ Becomes(fleet[to], s.to)
      /\ s.from.orders \cap s.to.orders = {}
      /\ s.from.orders \cup s.to.orders = fleet[from].orders \cup fleet[to].orders
  BY <1>1 DEF PairOf, PairType
<1>3. Replaced(fleet, g, from, to, s.from, s.to)
  <2>1. fleet \in Seq(VehicleType)
    BY DEF Shared
  <2>2. QED
    BY <1>2, <2>1, PairReplaced DEF WithPair
<1>4. QED
  BY <1>2, <1>3, ReplacedShared


(***************************************************************************)
(* The solution that is chosen.                                            *)
(***************************************************************************)

\* No tuple comes before itself, and what comes before another one comes
\* before those that are behind it.
LEMMA LexLessIsOrder ==
  ASSUME NEW d \in Nat, NEW a \in [1..d -> Nat], NEW b \in [1..d -> Nat], NEW c \in [1..d -> Nat]
  PROVE  ~LexLess(a, a) /\ (LexLess(a, b) /\ LexLess(b, c) => LexLess(a, c))
<1>1. DOMAIN a = 1..d /\ DOMAIN b = 1..d
  OBVIOUS
<1>2. ~LexLess(a, a)
  BY <1>1 DEF LexLess
<1>3. ASSUME LexLess(a, b), LexLess(b, c)
      PROVE  LexLess(a, c)
  <2>1. PICK k \in 1..d : a[k] < b[k] /\ \A l \in 1..(k - 1) : a[l] = b[l]
    BY <1>1, <1>3 DEF LexLess
  <2>2. PICK j \in 1..d : b[j] < c[j] /\ \A l \in 1..(j - 1) : b[l] = c[l]
    BY <1>1, <1>3 DEF LexLess
  <2>3. CASE k <= j
    <3>1. a[k] < c[k]
      <4>1. k = j \/ k \in 1..(j - 1)
        BY <2>3
      <4>2. QED
        BY <2>1, <2>2, <4>1, SMTT(60)
    <3>2. \A l \in 1..(k - 1) : l \in 1..(j - 1)
      BY <2>3
    <3>3. \A l \in 1..(k - 1) : a[l] = c[l]
      BY <2>1, <2>2, <3>2
    <3>4. QED
      BY <1>1, <3>1, <3>3 DEF LexLess
  <2>4. CASE j < k
    <3>1. a[j] < c[j]
      <4>1. j \in 1..(k - 1)
        BY <2>4
      <4>2. QED
        BY <2>1, <2>2, <4>1
    <3>2. \A l \in 1..(j - 1) : l \in 1..(k - 1)
      BY <2>4
    <3>3. \A l \in 1..(j - 1) : a[l] = c[l]
      BY <2>1, <2>2, <3>2
    <3>4. QED
      BY <1>1, <3>1, <3>3 DEF LexLess
  <2>5. QED
    BY <2>3, <2>4
<1>4. QED
  BY <1>2, <1>3

\* The cost of a solution is five numbers.
LEMMA CostIs ==
  ASSUME NEW fleet, Travelling(fleet)
  PROVE  Cost(fleet) \in [1..5 -> Nat]
<1>1. /\ FleetDuration(fleet) \in Nat /\ FleetWait(fleet) \in Nat
      /\ FleetTwv(fleet) \in Nat /\ FleetCv(fleet) \in Nat /\ Len(fleet) \in Nat
  BY FiguresAreNatural DEF Travelling
<1>2. \A a, b, c, d, e \in Nat : <<a, b, c, d, e>> \in [1..5 -> Nat]
  <2>1. ASSUME NEW a \in Nat, NEW b \in Nat, NEW c \in Nat, NEW d \in Nat, NEW e \in Nat
        PROVE  <<a, b, c, d, e>> \in [1..5 -> Nat]
    <3>1. <<a, b, c, d, e>> \in Seq(Nat) /\ Len(<<a, b, c, d, e>>) = 5
      OBVIOUS
    <3>2. QED
      BY <3>1
  <2>2. QED
    BY <2>1
<1>3. QED
  BY <1>1, <1>2 DEF Cost

\* Less orders solutions.
LEMMA LessIsOrder ==
  ASSUME NEW f, Travelling(f), NEW g, Travelling(g), NEW h, Travelling(h)
  PROVE  ~Less(f, f) /\ (Less(f, g) /\ Less(g, h) => Less(f, h))
<1>1. 5 \in Nat
  OBVIOUS
<1>2. QED
  BY <1>1, CostIs, LexLessIsOrder DEF Less

\* Sound solutions, at least one of them.
Candidates(candidates) ==
  /\ candidates \in Seq(Seq(VehicleType)) /\ Len(candidates) > 0
  /\ \A k \in 1..Len(candidates) : Shared(candidates[k])

\* x is one of the candidates, and none of the first k is less.
LeastOf(candidates, k, x) ==
  /\ \E j \in 1..Len(candidates) : x = candidates[j]
  /\ \A j \in 1..k : ~Less(candidates[j], x)

\* The solution chosen is one of the candidates, and none of them is less.
LEMMA ChosenIs ==
  ASSUME NEW candidates, Candidates(candidates), NEW c, c = Chosen(candidates)
  PROVE  LeastOf(candidates, Len(candidates), c) /\ Shared(c)
<1> DEFINE n == Len(candidates)
           base == candidates[1]
           Step(x, k) == IF Less(candidates[k], x) THEN candidates[k] ELSE x
           Computes(h) == h = [j \in 0..n |-> IF j = 0 THEN base ELSE Step(h[j - 1], j)]
           found == CHOOSE h : Computes(h)
           X == {candidates[j] : j \in 1..n}
           G == [j \in 0..n |-> {x \in X : LeastOf(candidates, j, x)}]
<1>1. c = found[n]
  BY DEF Chosen, Iterated
<1>2. /\ n \in Nat /\ n > 0 /\ \A k \in 1..n : Shared(candidates[k])
      /\ \A k \in 1..n : Travelling(candidates[k])
  BY SharedTravels DEF Candidates
<1>3. \A j \in 0..n : G[j] = {x \in X : LeastOf(candidates, j, x)}
  OBVIOUS
<1>4. base \in X /\ LeastOf(candidates, 0, base)
  <2>1. 1 \in 1..n
    BY <1>2
  <2>2. QED
    BY <2>1 DEF LeastOf
<1>5. ASSUME NEW k \in 1..n, NEW x \in X, LeastOf(candidates, k - 1, x)
      PROVE  Step(x, k) \in X /\ LeastOf(candidates, k, Step(x, k))
  <2>1. /\ Travelling(x) /\ Travelling(candidates[k]) /\ candidates[k] \in X
        /\ \A j \in 1..(k - 1) : ~Less(candidates[j], x)
    BY <1>2, <1>5 DEF LeastOf
  <2>2. \A j \in 1..k : j \in 1..n /\ (j = k \/ j \in 1..(k - 1))
    BY <1>2
  <2>3. CASE Less(candidates[k], x)
    <3>1. Step(x, k) = candidates[k]
      BY <2>3
    <3>2. \A j \in 1..k : ~Less(candidates[j], candidates[k])
      <4>1. ASSUME NEW j \in 1..k, Less(candidates[j], candidates[k])
            PROVE  FALSE
        <5>1. Travelling(candidates[j])
          BY <1>2, <2>2
        <5>2. j # k
          BY <2>1, <4>1, LessIsOrder
        <5>3. Less(candidates[j], x)
          BY <2>1, <2>3, <4>1, <5>1, LessIsOrder
        <5>4. QED
          BY <2>1, <2>2, <5>2, <5>3
      <4>2. QED
        BY <4>1
    <3>3. QED
      BY <2>1, <3>1, <3>2 DEF LeastOf
  <2>4. CASE ~Less(candidates[k], x)
    <3>1. Step(x, k) = x
      BY <2>4
    <3>2. \A j \in 1..k : ~Less(candidates[j], x)
      BY <2>1, <2>2, <2>4
    <3>3. QED
      BY <1>5, <3>1, <3>2 DEF LeastOf
  <2>5. QED
    BY <2>3, <2>4
<1> HIDE DEF X, Step, base, n
<1>6. 0 \in 0..n /\ n \in 0..n /\ \A j \in 1..n : j \in 0..n /\ j - 1 \in 0..n /\ j # 0
  BY <1>2
<1>7. base \in G[0] /\ \A j \in 1..n : \A x \in G[j - 1] : Step(x, j) \in G[j]
  <2> HIDE DEF G
  <2>1. \A j \in 1..n : \A x \in X : LeastOf(candidates, j - 1, x) =>
          Step(x, j) \in X /\ LeastOf(candidates, j, Step(x, j))
    BY <1>5
  <2>2. QED
    BY <1>3, <1>4, <1>6, <2>1
<1>8. \E h : Computes(h)
  <2> DEFINE step == [x \in X \X (1..n) |-> Step(x[1], x[2])]
  <2>1. \A j \in 1..n : \A x \in X : step[<<x, j>>] = Step(x, j)
    OBVIOUS
  <2>2. \A j \in 0..n : G[j] \subseteq X
    BY <1>3
  <2> HIDE DEF G, step
  <2>3. \A j \in 1..n : \A x \in G[j - 1] : step[<<x, j>>] \in G[j]
    BY <1>6, <1>7, <2>1, <2>2
  <2>4. PICK h : Computed(n, base, step, h) /\ \A j \in 0..n : h[j] \in G[j]
    BY <1>2, <1>7, <2>3, StepsExist
  <2>5. \A j \in 0..n : j # 0 => j \in 1..n /\ h[j - 1] \in X
    <3>1. \A j \in 0..n : j # 0 => j \in 1..n
      BY <1>2
    <3>2. QED
      BY <1>6, <2>2, <2>4, <3>1
  <2>6. Computes(h)
    BY <2>1, <2>4, <2>5 DEF Computed
  <2>7. QED
    BY <2>6
<1>9. \A j \in 0..n : found[j] = IF j = 0 THEN base ELSE Step(found[j - 1], j)
  BY <1>8
<1> HIDE DEF found
<1>10. found[n] \in G[n]
  <2> HIDE DEF G
  <2>1. found[0] \in G[0] /\ \A j \in 1..n : found[j - 1] \in G[j - 1] => found[j] \in G[j]
    BY <1>6, <1>7, <1>9
  <2>2. \A j \in 0..n : found[j] \in G[j]
    BY <1>2, <2>1, StepsLead
  <2>3. QED
    BY <1>6, <2>2
<1>11. c \in X /\ LeastOf(candidates, n, c)
  BY <1>1, <1>3, <1>6, <1>10
<1>12. QED
  BY <1>2, <1>11 DEF X, n


-----------------------------------------------------------------------------

(***************************************************************************)
(* The call.                                                               *)
(***************************************************************************)

\* The problem, the construction under way and the call's arguments.
BuildInv ==
  /\ IInv /\ RoutesFit
  /\ building = "done" => unassigned = {}
  /\ all_orders # {} /\ PhonyTruck \in trucks /\ trucks # {PhonyTruck}
  /\ initial_solution_id \in AskedFor /\ m_kind = KindTold
  /\ pc = "initial" => Len(sols) < Len(KindsTried)

\* The loops of the optimizer.
LoopInv ==
  /\ times \in MaxCycles /\ times \in Nat /\ cycle \in 0..times
  /\ position \in Nat /\ decreased \in BOOLEAN
  /\ from \in Nat /\ to \in Nat
  /\ pc = "decrease" => position \in 2..(Len(m_fleet) + 1) \cup {2}
  /\ pc = "swap" => 1 <= to /\ to < from
  /\ pc \in {"initial", "failed", "start", "decrease", "cycle", "swap", "done"}

\* A fleet of the optimizer: sound, and no worse than the one that was chosen.
Derived(f) == Shared(f) /\ Descends(Chosen(sols), f)

\* The solutions.
FleetInv ==
  /\ sols \in Seq(Seq(VehicleType)) /\ \A k \in 1..Len(sols) : Shared(sols[k])
  /\ Optimizing =>
       /\ Len(sols) > 0
       /\ Derived(m_fleet) /\ Derived(best_solution)
       /\ Len(m_fleet) = Len(best_solution)
  /\ ~Optimizing => m_fleet = <<>> /\ best_solution = <<>>
  /\ pc = "start" => m_fleet = Chosen(sols)

CallInv == BuildInv /\ LoopInv /\ FleetInv

\* The kinds that are tried are kinds a user may ask for.
LEMMA KindsAreKnown ==
  ASSUME initial_solution_id \in AskedFor
  PROVE  /\ Len(KindsTried) \in Nat /\ Len(KindsTried) > 0
         /\ \A k \in 1..Len(KindsTried) : KindsTried[k] \in Initials_code
<1>1. CASE initial_solution_id = "Best"
  <2>1. KindsTried = SixKinds /\ Range(SixKinds) \subseteq Initials_code
    BY <1>1, CallAssumption DEF KindsTried
  <2>2. Len(SixKinds) = 6 /\ DOMAIN SixKinds = 1..6
    BY DEF SixKinds
  <2>3. \A k \in 1..6 : SixKinds[k] \in Range(SixKinds)
    BY <2>2 DEF Range
  <2>4. QED
    BY <2>1, <2>2, <2>3
<1>2. CASE initial_solution_id # "Best"
  <2>1. KindsTried = <<initial_solution_id>> /\ initial_solution_id \in Initials_code
    BY <1>2, CallAssumption DEF KindsTried
  <2>2. QED
    BY <2>1
<1>3. QED
  BY <1>1, <1>2

\* A sequence of elements of a set is one over that set.
LEMMA SequenceOver ==
  ASSUME NEW S, NEW s, s \in Seq(Range(s)), \A k \in DOMAIN s : s[k] \in S
  PROVE  s \in Seq(S)
<1>1. s \in [1..Len(s) -> Range(s)] /\ Len(s) \in Nat /\ DOMAIN s = 1..Len(s)
  OBVIOUS
<1>2. s \in [1..Len(s) -> S]
  BY <1>1
<1>3. QED
  BY <1>1, <1>2

\* A construction that is finished shares out all orders.
LEMMA BuiltIsShared ==
  ASSUME IInv, RoutesFit, building = "done", unassigned = {}
  PROVE  Shared(built)
<1>1. Routes = built /\ assigned = all_orders
  BY DEF Routes, IInv, EachOrderOnce
<1>2. \A k \in DOMAIN built : /\ Fillable(built[k]) /\ built[k] \in VehicleType
                              /\ built[k].idx \in trucks
  BY DEF RoutesFit, Fillable, Intact, IInv, TypeOK, VehicleShape
<1>3. built \in Seq(VehicleType)
  BY <1>2, SequenceOver DEF IInv, TypeOK
<1>4. OrdersApart(built)
  BY <1>1 DEF IInv, EachOrderOnce, OrdersApart
<1>5. OrdersOn(built) = all_orders
  BY <1>1 DEF IInv, EachOrderOnce, OrdersOn
<1>6. DOMAIN built = 1..Len(built)
  BY <1>3
<1>7. QED
  BY <1>2, <1>3, <1>4, <1>5, <1>6 DEF Shared

\* A sound fleet descends from itself.
LEMMA DescendsItself ==
  ASSUME NEW fleet, Shared(fleet)
  PROVE  Descends(fleet, fleet)
<1>1. fleet \in Seq(VehicleType) /\ \A k \in 1..Len(fleet) : Becomes(fleet[k], fleet[k])
  BY BecomesItself DEF Shared
<1>2. Continues(fleet, fleet)
  BY <1>1 DEF Continues
<1>3. QED
  BY <1>1, <1>2, ContinuingDescends

\* At the start nothing is built.
LEMMA CallStarts == CallInit => CallInv
<1> SUFFICES ASSUME CallInit PROVE CallInv
  OBVIOUS
<1>1. Init /\ initial_solution_id \in AskedFor /\ times \in MaxCycles /\ pc = "initial"
  BY DEF CallInit
<1>2. PICK p \in Problems : all_orders = p.orders /\ trucks = p.trucks
  BY DEF CallInit
<1>3. BuildInv
  <2>1. IInv /\ RoutesFit
    BY <1>1, InitEstablishes, InitFits
  <2>2. building # "done" /\ PhonyTruck \in trucks /\ trucks # {PhonyTruck}
    BY <1>1 DEF Init
  <2>3. all_orders # {}
    BY <1>2, CallAssumption
  <2>4. Len(sols) < Len(KindsTried)
    <3>1. Len(<<>>) = 0 /\ sols = <<>>
      BY DEF CallInit
    <3>2. QED
      BY <1>1, <3>1, KindsAreKnown
  <2>5. QED
    BY <1>1, <2>1, <2>2, <2>3, <2>4 DEF BuildInv, CallInit
<1>4. LoopInv
  <2>1. times \in Nat
    BY <1>1, CallAssumption
  <2>2. cycle = 0 /\ position = 0 /\ decreased = FALSE /\ from = 0 /\ to = 0
    BY DEF CallInit
  <2>3. cycle \in 0..times /\ position \in Nat /\ from \in Nat /\ to \in Nat
    BY <2>1, <2>2
  <2>4. decreased \in BOOLEAN
    BY <2>2
  <2>5. QED
    BY <1>1, <2>1, <2>3, <2>4 DEF LoopInv
<1>5. FleetInv
  <2>1. sols = <<>> /\ ~Optimizing /\ pc # "start" /\ m_fleet = <<>> /\ best_solution = <<>>
    BY DEF CallInit, Optimizing
  <2>2. <<>> \in Seq(Seq(VehicleType)) /\ Len(<<>>) = 0
    OBVIOUS
  <2>3. QED
    BY <2>1, <2>2 DEF FleetInv
<1>6. QED
  BY <1>3, <1>4, <1>5 DEF CallInv

\* Another construction starts like the first one.
LEMMA StartsAnew == Init' => IInv' /\ RoutesFit'
  BY InitEstablishes, InitFits, PTL

\* What a solution shares out stays all orders.
LEMMA SharedStays ==
  ASSUME NEW f, Shared(f), UNCHANGED <<all_orders, trucks>>
  PROVE  (Shared(f))'
  BY DEF Shared

\* A step of the construction, or none.
LEMMA ConstructPreserves ==
  ASSUME CallInv, Construct
  PROVE  CallInv'
<1>1. /\ Next /\ pc = "initial"
      /\ UNCHANGED <<initial_solution_id, sols, optimizerVars>>
  BY DEF Construct
<1>2. UNCHANGED <<all_orders, trucks>>
  BY <1>1 DEF Next, GetTruck, GetTruckThrows, OfferOrder, CloseTruck, Finish, fleetVars
<1>3. IInv' /\ RoutesFit'
  BY <1>1, IInvInductive, RoutesFitInductive DEF CallInv, BuildInv
<1>4. building' = "done" => unassigned' = {}
  BY <1>1 DEF Next, GetTruck, GetTruckThrows, OfferOrder, CloseTruck, Finish, CallInv, BuildInv
<1>5. /\ UNCHANGED <<m_fleet, best_solution, m_kind, times, cycle, position, decreased,
                     from, to, pc>>
  BY <1>1 DEF optimizerVars, solutions, arguments, loops
<1>6. BuildInv'
  BY <1>1, <1>2, <1>3, <1>4, <1>5 DEF CallInv, BuildInv, KindsTried, KindTold
<1>7. LoopInv'
  BY <1>5 DEF CallInv, LoopInv
<1>8. FleetInv'
  <2>1. \A k \in 1..Len(sols) : (Shared(sols[k]))'
    <3>1. ASSUME NEW k \in 1..Len(sols)
          PROVE  Shared(sols[k]) /\ sols'[k] = sols[k]
      BY <1>1 DEF CallInv, FleetInv
    <3>2. QED
      BY <1>2, <3>1 DEF Shared
  <2>2. ~Optimizing' /\ ~Optimizing
    BY <1>1, <1>5 DEF Optimizing
  <2>3. QED
    BY <1>1, <1>5, <2>1, <2>2 DEF CallInv, FleetInv
<1>9. QED
  BY <1>6, <1>7, <1>8 DEF CallInv

\* The first solutions, as the next one joins them.
LEMMA SolutionJoins ==
  ASSUME FleetInv, NEW f, Shared(f), sols' = Append(sols, f), UNCHANGED <<all_orders, trucks>>
  PROVE  /\ sols' \in Seq(Seq(VehicleType)) /\ Len(sols') = Len(sols) + 1
         /\ \A k \in 1..Len(sols') : Shared(sols'[k]) /\ (Shared(sols[k]))'
<1>1. /\ sols \in Seq(Seq(VehicleType)) /\ \A k \in 1..Len(sols) : Shared(sols[k])
      /\ f \in Seq(VehicleType)
  BY DEF FleetInv, Shared
<1> DEFINE X == Seq(VehicleType)
<1>2. sols \in Seq(X) /\ f \in X
  BY <1>1
<1> HIDE DEF X
<1>3. /\ sols' \in Seq(X) /\ Len(sols') = Len(sols) + 1 /\ Len(sols) \in Nat
      /\ sols'[Len(sols) + 1] = f /\ \A k \in 1..Len(sols) : sols'[k] = sols[k]
  BY <1>2
<1>4. \A k \in 1..(Len(sols) + 1) : k \in 1..Len(sols) \/ k = Len(sols) + 1
  BY <1>3
<1>5. \A k \in 1..Len(sols') : Shared(sols'[k])
  BY <1>1, <1>3, <1>4
<1>6. \A k \in 1..Len(sols') : (Shared(sols[k]))'
  BY <1>5 DEF Shared
<1>7. QED
  BY <1>3, <1>5, <1>6 DEF X

\* A solution is finished and another kind is tried.
LEMMA NextKindPreserves ==
  ASSUME CallInv, NextKind
  PROVE  CallInv'
<1>1. /\ pc = "initial" /\ building = "done" /\ Len(sols) + 1 < Len(KindsTried)
      /\ sols' = Append(sols, built) /\ kind' = KindsTried[Len(sols) + 2]
      /\ UNCHANGED <<all_orders, trucks, initial_solution_id, optimizerVars>>
  BY DEF NextKind
<1>2. BuildInv /\ FleetInv /\ LoopInv
  BY DEF CallInv
<1>3. Shared(built)
  BY <1>1, <1>2, BuiltIsShared DEF BuildInv
<1>4. /\ sols' \in Seq(Seq(VehicleType)) /\ Len(sols') = Len(sols) + 1
      /\ \A k \in 1..Len(sols') : (Shared(sols[k]))'
  BY <1>1, <1>2, <1>3, SolutionJoins
<1>5. Len(sols) \in Nat
  BY <1>2 DEF FleetInv
<1>6. kind' \in Initials_code
  <2>1. Len(sols) + 2 \in 1..Len(KindsTried)
    BY <1>1, <1>2, <1>5, KindsAreKnown DEF BuildInv
  <2>2. QED
    BY <1>1, <1>2, <2>1, KindsAreKnown DEF BuildInv
<1>7. Init'
  <2>1. all_orders \in SUBSET Order /\ trucks \in SUBSET Truck
    BY <1>2 DEF BuildInv, IInv, TypeOK
  <2>2. PhonyTruck \in trucks /\ trucks # {PhonyTruck}
    BY <1>2 DEF BuildInv
  <2>3. QED
    BY <1>1, <1>6, <2>1, <2>2 DEF NextKind, Init
<1>8. IInv' /\ RoutesFit' /\ building' = "outer"
  BY <1>7, StartsAnew DEF NextKind
<1>9. /\ UNCHANGED <<m_fleet, best_solution, m_kind, times, cycle, position, decreased,
                     from, to, pc>>
  BY <1>1 DEF optimizerVars, solutions, arguments, loops
<1>10. BuildInv'
  BY <1>1, <1>2, <1>4, <1>8, <1>9 DEF BuildInv, KindsTried, KindTold
<1>11. LoopInv'
  BY <1>2, <1>9 DEF LoopInv
<1>12. FleetInv'
  <2>1. ~Optimizing' /\ ~Optimizing
    BY <1>1, <1>9 DEF Optimizing
  <2>2. QED
    BY <1>1, <1>2, <1>4, <1>9, <2>1 DEF FleetInv
<1>13. QED
  BY <1>10, <1>11, <1>12 DEF CallInv

\* The optimizer is called with the solution that is chosen.
LEMMA CallOptimizerPreserves ==
  ASSUME CallInv, CallOptimizer
  PROVE  CallInv'
<1>1. /\ pc = "initial" /\ building = "done" /\ Len(sols) + 1 = Len(KindsTried)
      /\ sols' = Append(sols, built)
      /\ m_fleet' = Chosen(sols') /\ best_solution' = m_fleet' /\ pc' = "start"
      /\ UNCHANGED <<initial_solution_id, vars, arguments, loops>>
  BY DEF CallOptimizer
<1>2. BuildInv /\ FleetInv /\ LoopInv
  BY DEF CallInv
<1>3. UNCHANGED <<kind, all_orders, unassigned, assigned, trucks, m_unused, m_used, built,
                  truck, current_feasible, building>>
  BY <1>1 DEF vars, fleetVars
<1>4. UNCHANGED <<m_kind, times, cycle, position, decreased, from, to>>
  BY <1>1 DEF arguments, loops
<1>5. Shared(built)
  BY <1>1, <1>2, BuiltIsShared DEF BuildInv
<1>6. /\ sols' \in Seq(Seq(VehicleType)) /\ Len(sols') = Len(sols) + 1
      /\ \A k \in 1..Len(sols') : Shared(sols'[k]) /\ (Shared(sols[k]))'
  BY <1>1, <1>2, <1>3, <1>5, SolutionJoins
<1>7. Len(sols) \in Nat
  BY <1>2 DEF FleetInv
<1>8. Candidates(sols')
  BY <1>6, <1>7 DEF Candidates
<1>9. Shared(m_fleet') /\ Descends(Chosen(sols'), m_fleet')
  BY <1>1, <1>8, ChosenIs, DescendsItself
<1>10. (Derived(m_fleet))' /\ (Derived(best_solution))'
  BY <1>1, <1>3, <1>9 DEF Derived, Shared
<1>11. BuildInv'
  <2>1. IInv' /\ RoutesFit'
    <3>1. UNCHANGED vars
      BY <1>1
    <3>2. QED
      BY <1>2, <3>1, IInvInductive, RoutesFitInductive DEF BuildInv
  <2>2. QED
    BY <1>1, <1>2, <1>3, <1>4, <2>1 DEF BuildInv, KindTold
<1>12. LoopInv'
  BY <1>1, <1>2, <1>4 DEF LoopInv
<1>13. FleetInv'
  <2>1. Optimizing'
    BY <1>1 DEF Optimizing
  <2>2. QED
    BY <1>1, <1>6, <1>7, <1>10, <2>1 DEF FleetInv
<1>14. QED
  BY <1>11, <1>12, <1>13 DEF CallInv


\* The best solution is kept, or b is better: fewer vehicles, or less time.
NotWorse(b) ==
  \/ b = best_solution
  \/ Len(b) < Len(best_solution)
  \/ Len(b) = Len(best_solution) /\ FleetDuration(b) < FleetDuration(best_solution)

\* The current and the best solution after a step of the optimizer.
Stepped(f, b) == Derived(f) /\ Derived(b) /\ Len(f) = Len(b) /\ NotWorse(b)

\* What descends from a fleet of the optimizer is one as well.
LEMMA DerivedThen ==
  ASSUME NEW f, Derived(f), NEW g, Shared(g), Descends(f, g)
  PROVE  Derived(g)
  BY DescendsThen DEF Derived

\* Saving, when the solution has no more vehicles than the best one.
LEMMA SavedIs ==
  ASSUME NEW f, Derived(f), Derived(best_solution), Len(f) <= Len(best_solution),
         NEW b, b = save_if_best(f)
  PROVE  Derived(b) /\ Len(b) = Len(f) /\ NotWorse(b)
<1>1. Len(f) \in Nat /\ Len(best_solution) \in Nat
  BY DEF Derived, Shared
<1>2. CASE b = f /\ (FleetDuration(f) < FleetDuration(best_solution) \/ Len(f) < Len(best_solution))
  BY <1>1, <1>2 DEF NotWorse
<1>3. CASE b = best_solution /\ ~(Len(f) < Len(best_solution))
  BY <1>1, <1>3 DEF NotWorse
<1>4. QED
  BY <1>2, <1>3 DEF save_if_best

\* The solutions before a step of the optimizer.
LEMMA SolutionsBefore ==
  ASSUME CallInv, Optimizing
  PROVE  /\ Shared(m_fleet) /\ Derived(m_fleet)
         /\ Shared(best_solution) /\ Derived(best_solution)
         /\ Len(m_fleet) = Len(best_solution) /\ Len(m_fleet) \in Nat
         /\ all_orders # {}
  BY DEF CallInv, FleetInv, BuildInv, Derived, Shared

\* The first sort.
LEMMA StartIs ==
  ASSUME CallInv, Start
  PROVE  Stepped(m_fleet', best_solution')
<1>1. m_fleet' \in BySize(m_fleet) /\ best_solution' = best_solution /\ Optimizing
  BY DEF Start, Optimizing
<1>2. Shared(m_fleet') /\ Descends(m_fleet, m_fleet') /\ Len(m_fleet') = Len(m_fleet)
  BY <1>1, SolutionsBefore, BySizeIs
<1>3. Derived(m_fleet')
  BY <1>1, <1>2, SolutionsBefore, DerivedThen
<1>4. QED
  BY <1>1, <1>2, <1>3, SolutionsBefore DEF Stepped, NotWorse

\* One vehicle hands its orders down.
LEMMA DecreaseTruckIs ==
  ASSUME CallInv, DecreaseTruck
  PROVE  Stepped(m_fleet', best_solution')
<1>1. /\ m_fleet' = decrease_truck(m_fleet, position) /\ position <= Len(m_fleet)
      /\ best_solution' = best_solution /\ pc = "decrease" /\ Optimizing
  BY DEF DecreaseTruck, Optimizing
<1>2. position \in 1..Len(m_fleet)
  BY <1>1, SolutionsBefore DEF CallInv, LoopInv
<1>3. Shared(m_fleet') /\ Continues(m_fleet, m_fleet')
  BY <1>1, <1>2, SolutionsBefore, DecreasedIs
<1>4. Descends(m_fleet, m_fleet') /\ Len(m_fleet') = Len(m_fleet)
  <2>1. m_fleet \in Seq(VehicleType)
    BY <1>1, SolutionsBefore DEF Shared
  <2>2. QED
    BY <1>3, <2>1, ContinuingDescends DEF Continues
<1>5. Derived(m_fleet')
  BY <1>1, <1>3, <1>4, SolutionsBefore, DerivedThen
<1>6. QED
  BY <1>1, <1>4, <1>5, SolutionsBefore DEF Stepped, NotWorse

\* The vehicles without orders are deleted and the solution is saved.
LEMMA DeletedAndSaved ==
  ASSUME CallInv, Optimizing, NEW f, f = delete_empty_truck(m_fleet),
         NEW b, b = save_if_best(f)
  PROVE  Stepped(f, b)
<1>1. Shared(f) /\ Descends(m_fleet, f) /\ Len(f) <= Len(m_fleet)
  BY SolutionsBefore, DeletedIs
<1>2. Derived(f) /\ Len(f) <= Len(best_solution)
  BY <1>1, SolutionsBefore, DerivedThen
<1>3. QED
  BY <1>2, SolutionsBefore, SavedIs DEF Stepped

\* The end of the recursion.
LEMMA DecreasedEnds ==
  ASSUME CallInv, Decreased
  PROVE  Stepped(m_fleet', best_solution')
<1>1. /\ best_solution' = save_if_best(m_fleet) /\ m_fleet' \in BySize(m_fleet)
      /\ Optimizing
  BY DEF Decreased, Optimizing
<1>2. Shared(m_fleet') /\ Descends(m_fleet, m_fleet') /\ Len(m_fleet') = Len(m_fleet)
  BY <1>1, SolutionsBefore, BySizeIs
<1>3. Derived(m_fleet')
  BY <1>1, <1>2, SolutionsBefore, DerivedThen
<1>4. /\ Derived(best_solution') /\ Len(best_solution') = Len(m_fleet)
      /\ NotWorse(best_solution')
  BY <1>1, SolutionsBefore, SavedIs
<1>5. QED
  BY <1>2, <1>3, <1>4 DEF Stepped

\* A pair of vehicles.
LEMMA SwapPairIs ==
  ASSUME CallInv, SwapPair
  PROVE  Stepped(m_fleet', best_solution')
<1>1. /\ pc = "swap" /\ from <= Len(m_fleet) /\ Optimizing
      /\ m_fleet' = WithPair(m_fleet, swap_worse(m_fleet))
      /\ best_solution' \in {save_if_best(m_fleet'), best_solution}
  BY DEF SwapPair, Optimizing
<1>2. from \in 1..Len(m_fleet) /\ to \in 1..Len(m_fleet) /\ from # to
  BY <1>1, SolutionsBefore DEF CallInv, LoopInv
<1>3. Shared(m_fleet') /\ Continues(m_fleet, m_fleet')
  BY <1>1, <1>2, SolutionsBefore, PairWrittenBack
<1>4. Descends(m_fleet, m_fleet') /\ Len(m_fleet') = Len(m_fleet)
  <2>1. m_fleet \in Seq(VehicleType)
    BY <1>1, SolutionsBefore DEF Shared
  <2>2. QED
    BY <1>3, <2>1, ContinuingDescends DEF Continues
<1>5. Derived(m_fleet')
  BY <1>1, <1>3, <1>4, SolutionsBefore, DerivedThen
<1>6. CASE best_solution' = save_if_best(m_fleet')
  <2>1. Len(m_fleet') <= Len(best_solution)
    BY <1>1, <1>4, SolutionsBefore
  <2>2. /\ Derived(best_solution') /\ Len(best_solution') = Len(m_fleet')
        /\ NotWorse(best_solution')
    BY <1>1, <1>5, <1>6, <2>1, SolutionsBefore, SavedIs
  <2>3. QED
    BY <1>5, <2>2 DEF Stepped
<1>7. CASE best_solution' = best_solution
  BY <1>1, <1>4, <1>5, <1>7, SolutionsBefore DEF Stepped, NotWorse
<1>8. QED
  BY <1>1, <1>6, <1>7

\* The end of a cycle.
LEMMA CycleEndsIs ==
  ASSUME CallInv, CycleEnds
  PROVE  Stepped(m_fleet', best_solution')
<1> DEFINE f == delete_empty_truck(m_fleet)
<1>1. /\ best_solution' = save_if_best(f) /\ m_fleet' = Rotated(f) /\ Optimizing
  BY DEF CycleEnds, Optimizing
<1>2. Stepped(f, best_solution')
  BY <1>1, DeletedAndSaved
<1> HIDE DEF f
<1>3. Shared(f) /\ Derived(f)
  BY <1>2 DEF Stepped, Derived
<1>4. Shared(m_fleet') /\ Descends(f, m_fleet') /\ Len(m_fleet') = Len(f)
  BY <1>1, <1>3, SolutionsBefore, RotatedIs
<1>5. Derived(m_fleet')
  BY <1>3, <1>4, DerivedThen
<1>6. QED
  BY <1>2, <1>4, <1>5 DEF Stepped

\* The best solution is handed out, sorted.
LEMMA HandOutIs ==
  ASSUME CallInv, HandOut
  PROVE  /\ Stepped(m_fleet', best_solution') /\ best_solution' = best_solution
         /\ Len(m_fleet') = Len(best_solution)
         /\ FleetDuration(m_fleet') = FleetDuration(best_solution)
<1>1. m_fleet' \in BySize(best_solution) /\ best_solution' = best_solution /\ Optimizing
  BY DEF HandOut, Optimizing
<1>2. /\ Shared(m_fleet') /\ Descends(best_solution, m_fleet')
      /\ Len(m_fleet') = Len(best_solution)
      /\ FleetDuration(m_fleet') = FleetDuration(best_solution)
  BY <1>1, SolutionsBefore, BySizeIs
<1>3. Derived(m_fleet')
  BY <1>1, <1>2, SolutionsBefore, DerivedThen
<1>4. QED
  BY <1>1, <1>2, <1>3, SolutionsBefore DEF Stepped, NotWorse

\* Every step of the optimizer.
LEMMA OptimizeIs ==
  ASSUME CallInv, Optimize
  PROVE  Stepped(m_fleet', best_solution') /\ Optimizing /\ Optimizing' /\ pc' # "start"
<1>1. CASE Start
  BY <1>1, StartIs DEF Start, Optimizing
<1>2. CASE DecreaseTruck
  BY <1>2, DecreaseTruckIs DEF DecreaseTruck, Optimizing
<1>3. CASE DecreaseAgain
  <2>1. Optimizing /\ Optimizing' /\ pc' # "start"
    BY <1>3 DEF DecreaseAgain, Optimizing
  <2>2. m_fleet' = delete_empty_truck(m_fleet) /\ best_solution' = save_if_best(m_fleet')
    BY <1>3 DEF DecreaseAgain
  <2>3. QED
    BY <2>1, <2>2, DeletedAndSaved
<1>4. CASE Decreased
  BY <1>4, DecreasedEnds DEF Decreased, Optimizing
<1>5. CASE Cycle
  <2>1. Optimizing /\ Optimizing' /\ pc' # "start"
    BY <1>5 DEF Cycle, Optimizing
  <2>2. m_fleet' = delete_empty_truck(m_fleet) /\ best_solution' = save_if_best(m_fleet')
    BY <1>5 DEF Cycle
  <2>3. QED
    BY <2>1, <2>2, DeletedAndSaved
<1>6. CASE SwapPair
  BY <1>6, SwapPairIs DEF SwapPair, Optimizing
<1>7. CASE CycleEnds
  BY <1>7, CycleEndsIs DEF CycleEnds, Optimizing
<1>8. CASE HandOut
  BY <1>8, HandOutIs DEF HandOut, Optimizing
<1>9. QED
  BY <1>1, <1>2, <1>3, <1>4, <1>5, <1>6, <1>7, <1>8 DEF Optimize

\* The loops stay within their bounds.
LEMMA LoopsGoOn ==
  ASSUME CallInv, Optimize
  PROVE  LoopInv'
<1>1. LoopInv /\ Len(m_fleet) \in Nat
  BY OptimizeIs, SolutionsBefore DEF CallInv
<1>2. CASE Start
  BY <1>1, <1>2 DEF Start, LoopInv, arguments
<1>3. CASE DecreaseTruck
  <2>1. Len(m_fleet') = Len(m_fleet)
    <3>1. Stepped(m_fleet', best_solution') /\ best_solution' = best_solution /\ Optimizing
      BY <1>3, OptimizeIs DEF DecreaseTruck
    <3>2. QED
      BY <3>1, SolutionsBefore DEF Stepped
  <2>2. position' = position + 1 /\ position <= Len(m_fleet) /\ pc = "decrease" /\ pc' = pc
    BY <1>3 DEF DecreaseTruck
  <2>3. position' \in 2..(Len(m_fleet') + 1) /\ position' \in Nat
    BY <1>1, <2>1, <2>2 DEF LoopInv
  <2>4. decreased' \in BOOLEAN
    BY <1>3 DEF DecreaseTruck
  <2>5. UNCHANGED <<times, cycle, from, to>>
    BY <1>3 DEF DecreaseTruck, arguments
  <2>6. QED
    BY <1>1, <2>2, <2>3, <2>4, <2>5 DEF LoopInv
<1>4. CASE DecreaseAgain
  BY <1>1, <1>4 DEF DecreaseAgain, LoopInv, arguments
<1>5. CASE Decreased
  BY <1>1, <1>5 DEF Decreased, LoopInv, arguments, loops
<1>6. CASE Cycle
  <2>1. cycle' \in 0..times
    BY <1>1, <1>6 DEF Cycle, LoopInv
  <2>2. QED
    BY <1>1, <1>6, <2>1 DEF Cycle, LoopInv, arguments
<1>7. CASE SwapPair
  BY <1>1, <1>7 DEF SwapPair, LoopInv, arguments
<1>8. CASE CycleEnds
  BY <1>1, <1>8 DEF CycleEnds, LoopInv, arguments, loops
<1>9. CASE HandOut
  BY <1>1, <1>9 DEF HandOut, LoopInv, arguments, loops
<1>10. QED
  BY <1>2, <1>3, <1>4, <1>5, <1>6, <1>7, <1>8, <1>9 DEF Optimize

\* A step of the optimizer.
LEMMA SolvePreserves ==
  ASSUME CallInv, Solve
  PROVE  CallInv'
<1>1. Optimize /\ UNCHANGED <<initial_solution_id, vars, sols>>
  BY DEF Solve
<1>2. BuildInv /\ FleetInv
  BY DEF CallInv
<1>3. UNCHANGED <<kind, all_orders, unassigned, assigned, trucks, m_unused, m_used, built,
                  truck, current_feasible, building>>
  BY <1>1 DEF vars, fleetVars
<1>4. m_kind' = m_kind
  BY <1>1 DEF Optimize, Start, DecreaseTruck, DecreaseAgain, Decreased, Cycle, SwapPair,
     CycleEnds, HandOut, arguments
<1>5. Stepped(m_fleet', best_solution') /\ Optimizing /\ Optimizing' /\ pc' # "start"
  BY <1>1, OptimizeIs
<1>6. BuildInv'
  <2>1. IInv' /\ RoutesFit'
    <3>1. UNCHANGED vars
      BY <1>1
    <3>2. QED
      BY <1>2, <3>1, IInvInductive, RoutesFitInductive DEF BuildInv
  <2>2. QED
    BY <1>1, <1>2, <1>3, <1>4, <1>5, <2>1 DEF BuildInv, KindTold, Optimizing
<1>7. FleetInv'
  <2>1. (Derived(m_fleet))' /\ (Derived(best_solution))'
    BY <1>1, <1>3, <1>5 DEF Stepped, Derived, Shared
  <2>2. \A k \in 1..Len(sols') : (Shared(sols[k]))'
    <3>1. \A k \in 1..Len(sols') : Shared(sols'[k])
      BY <1>1, <1>2 DEF FleetInv
    <3>2. QED
      BY <1>3, <3>1 DEF Shared
  <2>3. QED
    BY <1>1, <1>2, <1>5, <2>1, <2>2 DEF FleetInv, Stepped
<1>8. QED
  BY <1>1, <1>6, <1>7, LoopsGoOn DEF CallInv


\* A construction fails.
LEMMA FailPreserves ==
  ASSUME CallInv, Fail
  PROVE  CallInv'
<1>1. /\ pc = "initial" /\ pc' = "failed"
      /\ UNCHANGED <<initial_solution_id, vars, sols, solutions, arguments, loops>>
  BY DEF Fail
<1>2. UNCHANGED <<kind, all_orders, unassigned, assigned, trucks, m_unused, m_used, built,
                  truck, current_feasible, building>>
  BY <1>1 DEF vars, fleetVars
<1>3. UNCHANGED <<m_fleet, best_solution, m_kind, times, cycle, position, decreased, from, to>>
  BY <1>1 DEF solutions, arguments, loops
<1>4. BuildInv'
  <2>1. IInv' /\ RoutesFit'
    <3>1. UNCHANGED vars
      BY <1>1
    <3>2. QED
      BY <3>1, IInvInductive, RoutesFitInductive DEF CallInv, BuildInv
  <2>2. QED
    BY <1>1, <1>2, <1>3, <2>1 DEF CallInv, BuildInv, KindTold
<1>5. LoopInv'
  BY <1>1, <1>3 DEF CallInv, LoopInv
<1>6. FleetInv'
  <2>1. ~Optimizing /\ ~Optimizing'
    BY <1>1 DEF Optimizing
  <2>2. \A k \in 1..Len(sols') : (Shared(sols[k]))'
    <3>1. \A k \in 1..Len(sols') : Shared(sols'[k])
      BY <1>1 DEF CallInv, FleetInv
    <3>2. QED
      BY <1>2, <3>1 DEF Shared
  <2>3. QED
    BY <1>1, <1>3, <2>1, <2>2 DEF CallInv, FleetInv
<1>7. QED
  BY <1>4, <1>5, <1>6 DEF CallInv

\* Nothing happens.
LEMMA CallStutters ==
  ASSUME CallInv, UNCHANGED callVars
  PROVE  CallInv'
<1>1. UNCHANGED <<initial_solution_id, vars, sols, solutions, arguments, loops, pc>>
  BY DEF callVars, optimizerVars
<1>2. UNCHANGED <<kind, all_orders, unassigned, assigned, trucks, m_unused, m_used, built,
                  truck, current_feasible, building>>
  BY <1>1 DEF vars, fleetVars
<1>3. UNCHANGED <<m_fleet, best_solution, m_kind, times, cycle, position, decreased, from, to>>
  BY <1>1 DEF solutions, arguments, loops
<1>4. BuildInv'
  <2>1. IInv' /\ RoutesFit'
    <3>1. UNCHANGED vars
      BY <1>1
    <3>2. QED
      BY <3>1, IInvInductive, RoutesFitInductive DEF CallInv, BuildInv
  <2>2. QED
    BY <1>1, <1>2, <1>3, <2>1 DEF CallInv, BuildInv, KindTold, KindsTried
<1>5. LoopInv'
  BY <1>1, <1>3 DEF CallInv, LoopInv
<1>6. FleetInv'
  <2>1. Optimizing' = Optimizing
    BY <1>1 DEF Optimizing
  <2>2. \A k \in 1..Len(sols') : (Shared(sols[k]))'
    <3>1. \A k \in 1..Len(sols') : Shared(sols'[k])
      BY <1>1 DEF CallInv, FleetInv
    <3>2. QED
      BY <1>2, <3>1 DEF Shared
  <2>3. ASSUME Optimizing
        PROVE  (Derived(m_fleet))' /\ (Derived(best_solution))'
    <3>1. /\ Shared(m_fleet) /\ Descends(Chosen(sols), m_fleet)
          /\ Shared(best_solution) /\ Descends(Chosen(sols), best_solution)
      BY <2>3 DEF CallInv, FleetInv, Derived
    <3>2. (Shared(m_fleet))' /\ (Shared(best_solution))'
      BY <1>2, <1>3, <3>1 DEF Shared
    <3>3. /\ Descends(Chosen(sols'), m_fleet')
          /\ Descends(Chosen(sols'), best_solution')
      BY <1>1, <1>3, <3>1
    <3>4. QED
      BY <3>2, <3>3 DEF Derived
  <2>4. pc' = "start" => m_fleet' = Chosen(sols')
    BY <1>1, <1>3 DEF CallInv, FleetInv
  <2>5. QED
    BY <1>1, <1>3, <2>1, <2>2, <2>3, <2>4 DEF CallInv, FleetInv
<1>7. QED
  BY <1>4, <1>5, <1>6 DEF CallInv

\* The invariant of the call is inductive.
LEMMA CallInvInductive == CallInv /\ [CallNext]_callVars => CallInv'
<1> SUFFICES ASSUME CallInv, [CallNext]_callVars PROVE CallInv'
  OBVIOUS
<1>1. CASE Construct
  BY <1>1, ConstructPreserves
<1>2. CASE NextKind
  BY <1>2, NextKindPreserves
<1>3. CASE CallOptimizer
  BY <1>3, CallOptimizerPreserves
<1>4. CASE Fail
  BY <1>4, FailPreserves
<1>5. CASE Solve
  BY <1>5, SolvePreserves
<1>6. CASE Terminated \/ UNCHANGED callVars
  BY <1>6, CallStutters DEF Terminated
<1>7. QED
  BY <1>1, <1>2, <1>3, <1>4, <1>5, <1>6 DEF CallNext

\* It always holds.
LEMMA CallInvHolds == CallSpec => []CallInv
  BY CallStarts, CallInvInductive, PTL DEF CallSpec

\* The types, and the pair of vehicles.
LEMMA CallTypes ==
  ASSUME CallInv
  PROVE  CallTypeOK
<1>1. LoopInv /\ FleetInv /\ BuildInv
  BY DEF CallInv
<1>2. m_kind \in Initials_code \cup {"OneTruck"}
  BY <1>1, CallAssumption DEF BuildInv, KindTold
<1>3. \A f \in {m_fleet, best_solution} : \A k \in DOMAIN f :
        f[k].idx \in trucks /\ f[k].orders \subseteq Order
  <2>1. CASE Optimizing
    <3>1. ASSUME NEW f \in {m_fleet, best_solution}, NEW k \in DOMAIN f
          PROVE  f[k].idx \in trucks /\ f[k].orders \subseteq Order
      <4>1. Shared(f)
        BY <2>1, SolutionsBefore
      <4>2. k \in 1..Len(f) /\ f[k].idx \in trucks /\ f[k] \in VehicleType
        BY <4>1 DEF Shared
      <4>3. QED
        BY <4>2, VehicleFacts
    <3>2. QED
      BY <3>1
  <2>2. CASE ~Optimizing
    <3>1. m_fleet = <<>> /\ best_solution = <<>> /\ DOMAIN <<>> = {}
      BY <1>1, <2>2 DEF FleetInv
    <3>2. QED
      BY <3>1
  <2>3. QED
    BY <2>1, <2>2
<1>4. QED
  BY <1>1, <1>2, <1>3 DEF CallTypeOK, LoopInv

\* No order is lost or served twice.
LEMMA CallKeepsOrders ==
  ASSUME CallInv
  PROVE  OrdersAreKept
  BY SolutionsBefore DEF OrdersAreKept, Shared

\* What descends from a solution violates no more, if travel times are ordinary.
LEMMA DescendantViolatesNoMore ==
  ASSUME OrdinaryTimes, NEW f, Shared(f), NEW g, Shared(g), Descends(f, g)
  PROVE  /\ FleetTwv(g) \in Nat /\ FleetTwv(f) \in Nat /\ FleetTwv(g) <= FleetTwv(f)
         /\ FleetCv(g) \in Nat /\ FleetCv(f) \in Nat /\ FleetCv(g) <= FleetCv(f)
         /\ \A k \in DOMAIN g :
              is_feasible(g[k]) \/ \E l \in DOMAIN f : g[k].idx = f[l].idx /\ ~is_feasible(f[l])
<1> DEFINE n == Len(f)
           m == Len(g)
           a == Twvs(f)
           b == Twvs(g)
           c == Cvs(f)
           d == Cvs(g)
<1>1. PICK p \in [1..m -> 1..n] :
        /\ \A j, k \in 1..m : p[j] = p[k] => j = k
        /\ \A k \in 1..m : Becomes(f[p[k]], g[k])
  BY DEF Descends
<1>2. /\ f \in Seq(VehicleType) /\ n \in Nat /\ g \in Seq(VehicleType) /\ m \in Nat
      /\ DOMAIN f = 1..n /\ DOMAIN g = 1..m
      /\ \A k \in 1..n : Fillable(f[k]) /\ f[k] \in VehicleType
      /\ \A k \in 1..m : Fillable(g[k]) /\ g[k] \in VehicleType
  BY DEF Shared
<1>3. \A k \in 1..m : p[k] \in 1..n /\ ViolatesNoMore(f[p[k]], g[k]) /\ g[k].idx = f[p[k]].idx
  BY <1>1 DEF Becomes
<1>4. \A k \in 1..n : twvTot(f[k]) \in Nat /\ cvTot(f[k]) \in Nat
  BY <1>2, IntactTravels, VehicleFigures DEF Fillable
<1>5. FleetTwv(f) = SumOf(n, a) /\ FleetCv(f) = SumOf(n, c)
  BY <1>2, FiguresAreSums
<1>6. FleetTwv(g) = SumOf(m, b) /\ FleetCv(g) = SumOf(m, d)
  BY <1>2, FiguresAreSums
<1> HIDE DEF n, m
<1>7. \A k \in 1..m :
        /\ twvTot(g[k]) \in Nat /\ twvTot(g[k]) <= twvTot(f[p[k]])
        /\ cvTot(g[k]) \in Nat /\ cvTot(g[k]) <= cvTot(f[p[k]])
  BY <1>3 DEF ViolatesNoMore
<1>8. a \in [1..n -> Nat] /\ b \in [1..m -> Nat] /\ \A k \in 1..m : b[k] <= a[p[k]]
  BY <1>3, <1>4, <1>7 DEF Twvs, n, m
<1>9. c \in [1..n -> Nat] /\ d \in [1..m -> Nat] /\ \A k \in 1..m : d[k] <= c[p[k]]
  BY <1>3, <1>4, <1>7 DEF Cvs, n, m
<1> HIDE DEF a, b, c, d
<1>10. FleetTwv(g) \in Nat /\ FleetTwv(f) \in Nat /\ FleetTwv(g) <= FleetTwv(f)
  <2>1. n \in Nat /\ m \in Nat /\ p \in [1..m -> 1..n]
        /\ \A j, k \in 1..m : p[j] = p[k] => j = k
    BY <1>1, <1>2
  <2>2. SumOf(m, b) \in Nat /\ SumOf(n, a) \in Nat /\ SumOf(m, b) <= SumOf(n, a)
    BY <1>8, <2>1, SumsCompare
  <2>3. QED
    BY <1>5, <1>6, <2>2
<1>11. FleetCv(g) \in Nat /\ FleetCv(f) \in Nat /\ FleetCv(g) <= FleetCv(f)
  <2>1. n \in Nat /\ m \in Nat /\ p \in [1..m -> 1..n]
        /\ \A j, k \in 1..m : p[j] = p[k] => j = k
    BY <1>1, <1>2
  <2>2. SumOf(m, d) \in Nat /\ SumOf(n, c) \in Nat /\ SumOf(m, d) <= SumOf(n, c)
    BY <1>9, <2>1, SumsCompare
  <2>3. QED
    BY <1>5, <1>6, <2>2
<1>12. ASSUME NEW k \in DOMAIN g, ~is_feasible(g[k])
       PROVE  \E l \in DOMAIN f : g[k].idx = f[l].idx /\ ~is_feasible(f[l])
  <2>1. /\ k \in 1..m /\ p[k] \in DOMAIN f /\ ViolatesNoMore(f[p[k]], g[k])
        /\ g[k].idx = f[p[k]].idx
    BY <1>2, <1>3
  <2>2. SameVehicle(f[p[k]], g[k]) /\ f[p[k]] \in VehicleType /\ g[k] \in VehicleType
    BY <1>2, <2>1 DEF Fillable, SameVehicle
  <2>3. ~is_feasible(f[p[k]])
    BY <1>12, <2>1, <2>2, NoMoreIsFeasible
  <2>4. QED
    BY <2>1, <2>3
<1>13. QED
  BY <1>10, <1>11, <1>12

\* The sums of violations do not grow either.
LEMMA CallAddsNoViolations ==
  ASSUME OrdinaryTimes, CallInv
  PROVE  NoNewViolations
<1> SUFFICES ASSUME Optimizing
             PROVE  /\ FleetTwv(m_fleet) + FleetCv(m_fleet)
                         <= FleetTwv(Chosen(sols)) + FleetCv(Chosen(sols))
                    /\ \A k \in DOMAIN m_fleet :
                         is_feasible(m_fleet[k])
                           \/ \E l \in DOMAIN Chosen(sols) :
                                /\ m_fleet[k].idx = Chosen(sols)[l].idx
                                /\ ~is_feasible(Chosen(sols)[l])
  BY DEF NoNewViolations
<1> DEFINE c == Chosen(sols)
<1>1. Candidates(sols)
  BY DEF CallInv, FleetInv, Candidates
<1>2. Shared(c)
  BY <1>1, ChosenIs
<1>3. Shared(m_fleet) /\ Descends(c, m_fleet)
  BY SolutionsBefore DEF Derived
<1> HIDE DEF c
<1>4. /\ FleetTwv(m_fleet) \in Nat /\ FleetTwv(c) \in Nat /\ FleetTwv(m_fleet) <= FleetTwv(c)
      /\ FleetCv(m_fleet) \in Nat /\ FleetCv(c) \in Nat /\ FleetCv(m_fleet) <= FleetCv(c)
  BY <1>2, <1>3, DescendantViolatesNoMore
<1>5. \A k \in DOMAIN m_fleet :
        is_feasible(m_fleet[k])
          \/ \E l \in DOMAIN c : m_fleet[k].idx = c[l].idx /\ ~is_feasible(c[l])
  BY <1>2, <1>3, DescendantViolatesNoMore
<1>6. FleetTwv(m_fleet) + FleetCv(m_fleet) <= FleetTwv(c) + FleetCv(c)
  BY <1>4
<1>7. QED
  BY <1>5, <1>6 DEF c

\* Whatever the problem, the kind and the number of cycles: the optimizer
\* shares out every order once, and violates nothing that the solution it
\* started from did not violate, provided that travel times are ordinary
\* (decrease_truck, swap_worse, delete_empty_truck).
THEOREM SolutionsStaySound ==
  ASSUME OrdinaryTimes
  PROVE  CallSpec => []SolutionsAreSound
<1>1. CallInv => SolutionsAreSound
  BY CallTypes, CallKeepsOrders, CallAddsNoViolations DEF SolutionsAreSound
<1>2. QED
  BY <1>1, CallInvHolds, PTL

\* The part of it that does not need ordinary travel times.
THEOREM OptimizerKeepsOrders == CallSpec => [](CallTypeOK /\ OrdersAreKept)
<1>1. CallInv => CallTypeOK /\ OrdersAreKept
  BY CallTypes, CallKeepsOrders
<1>2. QED
  BY <1>1, CallInvHolds, PTL

\* The optimizer starts from a solution none of the built ones is less than:
\* Solution::operator< orders them (get_initial_solution).
THEOREM LeastIsChosen == CallSpec => []StartsFromLeast
<1>1. CallInv => StartsFromLeast
  <2> SUFFICES ASSUME CallInv, pc = "start"
               PROVE  \A k \in DOMAIN sols : ~Less(sols[k], m_fleet)
    BY DEF StartsFromLeast
  <2>1. Optimizing /\ m_fleet = Chosen(sols)
    BY DEF Optimizing, CallInv, FleetInv
  <2>2. Candidates(sols) /\ DOMAIN sols = 1..Len(sols)
    BY <2>1 DEF CallInv, FleetInv, Candidates
  <2>3. LeastOf(sols, Len(sols), m_fleet)
    BY <2>1, <2>2, ChosenIs
  <2>4. QED
    BY <2>2, <2>3 DEF LeastOf
<1>2. QED
  BY <1>1, CallInvHolds, PTL


\* A step that leaves the best solution and does not end.
LEMMA NothingShown ==
  ASSUME UNCHANGED best_solution, pc # "done", pc' # "done"
  PROVE  UNCHANGED Search!vars
  BY DEF Search!vars

\* A step that replaces the best solution.
LEMMA ImprovementShown ==
  ASSUME CallInv, Optimizing, NotWorse(best_solution'), Shared(best_solution'),
         pc # "done", pc' # "done"
  PROVE  Search!Next \/ UNCHANGED Search!vars
<1>1. CASE best_solution' = best_solution
  BY <1>1, NothingShown
<1>2. CASE best_solution' # best_solution
  <2> DEFINE old == <<Len(best_solution), FleetDuration(best_solution)>>
             new == <<Len(best_solution'), FleetDuration(best_solution')>>
  <2>1. Len(best_solution') \in Nat /\ FleetDuration(best_solution') \in Nat
    BY SharedTravels, FiguresAreNatural DEF Travelling
  <2>2. \/ Len(best_solution') < Len(best_solution)
        \/ /\ Len(best_solution') = Len(best_solution)
           /\ FleetDuration(best_solution') < FleetDuration(best_solution)
    BY <1>2 DEF NotWorse
  <2>3. Search!Better(new, old)
    BY <2>2 DEF Search!Better
  <2>4. new \in Nat \X Nat
    BY <2>1
  <2>5. OrdersOn(best_solution') = OrdersOn(best_solution)
    BY SolutionsBefore DEF Shared
  <2>6. Search!Improve
    BY <2>3, <2>4, <2>5 DEF Search!Improve
  <2>7. QED
    BY <2>6 DEF Search!Next
<1>3. QED
  BY <1>1, <1>2

\* A step of the call, while the optimizer runs.
LEMMA CallImproves ==
  ASSUME CallInv, Optimizing, [CallNext]_callVars
  PROVE  Search!Next \/ UNCHANGED Search!vars
<1>1. CASE UNCHANGED callVars \/ Terminated
  <2>1. UNCHANGED <<m_fleet, best_solution, pc>>
    BY <1>1 DEF Terminated, callVars, optimizerVars, solutions
  <2>2. QED
    BY <2>1 DEF Search!vars
<1>2. CASE Construct \/ NextKind \/ CallOptimizer \/ Fail
  BY <1>2 DEF Construct, NextKind, CallOptimizer, Fail, Optimizing
<1>3. CASE Solve /\ ~HandOut
  <2>1. Optimize /\ pc # "done" /\ pc' # "done"
    BY <1>3 DEF Solve, Optimize, Start, DecreaseTruck, DecreaseAgain, Decreased, Cycle,
       SwapPair, CycleEnds
  <2>2. NotWorse(best_solution') /\ Shared(best_solution')
    BY <2>1, OptimizeIs DEF Stepped, Derived
  <2>3. QED
    BY <2>1, <2>2, ImprovementShown
<1>4. CASE HandOut
  <2>1. pc # "done" /\ pc' = "done" /\ best_solution' = best_solution
    BY <1>4 DEF HandOut
  <2>2. Len(m_fleet') = Len(best_solution) /\ FleetDuration(m_fleet') = FleetDuration(best_solution)
    BY <1>4, HandOutIs
  <2>3. Search!HandOut
    BY <2>1, <2>2 DEF Search!HandOut
  <2>4. QED
    BY <2>3 DEF Search!Next
<1>5. QED
  BY <1>1, <1>2, <1>3, <1>4 DEF CallNext

\* The optimizer implements what Improvement promises: saving a solution with
\* fewer vehicles or with less time never makes the other figure worse, as the
\* current solution never has more vehicles than the best one (save_if_best).
THEOREM OptimizerImproves == CallSpec => ImplementsImprovement
<1>1. CallInv /\ [CallNext]_callVars =>
        [Optimizing => (Search!Next \/ UNCHANGED Search!vars)]_callVars
  BY CallImproves
<1>2. QED
  BY <1>1, CallInvHolds, PTL DEF CallSpec, ImplementsImprovement

===============================================================================
