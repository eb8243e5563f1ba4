------------------------- MODULE OptimizeDriverProofs -------------------------
(***************************************************************************)
(* That the subdivisions of vrp_optimize keep a history that is true: for  *)
(* all vehicles, orders and dates, and whatever the optimization of each   *)
(* subdivision does with the orders that it may move.                      *)
(***************************************************************************)
EXTENDS OptimizeDriver, TLAPS

\* The data are rows of the queries, and the orders are those of the stops.
DataInv ==
  /\ \A v \in DOMAIN vehicles : vehicles[v] \in vehicle_rows /\ vehicles[v].id = v
  /\ DOMAIN orders \subseteq StopsOf(vehicles)
  /\ Prepared => StopsOf(vehicles) \subseteq DOMAIN orders

\* A history has the stops of every vehicle; there is none before.
HistoryInv ==
  /\ pc \in {"prepare", "verify"} => the_stops = <<>> /\ prev_orders_in_stops = {}
  /\ Prepared /\ subdivision_kind # 0 => DOMAIN the_stops = DOMAIN vehicles
  /\ pc = "subdivide" => subdivision_kind # 0
  /\ pc # "returned" => error = ""

IInv == HistoryIsKept /\ DataInv /\ HistoryInv

\* Nothing is in an empty function.
LEMMA NoDomain == DOMAIN <<>> = {} /\ Range(<<>>) = {} /\ Named(<<>>) = {}
<1>1. DOMAIN <<>> = {}
  OBVIOUS
<1>2. QED
  BY <1>1 DEF Range, Named

\* The orders that get_stops tells of, and how often.
LEMMA StopsToldOf ==
  ASSUME NEW p, NEW stops, NEW t, NEW o
  PROVE  /\ BagToSet(get_stops(p, stops, t)) \subseteq OrdersOf(p, t) \cup PickedUp(t[1], stops)
         /\ t # Phony =>
              Copies(o, get_stops(p, stops, t))
                = (IF o \in OrdersOf(p, t) THEN 2 ELSE 0)
                    + (IF o \in PickedUp(t[1], stops) THEN 1 ELSE 0)
         /\ t # Phony /\ o \in BagToSet(get_stops(p, stops, t)) =>
              get_stops(p, stops, t)[o] = Copies(o, get_stops(p, stops, t))
  BY DEF get_stops, BagToSet, Copies, EmptyBag, SetToBag

\* At the start the stops are those of the data.
LEMMA InitEstablishes == Init => IInv
<1> SUFFICES ASSUME Init PROVE IInv
  OBVIOUS
<1>1. DOMAIN orders = {} /\ DOMAIN vehicles = {} /\ DOMAIN the_stops = {}
  BY NoDomain DEF Init
<1>2. Range(orders) = {} /\ Range(vehicles) = {} /\ Range(the_stops) = {} /\ ~Prepared
  BY NoDomain DEF Init, Prepared
<1>3. TypeOK
  <2>1. Named(the_stops) = {}
    BY <1>1 DEF Named
  <2>2. QED
    BY <1>1, <1>2, <2>1 DEF Init, TypeOK
<1>4. DataInv /\ HistoryInv
  BY <1>1, <1>2 DEF Init, DataInv, HistoryInv
<1>5. QED
  BY <1>2, <1>3, <1>4 DEF IInv, HistoryIsKept, EachOrderOnOneVehicle, UnmovableStay, PickupsStay

\* The preparation keeps the stops of each vehicle that remains.
LEMMA PreparePreserves ==
  ASSUME IInv, Prepare
  PROVE  IInv'
<1>1. PICK f \in Unique(vehicle_rows) : vehicles' = Open(f)
  BY DEF Prepare
<1>2. PICK g \in Unique(order_rows) : orders' = Restrict(g, DOMAIN g \cap StopsOf(vehicles'))
  BY DEF Prepare
<1>3. /\ pc = "prepare" /\ pc' = "verify" /\ error = "" /\ the_stops = <<>>
      /\ prev_orders_in_stops = {}
      /\ UNCHANGED <<order_rows, vehicle_rows, execution_date, subdivision_kind, the_stops,
                     prev_orders_in_stops, allocated, written, return_count, error>>
  BY DEF Prepare, IInv, HistoryInv, arguments, answer
<1>4. /\ DOMAIN vehicles' \subseteq Ids(vehicle_rows)
      /\ \A v \in DOMAIN vehicles' : vehicles'[v] \in vehicle_rows /\ vehicles'[v].id = v
  BY <1>1 DEF Unique, Open, Restrict
<1>5. /\ DOMAIN orders' \subseteq Ids(order_rows) /\ DOMAIN orders' \subseteq StopsOf(vehicles')
      /\ \A o \in DOMAIN orders' : orders'[o] \in order_rows
  BY <1>2 DEF Unique, Restrict
<1>6. TypeOK'
  <2>1. Named(the_stops') = {}
    BY <1>3, NoDomain
  <2>2. Range(vehicles') \subseteq vehicle_rows /\ Range(orders') \subseteq order_rows
    BY <1>4, <1>5 DEF Range
  <2>3. QED
    BY <1>3, <1>4, <1>5, <2>1, <2>2 DEF IInv, HistoryIsKept, TypeOK, Ids
<1>7. ~Prepared'
  BY <1>3 DEF Prepared
<1>8. DataInv' /\ HistoryInv'
  BY <1>3, <1>4, <1>5, <1>7 DEF DataInv, HistoryInv, StopsOf
<1>9. QED
  BY <1>6, <1>7, <1>8 DEF IInv, HistoryIsKept, EachOrderOnOneVehicle, UnmovableStay, PickupsStay

\* The steps that leave the data leave what is said of them.
LEMMA DataStay ==
  ASSUME TypeOK, DataInv, UNCHANGED <<order_rows, vehicle_rows, orders, vehicles>>,
         Prepared' => StopsOf(vehicles) \subseteq DOMAIN orders
  PROVE  /\ DataInv'
         /\ order_rows' \in OrderData /\ vehicle_rows' \in VehicleData
         /\ DOMAIN orders' \subseteq Ids(order_rows') /\ Range(orders') \subseteq order_rows'
         /\ DOMAIN vehicles' \subseteq Ids(vehicle_rows') /\ Range(vehicles') \subseteq vehicle_rows'
         /\ StopsOf(vehicles') = StopsOf(vehicles)
         /\ AllInFleet' = AllInFleet /\ StopsDeliver' = StopsDeliver /\ InFleet' = InFleet
  BY DEF TypeOK, DataInv, StopsOf, AllInFleet, StopsDeliver, InFleet, Ids

\* A history whose stops are stops of the data, and that nothing else tells of.
LEMMA HistoryStays ==
  ASSUME IInv, UNCHANGED <<arguments, data, the_stops>>,
         prev_orders_in_stops' \subseteq DOMAIN orders,
         allocated' \in {0, return_count'},
         pc \in {"verify", "subdivide", "rows", "returned"},
         pc' \in {"subdivide", "rows", "returned"},
         pc = "verify" => ~Prepared' /\ pc' = "returned",
         pc = "returned" => pc' = "returned" /\ error' = error,
         pc' = "subdivide" => pc = "subdivide",
         pc' # "returned" => error' = ""
  PROVE  IInv'
<1> USE DEF IInv, HistoryIsKept
<1>1. Prepared' => Prepared
  BY DEF Prepared, HistoryInv
<1>2. UNCHANGED <<order_rows, vehicle_rows, execution_date, subdivision_kind, orders, vehicles>>
  BY DEF arguments, data
<1>3. /\ DataInv' /\ StopsOf(vehicles') = StopsOf(vehicles) /\ AllInFleet' = AllInFleet
      /\ StopsDeliver' = StopsDeliver /\ InFleet' = InFleet
      /\ order_rows' \in OrderData /\ vehicle_rows' \in VehicleData
      /\ DOMAIN orders' \subseteq Ids(order_rows') /\ Range(orders') \subseteq order_rows'
      /\ DOMAIN vehicles' \subseteq Ids(vehicle_rows') /\ Range(vehicles') \subseteq vehicle_rows'
  BY <1>1, <1>2, DataStay DEF DataInv
<1>4. TypeOK'
  <2>1. Named(the_stops') \subseteq StopsOf(vehicles')
    BY <1>3 DEF TypeOK
  <2>2. QED
    BY <1>2, <1>3, <2>1 DEF TypeOK
<1>5. HistoryInv'
  BY <1>1, <1>2 DEF HistoryInv
<1>6. EachOrderOnOneVehicle'
  BY <1>1, <1>2, <1>3 DEF EachOrderOnOneVehicle
<1>7. UnmovableStay' /\ PickupsStay'
  BY <1>1, <1>2, <1>3 DEF UnmovableStay, PickupsStay, Unmovable
<1>8. QED
  BY <1>3, <1>4, <1>5, <1>6, <1>7

\* The history begins with the stops of the data.
LEMMA SubdividePreserves ==
  ASSUME IInv, Subdivide
  PROVE  IInv'
<1> USE DEF IInv, HistoryIsKept
<1>1. /\ pc = "verify" /\ pc' = "subdivide" /\ error = "" /\ error' = ""
      /\ StopsOf(vehicles) \subseteq DOMAIN orders /\ subdivision_kind # 0
      /\ the_stops' = [v \in DOMAIN vehicles |-> vehicles[v].stops]
      /\ UNCHANGED <<order_rows, vehicle_rows, execution_date, subdivision_kind, orders, vehicles,
                     prev_orders_in_stops, allocated, written, return_count>>
  BY DEF Subdivide, HistoryInv, arguments, data, answer, get_initial_stops
<1>2. /\ DataInv' /\ StopsOf(vehicles') = StopsOf(vehicles) /\ AllInFleet' = AllInFleet
      /\ StopsDeliver' = StopsDeliver /\ InFleet' = InFleet
      /\ order_rows' \in OrderData /\ vehicle_rows' \in VehicleData
      /\ DOMAIN orders' \subseteq Ids(order_rows') /\ Range(orders') \subseteq order_rows'
      /\ DOMAIN vehicles' \subseteq Ids(vehicle_rows') /\ Range(vehicles') \subseteq vehicle_rows'
  BY <1>1, DataStay
<1>3. TypeOK'
  <2>1. Named(the_stops') \subseteq StopsOf(vehicles')
    BY <1>1 DEF Named, StopsOf
  <2>2. QED
    BY <1>1, <1>2, <2>1 DEF TypeOK
<1>4. EachOrderOnOneVehicle'
  <2>1. DOMAIN the_stops' = DOMAIN vehicles /\ \A v \in DOMAIN vehicles : the_stops'[v] = vehicles[v].stops
    BY <1>1
  <2>2. SUFFICES ASSUME StopsDeliver
                 PROVE  /\ \A v \in DOMAIN vehicles :
                             \A o \in BagToSet(the_stops'[v]) : the_stops'[v][o] = 2
                        /\ \A v, w \in DOMAIN vehicles :
                             v # w => BagToSet(the_stops'[v]) \cap BagToSet(the_stops'[w]) = {}
    BY <1>2, <2>1 DEF EachOrderOnOneVehicle
  <2>3. QED
    BY <2>1, <2>2 DEF StopsDeliver
<1>5. UnmovableStay' /\ PickupsStay'
  <2>1. SUFFICES ASSUME NEW v \in InFleet, NEW o \in BagToSet(vehicles[v].stops)
                 PROVE  Copies(o, the_stops'[v]) = vehicles[v].stops[o]
    <3>1. \A v \in InFleet' : v \in InFleet
      BY <1>2
    <3>2. \A o : Unmovable(o)' = Unmovable(o)
      BY <1>1 DEF Unmovable
    <3>3. vehicles' = vehicles
      BY <1>1
    <3>4. QED
      BY <3>1, <3>2, <3>3 DEF UnmovableStay, PickupsStay
  <2>2. v \in DOMAIN vehicles
    BY DEF InFleet
  <2>3. QED
    BY <1>1, <2>1, <2>2 DEF Copies
<1>6. HistoryInv'
  BY <1>1 DEF HistoryInv
<1>7. QED
  BY <1>2, <1>3, <1>4, <1>5, <1>6

\* When everything is refused there is no history.
LEMMA RefuseAllPreserves ==
  ASSUME IInv, RefuseAll
  PROVE  IInv'
<1> USE DEF IInv, HistoryIsKept
<1>1. /\ pc = "verify" /\ pc' = "returned" /\ the_stops = <<>> /\ the_stops' = <<>>
      /\ StopsOf(vehicles) \subseteq DOMAIN orders /\ subdivision_kind = 0
      /\ UNCHANGED <<order_rows, vehicle_rows, execution_date, subdivision_kind, orders, vehicles,
                     prev_orders_in_stops, allocated, written, return_count>>
  BY DEF RefuseAll, HistoryInv, arguments, data, answer
<1>2. /\ DataInv' /\ StopsOf(vehicles') = StopsOf(vehicles)
      /\ order_rows' \in OrderData /\ vehicle_rows' \in VehicleData
      /\ DOMAIN orders' \subseteq Ids(order_rows') /\ Range(orders') \subseteq order_rows'
      /\ DOMAIN vehicles' \subseteq Ids(vehicle_rows') /\ Range(vehicles') \subseteq vehicle_rows'
  BY <1>1, DataStay
<1>3. TypeOK'
  BY <1>1, <1>2, NoDomain DEF TypeOK
<1>4. EachOrderOnOneVehicle'
  BY <1>1, NoDomain DEF EachOrderOnOneVehicle
<1>5. UnmovableStay' /\ PickupsStay' /\ HistoryInv'
  BY <1>1 DEF UnmovableStay, PickupsStay, HistoryInv
<1>6. QED
  BY <1>2, <1>3, <1>4, <1>5

\* Each order goes to one truck at most.
LEMMA ProcessAllPreserves ==
  ASSUME IInv, ProcessAll
  PROVE  IInv'
<1> USE DEF IInv, HistoryIsKept
<1> DEFINE stops == get_initial_stops
<1>1. PICK p \in Placements(DOMAIN vehicles, DOMAIN orders, stops) :
        \E phony \in PhonyLeft(p) :
          the_stops' = [t \in Trucks(DOMAIN vehicles) \cup (IF phony THEN {Phony} ELSE {}) |->
                          get_stops(p, stops, t)]
  BY DEF ProcessAll
<1>2. PICK extra \in SUBSET {Phony} :
        the_stops' = [t \in Trucks(DOMAIN vehicles) \cup extra |-> get_stops(p, stops, t)]
  BY <1>1
<1>3. /\ pc = "verify" /\ pc' = "rows" /\ error = "" /\ error' = ""
      /\ StopsOf(vehicles) \subseteq DOMAIN orders /\ subdivision_kind = 0
      /\ UNCHANGED <<order_rows, vehicle_rows, execution_date, subdivision_kind, orders, vehicles,
                     prev_orders_in_stops, allocated, written, return_count>>
  BY DEF ProcessAll, HistoryInv, arguments, data, answer
<1>4. /\ DataInv' /\ StopsOf(vehicles') = StopsOf(vehicles)
      /\ AllInFleet' = AllInFleet /\ StopsDeliver' = StopsDeliver
      /\ order_rows' \in OrderData /\ vehicle_rows' \in VehicleData
      /\ DOMAIN orders' \subseteq Ids(order_rows') /\ Range(orders') \subseteq order_rows'
      /\ DOMAIN vehicles' \subseteq Ids(vehicle_rows') /\ Range(vehicles') \subseteq vehicle_rows'
  BY <1>3, DataStay
<1>5. \A t : OrdersOf(p, t) \subseteq DOMAIN orders
  BY <1>1 DEF Placements, OrdersOf
<1>6. \A t \in Trucks(DOMAIN vehicles) :
        t[1] \in DOMAIN vehicles /\ t[2] \in 1..vehicles[t[1]].cant_v
  BY DEF Trucks
<1>7. \A v \in DOMAIN vehicles : BagToSet(Given(v, stops)) \subseteq BagToSet(vehicles[v].stops)
  BY DEF Given, get_initial_stops, BagToSet, EmptyBag, SetToBag
<1>8. ASSUME NEW t \in DOMAIN the_stops'
      PROVE  BagToSet(the_stops'[t]) \subseteq StopsOf(vehicles)
  <2>1. the_stops'[t] = get_stops(p, stops, t)
    BY <1>2
  <2>2. CASE t = Phony
    BY <2>1, <2>2 DEF get_stops, BagToSet, EmptyBag, SetToBag
  <2>3. CASE t # Phony
    <3>1. t[1] \in DOMAIN vehicles
      BY <1>2, <1>6, <2>3
    <3>2. PickedUp(t[1], stops) \subseteq StopsOf(vehicles)
      BY <1>7, <3>1 DEF PickedUp, StopsOf
    <3>3. OrdersOf(p, t) \subseteq StopsOf(vehicles)
      BY <1>5 DEF DataInv
    <3>4. QED
      BY <2>1, <3>2, <3>3, StopsToldOf
  <2>4. QED
    BY <2>2, <2>3
<1>9. TypeOK'
  <2>1. Named(the_stops') \subseteq StopsOf(vehicles')
    BY <1>4, <1>8 DEF Named
  <2>2. QED
    BY <1>3, <1>4, <2>1 DEF TypeOK
<1>10. ASSUME StopsDeliver, NEW t \in DOMAIN the_stops', NEW o \in BagToSet(the_stops'[t])
       PROVE  the_stops'[t][o] = 2 /\ o \in OrdersOf(p, t)
  <2>1. the_stops'[t] = get_stops(p, stops, t)
    BY <1>2
  <2>2. t # Phony
    BY <1>10, <2>1 DEF get_stops, BagToSet, EmptyBag, SetToBag
  <2>3. t[1] \in DOMAIN vehicles
    BY <1>2, <1>6, <2>2
  <2>4. PickedUp(t[1], stops) = {}
    BY <1>10, <2>3 DEF PickedUp, Given, get_initial_stops, StopsDeliver, BagToSet, EmptyBag, SetToBag
  <2>5. o \in OrdersOf(p, t)
    BY <1>10, <2>1, <2>4, StopsToldOf
  <2>6. QED
    BY <1>10, <2>1, <2>2, <2>4, <2>5, StopsToldOf
<1>11. EachOrderOnOneVehicle'
  <2>1. \A t, u : t # u => OrdersOf(p, t) \cap OrdersOf(p, u) = {}
    BY DEF OrdersOf
  <2>2. QED
    BY <1>4, <1>10, <2>1 DEF EachOrderOnOneVehicle
<1>12. UnmovableStay' /\ PickupsStay' /\ HistoryInv'
  BY <1>3 DEF UnmovableStay, PickupsStay, HistoryInv
<1>13. QED
  BY <1>4, <1>9, <1>11, <1>12

\* The orders of a subdivision are orders of the data.
LEMMA ServedAreNamed ==
  ASSUME TypeOK, DataInv, HistoryInv, pc = "subdivide", NEW active \in SUBSET DOMAIN vehicles
  PROVE  /\ OrdersInStops(active) \subseteq StopsOf(vehicles)
         /\ StopsOf(vehicles) \subseteq DOMAIN orders
         /\ DOMAIN the_stops = DOMAIN vehicles /\ Prepared /\ subdivision_kind # 0 /\ error = ""
<1>1. DOMAIN the_stops = DOMAIN vehicles /\ Prepared /\ subdivision_kind # 0 /\ error = ""
  BY DEF HistoryInv, Prepared
<1>2. OrdersInStops(active) \subseteq Named(the_stops)
  BY <1>1 DEF OrdersInStops, Named
<1>3. QED
  BY <1>1, <1>2 DEF TypeOK, DataInv

\* The vehicles of a subdivision exchange their orders among themselves.
LEMMA ProcessTimePreserves ==
  ASSUME IInv, ProcessTime
  PROVE  IInv'
<1> USE DEF IInv, HistoryIsKept
<1> DEFINE active == Active(Time)
           served == OrdersInStops(active)
<1>1. PICK p \in Placements(active, served, the_stops) :
        \E phony \in PhonyLeft(p) :
          /\ the_stops' = update_stops(active, p)
          /\ IF phony THEN error' = "AssertFailedException" /\ pc' = "returned"
                      ELSE UNCHANGED <<error, pc>>
  BY DEF ProcessTime
<1>2. /\ pc = "subdivide" /\ prev_orders_in_stops' = served /\ ~Refused(active, the_stops)
      /\ UNCHANGED <<order_rows, vehicle_rows, execution_date, subdivision_kind, orders, vehicles,
                     allocated, written, return_count>>
  BY DEF ProcessTime, Process, arguments, data, answer
<1>3. active \subseteq DOMAIN vehicles
  BY DEF Active
<1>4. /\ error = "" /\ subdivision_kind # 0 /\ Prepared
      /\ DOMAIN the_stops = DOMAIN vehicles
      /\ StopsOf(vehicles) \subseteq DOMAIN orders /\ served \subseteq StopsOf(vehicles)
  BY <1>2, <1>3, ServedAreNamed
<1>5. /\ pc' \in {"subdivide", "returned"} /\ (pc' # "returned" => error' = "")
  BY <1>1, <1>2, <1>4
<1>6. /\ DOMAIN p = served
      /\ \A o \in served : \A v \in active : Unmovable(o) /\ o \in Delivered(v, the_stops) =>
           p[o] = IF vehicles[v].ok THEN <<v, 1>> ELSE Nowhere
  BY DEF Placements
<1> HIDE DEF active, served
<1>7. DOMAIN the_stops' = DOMAIN vehicles
  BY <1>1, <1>4 DEF update_stops
<1>8. \A t : OrdersOf(p, t) \subseteq served
  BY <1>6 DEF OrdersOf
<1>9. /\ DataInv' /\ StopsOf(vehicles') = StopsOf(vehicles) /\ AllInFleet' = AllInFleet
      /\ StopsDeliver' = StopsDeliver /\ InFleet' = InFleet
      /\ order_rows' \in OrderData /\ vehicle_rows' \in VehicleData
      /\ DOMAIN orders' \subseteq Ids(order_rows') /\ Range(orders') \subseteq order_rows'
      /\ DOMAIN vehicles' \subseteq Ids(vehicle_rows') /\ Range(vehicles') \subseteq vehicle_rows'
  BY <1>2, <1>4, DataStay
<1>10. \A v \in active : PickedUp(v, the_stops) \subseteq BagToSet(the_stops[v])
                           /\ BagToSet(the_stops[v]) \subseteq served
  BY DEF PickedUp, Given, BagToSet, EmptyBag, SetToBag, served, OrdersInStops
<1>11. ASSUME NEW v \in DOMAIN vehicles, the_stops'[v] # the_stops[v]
       PROVE  /\ v \in active
              /\ \E k : the_stops'[v] = get_stops(p, the_stops, <<v, k>>)
  <2>1. v \in DOMAIN the_stops
    BY <1>4
  <2>2. PICK k \in 1..vehicles[v].cant_v : <<v, k>> \in Trucks(active)
    BY <1>1, <1>11, <2>1 DEF update_stops
  <2>3. the_stops'[v] = get_stops(p, the_stops, <<v, vehicles[v].cant_v>>)
    BY <1>1, <2>1, <2>2 DEF update_stops
  <2>4. v \in active
    BY <2>2 DEF Trucks
  <2>5. QED
    BY <2>3, <2>4
<1>12. ASSUME NEW v \in InFleet, v \in active
       PROVE  the_stops'[v] = get_stops(p, the_stops, <<v, 1>>) /\ Given(v, the_stops) = the_stops[v]
  <2>1. v \in DOMAIN vehicles /\ vehicles[v].cant_v = 1 /\ vehicles[v].ok
    BY DEF InFleet
  <2>2. 1 \in 1..vehicles[v].cant_v /\ <<v, 1>> \in Trucks(active)
    BY <1>12, <2>1 DEF Trucks
  <2>3. \E k \in 1..vehicles[v].cant_v : <<v, k>> \in Trucks(active)
    BY <2>1, <2>2
  <2>4. the_stops'[v] = get_stops(p, the_stops, <<v, vehicles[v].cant_v>>)
    BY <1>1, <1>4, <2>1, <2>3 DEF update_stops
  <2>5. QED
    BY <2>1, <2>4 DEF Given
<1>13. TypeOK'
  <2>1. ASSUME NEW v \in DOMAIN vehicles
        PROVE  BagToSet(the_stops'[v]) \subseteq StopsOf(vehicles)
    <3>1. CASE the_stops'[v] = the_stops[v]
      BY <1>4, <3>1 DEF TypeOK, Named
    <3>2. CASE the_stops'[v] # the_stops[v]
      <4>1. PICK k : the_stops'[v] = get_stops(p, the_stops, <<v, k>>)
        BY <1>11, <3>2
      <4>2. v \in active
        BY <1>11, <3>2
      <4>3. OrdersOf(p, <<v, k>>) \cup PickedUp(v, the_stops) \subseteq served
        BY <1>8, <1>10, <4>2
      <4>4. BagToSet(the_stops'[v]) \subseteq OrdersOf(p, <<v, k>>) \cup PickedUp(v, the_stops)
        BY <4>1, StopsToldOf
      <4>5. QED
        BY <1>4, <4>3, <4>4
    <3>3. QED
      BY <3>1, <3>2
  <2>2. Named(the_stops') \subseteq StopsOf(vehicles')
    BY <1>7, <1>9, <2>1 DEF Named
  <2>3. QED
    BY <1>2, <1>4, <1>5, <1>9, <2>2 DEF TypeOK
<1>14. EachOrderOnOneVehicle'
  <2>1. SUFFICES ASSUME AllInFleet, StopsDeliver
                 PROVE  /\ \A v \in DOMAIN vehicles :
                             \A o \in BagToSet(the_stops'[v]) : the_stops'[v][o] = 2
                        /\ \A v, w \in DOMAIN vehicles :
                             v # w => BagToSet(the_stops'[v]) \cap BagToSet(the_stops'[w]) = {}
    BY <1>7, <1>9 DEF EachOrderOnOneVehicle
  <2>2. /\ \A v \in DOMAIN vehicles : \A o \in BagToSet(the_stops[v]) : the_stops[v][o] = 2
        /\ \A v, w \in DOMAIN vehicles :
             v # w => BagToSet(the_stops[v]) \cap BagToSet(the_stops[w]) = {}
    BY <1>4, <2>1 DEF EachOrderOnOneVehicle
  <2>3. \A v \in DOMAIN vehicles : v \in InFleet
    BY <2>1 DEF AllInFleet, InFleet, DataInv
  <2>4. ASSUME NEW v \in DOMAIN vehicles, v \in active
        PROVE  /\ BagToSet(the_stops'[v]) = OrdersOf(p, <<v, 1>>)
               /\ \A o \in BagToSet(the_stops'[v]) : the_stops'[v][o] = 2
    <3>1. the_stops'[v] = get_stops(p, the_stops, <<v, 1>>) /\ Given(v, the_stops) = the_stops[v]
      BY <1>12, <2>3, <2>4
    <3>2. PickedUp(v, the_stops) = {}
      BY <2>2, <3>1 DEF PickedUp
    <3>3. <<v, 1>> # Phony
      <4>1. v \in Nat
        BY VehicleIds, <1>4, <2>4 DEF DataInv, TypeOK
      <4>2. QED
        BY <4>1 DEF Phony
    <3>4. the_stops'[v] = [o \in OrdersOf(p, <<v, 1>>) \cup {} |-> 2]
      BY <3>1, <3>2, <3>3 DEF get_stops
    <3>5. QED
      BY <3>4 DEF BagToSet
  <2>5. ASSUME NEW v \in DOMAIN vehicles, v \notin active
        PROVE  the_stops'[v] = the_stops[v] /\ BagToSet(the_stops[v]) \cap served = {}
    <3>1. the_stops'[v] = the_stops[v]
      BY <1>11, <2>5
    <3>2. \A w \in active : BagToSet(the_stops[v]) \cap BagToSet(the_stops[w]) = {}
      BY <1>3, <2>2, <2>5
    <3>3. QED
      BY <3>1, <3>2 DEF served, OrdersInStops
  <2>6. ASSUME NEW v \in DOMAIN vehicles, NEW w \in DOMAIN vehicles, v # w,
               NEW o, o \in BagToSet(the_stops'[v]), o \in BagToSet(the_stops'[w])
        PROVE  FALSE
    <3>1. CASE v \in active /\ w \in active
      <4>1. o \in OrdersOf(p, <<v, 1>>) /\ o \in OrdersOf(p, <<w, 1>>)
        BY <2>4, <2>6, <3>1
      <4>2. QED
        BY <2>6, <4>1 DEF OrdersOf
    <3>2. CASE v \in active /\ w \notin active
      <4>1. o \in served
        BY <1>8, <2>4, <2>6, <3>2
      <4>2. QED
        BY <2>5, <2>6, <3>2, <4>1
    <3>3. CASE v \notin active /\ w \in active
      <4>1. o \in served
        BY <1>8, <2>4, <2>6, <3>3
      <4>2. QED
        BY <2>5, <2>6, <3>3, <4>1
    <3>4. CASE v \notin active /\ w \notin active
      BY <2>2, <2>5, <2>6, <3>4
    <3>5. QED
      BY <3>1, <3>2, <3>3, <3>4
  <2>7. ASSUME NEW v \in DOMAIN vehicles
        PROVE  \A o \in BagToSet(the_stops'[v]) : the_stops'[v][o] = 2
    <3>1. CASE v \in active
      BY <2>4, <3>1
    <3>2. CASE v \notin active
      <4>1. the_stops'[v] = the_stops[v]
        BY <2>5, <3>2
      <4>2. QED
        BY <2>2, <4>1
    <3>3. QED
      BY <3>1, <3>2
  <2>8. QED
    BY <2>6, <2>7
<1>15. ASSUME NEW v \in InFleet, NEW o, v \in active
       PROVE  /\ Copies(o, the_stops[v]) # 3
              /\ Copies(o, the_stops[v]) = 1 => Copies(o, the_stops'[v]) \in {1, 3}
              /\ Copies(o, the_stops[v]) = 2 /\ Unmovable(o) => Copies(o, the_stops'[v]) = 2
  <2>1. the_stops'[v] = get_stops(p, the_stops, <<v, 1>>) /\ Given(v, the_stops) = the_stops[v]
    BY <1>12, <1>15
  <2>2. vehicles[v].ok /\ v \in Nat
    <3>1. v \in DOMAIN vehicles /\ vehicles[v].ok
      BY DEF InFleet
    <3>2. vehicles[v].id = v /\ vehicles[v] \in vehicle_rows /\ vehicle_rows \in VehicleData
      BY <3>1 DEF DataInv, TypeOK
    <3>3. QED
      BY VehicleIds, <3>1, <3>2
  <2>3. <<v, 1>> # Phony
    BY <2>2 DEF Phony
  <2>4. Copies(o, the_stops'[v])
          = (IF o \in OrdersOf(p, <<v, 1>>) THEN 2 ELSE 0)
              + (IF o \in PickedUp(v, the_stops) THEN 1 ELSE 0)
    BY <2>1, <2>3, StopsToldOf
  <2>5. CASE o \notin BagToSet(the_stops[v])
    BY <2>5 DEF Copies
  <2>6. CASE o \in BagToSet(the_stops[v])
    <3>1. Copies(o, the_stops[v]) = the_stops[v][o] /\ o \in served
      BY <1>10, <1>15, <2>6 DEF Copies
    <3>2. ~(the_stops[v][o] > 2)
      BY <1>2, <1>15, <2>1, <2>6 DEF Refused
    <3>3. the_stops[v][o] = 1 <=> o \in PickedUp(v, the_stops)
      BY <2>1, <2>6 DEF PickedUp
    <3>4. the_stops[v][o] = 2 /\ Unmovable(o) => o \in OrdersOf(p, <<v, 1>>)
      <4>1. SUFFICES ASSUME the_stops[v][o] = 2, Unmovable(o)
                     PROVE  p[o] = <<v, 1>> /\ o \in DOMAIN p
        BY DEF OrdersOf
      <4>2. o \in Delivered(v, the_stops)
        BY <2>1, <2>6, <4>1 DEF Delivered
      <4>3. QED
        BY <1>6, <1>15, <2>2, <3>1, <4>1, <4>2
    <3>5. QED
      BY <2>4, <3>1, <3>2, <3>3, <3>4
  <2>7. QED
    BY <2>5, <2>6
<1>16. \A v \in InFleet : v \notin active => the_stops'[v] = the_stops[v]
  BY <1>11 DEF InFleet
<1>17. UnmovableStay'
  <2>1. SUFFICES ASSUME NEW v \in InFleet, NEW o \in BagToSet(vehicles[v].stops),
                        vehicles[v].stops[o] = 2, Unmovable(o)
                 PROVE  Copies(o, the_stops'[v]) = 2
    BY <1>2, <1>9 DEF UnmovableStay, Unmovable
  <2>2. Copies(o, the_stops[v]) = 2
    BY <1>4, <2>1 DEF UnmovableStay
  <2>3. QED
    BY <1>15, <1>16, <2>1, <2>2
<1>18. PickupsStay'
  <2>1. SUFFICES ASSUME NEW v \in InFleet, NEW o \in BagToSet(vehicles[v].stops),
                        vehicles[v].stops[o] = 1
                 PROVE  Copies(o, the_stops'[v]) \in {1, 3}
    BY <1>2, <1>9 DEF PickupsStay
  <2>2. Copies(o, the_stops[v]) \in {1, 3}
    BY <1>4, <2>1 DEF PickupsStay
  <2>3. QED
    BY <1>15, <1>16, <2>2
<1>19. HistoryInv'
  BY <1>2, <1>4, <1>5, <1>7 DEF HistoryInv
<1>20. QED
  BY <1>9, <1>13, <1>14, <1>17, <1>18, <1>19

\* The invariant is inductive.
LEMMA NextPreserves == IInv /\ [Next]_vars => IInv'
<1> SUFFICES ASSUME IInv, [Next]_vars PROVE IInv'
  OBVIOUS
<1>1. CASE Prepare
  BY <1>1, PreparePreserves
<1>2. CASE MissingOrders
  <2>1. pc' = "returned" /\ ~Prepared'
    BY <1>2 DEF MissingOrders, Prepared
  <2>2. QED
    BY <1>2, <2>1, HistoryStays
       DEF MissingOrders, IInv, HistoryIsKept, TypeOK, answer
<1>3. CASE Subdivide
  BY <1>3, SubdividePreserves
<1>4. CASE ProcessAll
  BY <1>4, ProcessAllPreserves
<1>5. CASE SkipTime
  BY <1>5, HistoryStays DEF SkipTime, IInv, HistoryIsKept, HistoryInv, TypeOK, answer
<1>6. CASE ProcessTime
  BY <1>6, ProcessTimePreserves
<1>11. CASE RefuseAll
  BY <1>11, RefuseAllPreserves
<1>12. CASE RefuseTime
  <2>1. /\ pc = "subdivide" /\ pc' = "returned" /\ UNCHANGED <<arguments, data, the_stops, answer>>
        /\ prev_orders_in_stops' = OrdersInStops(Active(Time))
    BY <1>12 DEF RefuseTime, Process
  <2>2. Active(Time) \in SUBSET DOMAIN vehicles
    BY DEF Active
  <2>3. prev_orders_in_stops' \subseteq DOMAIN orders
    <3> DEFINE active == Active(Time)
    <3>1. active \in SUBSET DOMAIN vehicles
      BY <2>2
    <3>2. OrdersInStops(active) \subseteq StopsOf(vehicles) /\ StopsOf(vehicles) \subseteq DOMAIN orders
      <4> HIDE DEF active
      <4>1. QED
        BY <2>1, <3>1, ServedAreNamed DEF IInv, HistoryIsKept
    <3>3. QED
      BY <2>1, <3>2
  <2>4. allocated' \in {0, return_count'}
    BY <2>1 DEF IInv, HistoryIsKept, TypeOK, answer
  <2>5. QED
    BY <2>1, <2>3, <2>4, HistoryStays
<1>7. CASE EndSubdivide
  BY <1>7, HistoryStays DEF EndSubdivide, IInv, HistoryIsKept, HistoryInv, TypeOK, answer
<1>8. CASE WriteRows
  <2>1. allocated' \in {0, return_count'}
    BY <1>8 DEF WriteRows
  <2>2. QED
    BY <1>8, <2>1, HistoryStays DEF WriteRows, IInv, HistoryIsKept, HistoryInv, TypeOK
<1>9. CASE Terminated \/ UNCHANGED vars
  <2>1. UNCHANGED vars
    BY <1>9 DEF Terminated
  <2>2. /\ UNCHANGED <<order_rows, vehicle_rows, execution_date, subdivision_kind>>
        /\ UNCHANGED <<orders, vehicles, the_stops, prev_orders_in_stops>>
        /\ UNCHANGED <<allocated, written, return_count, error, pc>>
    BY <2>1 DEF vars, arguments, data, answer
  <2>3. /\ Prepared' = Prepared /\ AllInFleet' = AllInFleet /\ StopsOf(vehicles)' = StopsOf(vehicles)
        /\ StopsDeliver' = StopsDeliver /\ InFleet' = InFleet
    BY <2>2 DEF Prepared, AllInFleet, StopsOf, StopsDeliver, InFleet
  <2>4. TypeOK' /\ DataInv' /\ HistoryInv'
    BY <2>2, <2>3 DEF IInv, HistoryIsKept, TypeOK, DataInv, HistoryInv, Ids
  <2>5. EachOrderOnOneVehicle' /\ UnmovableStay' /\ PickupsStay'
    BY <2>2, <2>3
       DEF IInv, HistoryIsKept, EachOrderOnOneVehicle, UnmovableStay, PickupsStay, Unmovable
  <2>6. QED
    BY <2>4, <2>5 DEF IInv, HistoryIsKept
<1>10. QED
  BY <1>1, <1>2, <1>3, <1>4, <1>5, <1>6, <1>7, <1>8, <1>9, <1>11, <1>12 DEF Next

\* What the subdivisions know of the vehicles they leave alone stays true
\* (subdivide_processing, update_stops), whatever an optimization finds and
\* wherever the initial solution refuses its stops and ends the call.  From
\* stops that deliver what they pick up, an order is on one vehicle.  From any
\* stops, an order they deliver with a window that is no instant and opens
\* before the execution date stays delivered by its vehicle, and a pickup given
\* alone never leaves its vehicle.
THEOREM HistoryKept == Spec => []HistoryIsKept
<1>1. Init => IInv
  BY InitEstablishes
<1>2. IInv /\ [Next]_vars => IInv'
  BY NextPreserves
<1>3. IInv => HistoryIsKept
  BY DEF IInv
<1>4. QED
  BY <1>1, <1>2, <1>3, PTL DEF Spec
===============================================================================
