------------------------- MODULE VehicleRouteProofs -------------------------
(***************************************************************************)
(* What the operations on a path do to it, for every problem: all orders   *)
(* and vehicles, all travel times.  Evaluating computes each stop from the *)
(* one in front of it, so a path whose stops before some position are      *)
(* right is right after an evaluation from there; inserting, erasing and   *)
(* swapping are described by the nodes that move.                          *)
(***************************************************************************)
EXTENDS Solution, FiniteSetTheorems, WellFoundedInduction, TLAPS

(***************************************************************************)
(* Natural numbers and functions defined by recursion over them: a set of  *)
(* them has a least number, as the front of a std::set, and what takes n   *)
(* steps exists.                                                           *)
(***************************************************************************)

\* A set of natural numbers that is not empty has a least element: the front
\* of a std::set.  The strict subset ordering of the intervals 1..n is well
\* founded, and it orders them as their bounds.
LEMMA LeastNatural ==
  ASSUME NEW S \in SUBSET Nat, S # {}
  PROVE  \E x \in S : \A y \in S : x <= y
<1> DEFINE Intervals == {1..n : n \in S}
<1>1. Intervals \subseteq FiniteSubsetsOf(Nat) /\ Intervals # {}
  <2>1. \A n \in S : 1..n \in SUBSET Nat /\ IsFiniteSet(1..n)
    BY FS_Interval
  <2>2. QED
    BY <2>1 DEF FiniteSubsetsOf
<1>2. PICK I \in Intervals :
        \A J \in Intervals : <<J, I>> \notin StrictSubsetOrdering(Nat)
  BY <1>1, FS_StrictSubsetOrderingWellFounded, WFMin
<1>3. PICK x \in S : I = 1..x
  OBVIOUS
<1>4. ASSUME NEW y \in S, y < x
      PROVE  FALSE
  <2>1. 1..y \subseteq 1..x /\ x \in 1..x /\ x \notin 1..y
    BY <1>4
  <2>2. 1..y \in SUBSET Nat /\ 1..x \in SUBSET Nat
    BY <1>4
  <2>3. <<1..y, 1..x>> \in StrictSubsetOrdering(Nat)
    BY <2>1, <2>2 DEF StrictSubsetOrdering
  <2>4. QED
    BY <1>2, <1>3, <2>3
<1>5. QED
  BY <1>4

\* The least element of a set of naturals.
LEMMA MinIsMember ==
  ASSUME NEW S \in SUBSET Nat, S # {}
  PROVE  Min(S) \in S /\ \A x \in S : Min(S) <= x
  BY LeastNatural DEF Min

\* Of numbers that have a bound there is a greatest one.
LEMMA MaxIsMember ==
  ASSUME NEW S \in SUBSET Nat, S # {}, NEW n \in Nat, \A x \in S : x <= n
  PROVE  Max(S) \in S /\ \A x \in S : x <= Max(S)
<1> DEFINE Below == {n - x : x \in S}
<1>1. Below \in SUBSET Nat /\ Below # {}
  <2>1. \A x \in S : n - x \in Nat
    OBVIOUS
  <2>2. Below # {}
    OBVIOUS
  <2>3. QED
    BY <2>1, <2>2
<1>2. PICK d \in Below : \A e \in Below : d <= e
  <2> HIDE DEF Below
  <2>1. QED
    BY <1>1, LeastNatural
<1>3. PICK x \in S : d = n - x
  BY <1>2
<1>4. ASSUME NEW y \in S
      PROVE  y <= x /\ x >= y
  <2>1. n - y \in Below
    OBVIOUS
  <2>2. n - x <= n - y
    BY <1>2, <1>3, <2>1
  <2>3. QED
    BY <2>2
<1>5. Max(S) \in S /\ \A y \in S : Max(S) >= y
  BY <1>4 DEF Max
<1>6. QED
  BY <1>5

\* A set of naturals that has 0 and, with each number below n, the next one.
LEMMA Upward ==
  ASSUME NEW n \in Nat, NEW G, 0 \in G, \A k \in 1..n : k - 1 \in G => k \in G
  PROVE  \A k \in 0..n : k \in G
<1> DEFINE Out == {k \in Nat : k \in 0..n /\ k \notin G}
<1>1. ASSUME Out # {}
      PROVE  FALSE
  <2>1. PICK k \in Out : \A l \in Out : k <= l
    <3>1. Out \in SUBSET Nat
      OBVIOUS
    <3> HIDE DEF Out
    <3>2. QED
      BY <1>1, <3>1, LeastNatural
  <2>2. k \in 1..n /\ k \notin G
    OBVIOUS
  <2>3. k - 1 \in Nat /\ k - 1 \in 0..n /\ ~(k <= k - 1)
    BY <2>2
  <2>4. k - 1 \in G
    BY <2>1, <2>3
  <2>5. QED
    BY <2>2, <2>4
<1>2. QED
  BY <1>1

\* The function f has the results of n steps from base.
Computed(n, base, step, f) ==
  f = [k \in 0..n |-> IF k = 0 THEN base ELSE step[<<f[k - 1], k>>]]

\* The function that n steps from base compute exists, and its values are in
\* the sets that the steps lead to.
LEMMA StepsExist ==
  ASSUME NEW n \in Nat, NEW G, NEW base, base \in G[0], NEW step,
         \A k \in 1..n : \A x \in G[k - 1] : step[<<x, k>>] \in G[k]
  PROVE  \E f : Computed(n, base, step, f) /\ \A k \in 0..n : f[k] \in G[k]
<1> DEFINE After(x, k) == step[<<x, k>>]
           Computes(f, m) == f = [k \in 0..m |-> IF k = 0 THEN base ELSE After(f[k - 1], k)]
           Reached == {m \in 0..n : \E f : Computes(f, m)}
<1>0. \A k \in 1..n : \A x \in G[k - 1] : After(x, k) \in G[k]
  OBVIOUS
<1> HIDE DEF After
<1>1. 0 \in Reached
  <2> DEFINE f == [k \in 0..0 |-> base]
  <2>1. f = [k \in 0..0 |-> IF k = 0 THEN base ELSE After(f[k - 1], k)]
    <3>1. \A k \in 0..0 : f[k] = IF k = 0 THEN base ELSE After(f[k - 1], k)
      OBVIOUS
    <3>2. QED
      BY <3>1
  <2>2. Computes(f, 0) /\ 0 \in 0..n
    BY <2>1
  <2>3. QED
    BY <2>2
<1>2. ASSUME NEW m \in 1..n, m - 1 \in Reached
      PROVE  m \in Reached
  <2>1. PICK f : Computes(f, m - 1)
    BY <1>2
  <2>2. m \in Nat /\ m - 1 \in Nat /\ m \in 0..n
    OBVIOUS
  <2> DEFINE g == [k \in 0..m |-> IF k < m THEN f[k] ELSE After(f[m - 1], m)]
  <2>3. \A k \in 0..m : k > 0 => g[k - 1] = f[k - 1]
    BY <2>2
  <2>4. \A k \in 0..m : k < m => f[k] = IF k = 0 THEN base ELSE After(f[k - 1], k)
    BY <2>1, <2>2
  <2>5. \A k \in 0..m : g[k] = IF k = 0 THEN base ELSE After(g[k - 1], k)
    <3>1. \A k \in 0..m : g[k] = IF k < m THEN f[k] ELSE After(f[m - 1], m)
      OBVIOUS
    <3> HIDE DEF g
    <3>2. ASSUME NEW k \in 0..m
          PROVE  g[k] = IF k = 0 THEN base ELSE After(g[k - 1], k)
      <4>1. CASE k < m
        BY <2>3, <2>4, <3>1, <4>1
      <4>2. CASE k = m
        BY <2>2, <2>3, <3>1, <4>2
      <4>3. QED
        BY <2>2, <4>1, <4>2
    <3>3. QED
      BY <3>2
  <2>6. Computes(g, m)
    BY <2>5
  <2>7. QED
    BY <2>2, <2>6
<1>3. n \in Reached
  <2> HIDE DEF Reached
  <2>1. \A k \in 0..n : k \in Reached
    BY <1>1, <1>2, Upward
  <2>2. QED
    BY <2>1
<1>4. PICK f : Computes(f, n)
  BY <1>3
<1>5. \A k \in 0..n : f[k] \in G[k]
  <2>1. \A k \in 0..n : f[k] = IF k = 0 THEN base ELSE After(f[k - 1], k)
    BY <1>4
  <2> HIDE DEF Computes
  <2> DEFINE Right == {k \in 0..n : f[k] \in G[k]}
  <2>2. 0 \in Right
    BY <2>1
  <2>3. ASSUME NEW k \in 1..n, k - 1 \in Right
        PROVE  k \in Right
    <3>1. k \in 0..n /\ k # 0 /\ f[k - 1] \in G[k - 1]
      BY <2>3
    <3>2. QED
      BY <1>0, <2>1, <3>1
  <2> HIDE DEF Right
  <2>4. \A k \in 0..n : k \in Right
    BY <2>2, <2>3, Upward
  <2>5. QED
    BY <2>4 DEF Right
<1>6. QED
  BY <1>4, <1>5 DEF After, Computed

\* What steps lead from one set to the next ends in the last one.
LEMMA StepsLead ==
  ASSUME NEW n \in Nat, NEW G, NEW g, g[0] \in G[0],
         \A k \in 1..n : g[k - 1] \in G[k - 1] => g[k] \in G[k]
  PROVE  \A k \in 0..n : g[k] \in G[k]
<1> DEFINE Right == {k \in 0..n : g[k] \in G[k]}
<1>1. 0 \in Right
  OBVIOUS
<1>2. ASSUME NEW k \in 1..n, k - 1 \in Right
      PROVE  k \in Right
  <2>1. k \in 0..n /\ g[k - 1] \in G[k - 1]
    BY <1>2
  <2>2. QED
    BY <2>1
<1> HIDE DEF Right
<1>3. \A k \in 0..n : k \in Right
  BY <1>1, <1>2, Upward
<1>4. QED
  BY <1>3 DEF Right

(***************************************************************************)
(* Travel times and stops have their types.                                *)
(***************************************************************************)

\* What an integer division of naturals gives.
LEMMA QuotientIsNatural ==
  ASSUME NEW a \in Nat, NEW b \in Nat, NEW c \in Nat \ {0}
  PROVE  (a * b) \div c \in Nat
<1>1. a * b \in Nat
  OBVIOUS
<1>2. \A d \in Nat : d \div c \in Nat
  OBVIOUS
<1>3. QED
  BY <1>1, <1>2

\* The multipliers are natural numbers, whichever of them holds.
LEMMA MultipliersAreNatural ==
  ASSUME NEW t \in Nat
  PROVE  get_tdm(t) \in Nat /\ next_tdm(t) \in Nat /\ time_change(t) \in Nat
<1> DEFINE n == Len(Multipliers)
           M == [start_time : Nat, multiplier : Nat]
<1>1. n \in Nat \ {0} /\ \A k \in 1..n : Multipliers[k] \in M
  <2>1. Multipliers \in Seq(M) /\ n > 0
    BY MatrixAssumption
  <2> HIDE DEF M
  <2>2. QED
    BY <2>1
<1>2. \A k \in 1..n : Multipliers[k].multiplier \in Nat /\ Multipliers[k].start_time \in Nat
  BY <1>1
<1>3. ASSUME Started(t) # {}
      PROVE  Max(Started(t)) \in 1..n
  <2>1. Started(t) \in SUBSET Nat /\ Started(t) \subseteq 1..n
    BY <1>1 DEF Started
  <2>2. \A k \in Started(t) : k <= n
    BY <2>1
  <2>3. QED
    <3> HIDE DEF n
    <3>1. QED
      BY <1>1, <1>3, <2>1, <2>2, MaxIsMember
<1>4. Upcoming(t) \in 1..n
  <2> DEFINE S == {k \in 1..n : Multipliers[k].start_time >= t} \cup {n}
  <2>1. S \in SUBSET Nat /\ S # {} /\ S \subseteq 1..n
    BY <1>1
  <2>2. Upcoming(t) = Min(S)
    BY DEF Upcoming
  <2> HIDE DEF S, n
  <2>3. QED
    BY <2>1, <2>2, MinIsMember
<1>5. MultiplierUnit \in Nat
  BY MatrixAssumption
<1> HIDE DEF n
<1>6. get_tdm(t) \in Nat
  BY <1>2, <1>3, <1>5 DEF get_tdm
<1>7. QED
  BY <1>2, <1>4, <1>6 DEF next_tdm, time_change

\* std::min of two times is a time.
LEMMA LessIsNatural ==
  ASSUME NEW a \in Nat, NEW b \in Nat
  PROVE  Min({a, b}) \in Nat
<1>1. {a, b} \in SUBSET Nat /\ {a, b} # {}
  OBVIOUS
<1>2. QED
  BY <1>1, MinIsMember

\* Whatever the multipliers, a travel time is natural (travel_time, which scans
\* the multipliers three times).
LEMMA TravelTimeIsNatural ==
  ASSUME NEW i \in Site, NEW j \in Site, NEW t \in Nat, NEW speed \in Nat \ {0}
  PROVE  travel_time_to(i, j, t, speed) \in Nat
<1>1. /\ Dist[i][j] \in Nat /\ MultiplierUnit \in Nat \ {0} /\ SpeedUnit \in Nat
  BY MatrixAssumption
<1>2. get_tdm(t) \in Nat /\ next_tdm(t) \in Nat
  BY MultipliersAreNatural
<1>3. Min({get_tdm(t), next_tdm(t)}) \in Nat
  BY <1>2, LessIsNatural
<1>4. \A cell, m \in Nat : (cell * m) \div MultiplierUnit \in Nat
  BY <1>1, QuotientIsNatural
<1>5. adjusted_time(Dist[i][j], t, get_tdm(t), next_tdm(t)) \in Nat
  BY <1>1, <1>2, <1>3, <1>4 DEF adjusted_time
<1>6. travel_time(i, j, t) \in Nat
  BY <1>1, <1>5 DEF travel_time
<1>7. QED
  BY <1>1, <1>6, QuotientIsNatural DEF travel_time_to

-----------------------------------------------------------------------------

\* What a stop holds.
Stop ==
  [node : Node, arrival : Nat, departure : Nat, travel : Nat, wait : Nat,
   cargo : Int, twvTot : Nat, cvTot : Nat]

\* The data of every node, of an order or of a vehicle.
LEMMA NodeData ==
  ASSUME NEW n \in Node
  PROVE  /\ Tw_node[n].id \in Site
         /\ Tw_node[n].opens \in Nat /\ Tw_node[n].closes \in Nat
         /\ Tw_node[n].service_time \in Nat /\ Tw_node[n].demand \in Int
<1>1. CASE \E o \in Order : n = Pickup(o)
  <2>1. PICK o \in Order : n = Pickup(o)
    BY <1>1
  <2>2. Tw_node[n] = PickupNode(OrderRow[o])
    BY <2>1 DEF Tw_node, Pickup
  <2>3. OrderRow[o] \in OrderFields
    BY DataAssumption
  <2>4. QED
    BY <2>2, <2>3 DEF PickupNode, TwNode, OrderFields
<1>2. CASE \E o \in Order : n = Delivery(o)
  <2>1. PICK o \in Order : n = Delivery(o)
    BY <1>2
  <2>2. Tw_node[n] = DeliveryNode(OrderRow[o])
    BY <2>1 DEF Tw_node, Delivery
  <2>3. OrderRow[o] \in OrderFields
    BY DataAssumption
  <2>4. QED
    BY <2>2, <2>3 DEF DeliveryNode, TwNode, OrderFields
<1>3. CASE \E v \in Truck : n = StartSite(v)
  <2>1. PICK v \in Truck : n = StartSite(v)
    BY <1>3
  <2>2. Tw_node[n] = StartNode(TruckRow[v])
    BY <2>1 DEF Tw_node, StartSite
  <2>3. TruckRow[v] \in TruckFields
    BY DataAssumption
  <2>4. QED
    BY <2>2, <2>3 DEF StartNode, TwNode, TruckFields
<1>4. CASE \E v \in Truck : n = EndSite(v)
  <2>1. PICK v \in Truck : n = EndSite(v)
    BY <1>4
  <2>2. Tw_node[n] = EndNode(TruckRow[v])
    BY <2>1 DEF Tw_node, EndSite
  <2>3. TruckRow[v] \in TruckFields
    BY DataAssumption
  <2>4. QED
    BY <2>2, <2>3 DEF EndNode, TwNode, TruckFields
<1>5. QED
  BY <1>1, <1>2, <1>3, <1>4 DEF Node

\* A stop that was not evaluated yet is a stop of its node.
LEMMA UnvisitedType ==
  ASSUME NEW n \in Node
  PROVE  Unvisited(n) \in Stop /\ Unvisited(n).node = n
  BY DEF Unvisited, Stop

\* Evaluation of the first stop gives a stop of the same node.
LEMMA StartType ==
  ASSUME NEW v, NEW n \in Node
  PROVE  EvaluateStart(v, n) \in Stop /\ EvaluateStart(v, n).node = n
<1>1. Count(has_cv(v, n, Tw_node[n].demand)) \in Nat
  BY DEF Count
<1>2. QED
  BY <1>1, NodeData DEF EvaluateStart, Stop

\* Evaluation of a stop after another gives a stop of the same node.
LEMMA AfterType ==
  ASSUME NEW v \in Truck, NEW pred \in Stop, NEW n \in Node
  PROVE  EvaluateAfter(v, pred, n) \in Stop /\ EvaluateAfter(v, pred, n).node = n
<1> DEFINE leg == TravelTime(pred.node, n, pred.departure, SpeedOf(v))
           arrival == pred.departure + leg
           wait == IF is_early_arrival(n, arrival) THEN Tw_node[n].opens - arrival ELSE 0
           cargo == pred.cargo + Tw_node[n].demand
           late == Count(is_late_arrival(n, arrival))
           over == Count(has_cv(v, n, cargo))
<1>1. /\ pred.node \in Node /\ pred.departure \in Nat /\ pred.travel \in Nat
      /\ pred.wait \in Nat /\ pred.cargo \in Int /\ pred.twvTot \in Nat
      /\ pred.cvTot \in Nat
  BY DEF Stop
<1>2. SpeedOf(v) \in Nat \ {0}
  BY DataAssumption DEF SpeedOf, TruckFields
<1>3. leg \in Nat
  BY <1>1, <1>2, NodeData, TravelTimeIsNatural DEF TravelTime
<1>4. late \in Nat /\ over \in Nat
  BY DEF Count
<1> HIDE DEF leg, late, over
<1>5. arrival \in Nat /\ wait \in Nat /\ cargo \in Int
  BY <1>1, <1>3, NodeData DEF is_early_arrival
<1>6. EvaluateAfter(v, pred, n) =
        [node |-> n, arrival |-> arrival,
         departure |-> arrival + wait + Tw_node[n].service_time,
         travel |-> pred.travel + leg, wait |-> pred.wait + wait, cargo |-> cargo,
         twvTot |-> pred.twvTot + late, cvTot |-> pred.cvTot + over]
  BY DEF EvaluateAfter, StopAfter, leg, late, over
<1> HIDE DEF arrival, wait, cargo
<1>7. /\ arrival + wait + Tw_node[n].service_time \in Nat
      /\ pred.travel + leg \in Nat /\ pred.wait + wait \in Nat
      /\ pred.twvTot + late \in Nat /\ pred.cvTot + over \in Nat
  BY <1>1, <1>3, <1>4, <1>5, NodeData
<1>8. QED
  BY <1>5, <1>6, <1>7 DEF Stop

-----------------------------------------------------------------------------

\* The stops after p positions, from those after one position less.
StopsAfter(v, path, from, stops, p) ==
  IF p = 0 THEN <<>>
  ELSE Append(stops[p - 1], StopAt(v, path, from, stops[p - 1], p))

\* The function that evaluate computes exists, by induction on the number of
\* its positions.
LEMMA EvaluationExists ==
  ASSUME NEW v, NEW path, NEW from, NEW n \in Nat
  PROVE  \E stops : stops = [p \in 0..n |-> StopsAfter(v, path, from, stops, p)]
<1> DEFINE Computes(f, m) == f = [p \in 0..m |-> StopsAfter(v, path, from, f, p)]
           Without == {m \in Nat : ~ \E f : Computes(f, m)}
<1>1. SUFFICES ASSUME Without # {}
               PROVE  FALSE
  OBVIOUS
<1>2. PICK m \in Without : \A k \in Without : m <= k
  <2>1. Without \in SUBSET Nat
    OBVIOUS
  <2> HIDE DEF Without
  <2>2. QED
    BY <1>1, <2>1, LeastNatural
<1>3. m \in Nat /\ ~ \E f : Computes(f, m)
  OBVIOUS
<1>4. CASE m = 0
  <2> DEFINE f == [p \in 0..0 |-> <<>>]
  <2>1. f = [p \in 0..0 |-> StopsAfter(v, path, from, f, p)]
    BY DEF StopsAfter
  <2>2. QED
    BY <1>3, <1>4, <2>1
<1>5. CASE m > 0
  <2>1. m - 1 \in Nat /\ m - 1 \notin Without
    BY <1>2, <1>3, <1>5
  <2>2. PICK f : f = [p \in 0..(m - 1) |-> StopsAfter(v, path, from, f, p)]
    BY <2>1
  <2> DEFINE g == [p \in 0..m |-> IF p < m THEN f[p] ELSE StopsAfter(v, path, from, f, m)]
  <2>3. \A p \in 0..m : p > 0 => g[p - 1] = f[p - 1]
    BY <1>3
  <2>4. \A p \in 0..m : StopsAfter(v, path, from, g, p) = StopsAfter(v, path, from, f, p)
    <3> HIDE DEF g
    <3>1. QED
      BY <1>3, <2>3 DEF StopsAfter
  <2>5. \A p \in 0..m : p < m => f[p] = StopsAfter(v, path, from, f, p)
    BY <1>3, <2>2
  <2>6. \A p \in 0..m : g[p] = StopsAfter(v, path, from, g, p)
    BY <1>3, <2>4, <2>5
  <2>7. g = [p \in 0..m |-> StopsAfter(v, path, from, g, p)]
    BY <2>6, SMTT(60)
  <2>8. QED
    BY <1>3, <2>7
<1>6. QED
  BY <1>3, <1>4, <1>5

\* Evaluate takes the last of them.
LEMMA EvaluateUnfolds ==
  ASSUME NEW v, NEW path, Len(path) \in Nat, NEW from
  PROVE  \E stops :
           /\ stops = [p \in 0..Len(path) |-> StopsAfter(v, path, from, stops, p)]
           /\ Evaluate(v, path, from) = stops[Len(path)]
<1> DEFINE Computes(f) == f = [p \in 0..Len(path) |->
                                IF p = 0 THEN <<>>
                                ELSE Append(f[p - 1], StopAt(v, path, from, f[p - 1], p))]
           stops == CHOOSE f : Computes(f)
<1>1. \E f : Computes(f)
  <2> DEFINE n == Len(path)
  <2> HIDE DEF n
  <2>0. n \in Nat
    BY DEF n
  <2>1. PICK f : f = [p \in 0..n |-> StopsAfter(v, path, from, f, p)]
    BY <2>0, EvaluationExists
  <2>2. Computes(f)
    BY <2>1 DEF StopsAfter, n
  <2>3. QED
    BY <2>2
<1>2. Computes(stops)
  BY <1>1
<1>3. Evaluate(v, path, from) = stops[Len(path)]
  BY DEF Evaluate, Iterated
<1>4. QED
  BY <1>2, <1>3 DEF StopsAfter

-----------------------------------------------------------------------------

\* e are the first m stops of the path, evaluated from a position on.
EvaluatedUpTo(v, path, from, e, m) ==
  /\ e \in Seq(Stop)
  /\ Len(e) = m
  /\ \A p \in 1..m : e[p] = StopAt(v, path, from, e, p) /\ e[p].node = path[p].node

\* e is the whole path, evaluated from a position on.
Evaluated(v, path, from, e) == EvaluatedUpTo(v, path, from, e, Len(path))

\* What a stop is computed from: the path at p and the stop in front of it.
LEMMA StopAtType ==
  ASSUME NEW v \in Truck, NEW path \in Seq(Stop), NEW from \in Int,
         NEW done, NEW p \in 1..Len(path), p > 1 => done[p - 1] \in Stop
  PROVE  /\ StopAt(v, path, from, done, p) \in Stop
         /\ StopAt(v, path, from, done, p).node = path[p].node
<1>1. path[p] \in Stop /\ path[p].node \in Node
  <2>1. path[p] \in Stop
    OBVIOUS
  <2>2. QED
    BY <2>1 DEF Stop
<1>2. CASE p < from
  BY <1>1, <1>2 DEF StopAt
<1>3. CASE ~(p < from) /\ p = 1
  BY <1>1, <1>3, StartType DEF StopAt
<1>4. CASE ~(p < from) /\ p # 1
  <2>1. StopAt(v, path, from, done, p) = EvaluateAfter(v, done[p - 1], path[p].node)
    BY <1>4 DEF StopAt
  <2>2. done[p - 1] \in Stop
    BY <1>4
  <2>3. QED
    BY <1>1, <2>1, <2>2, AfterType
<1>5. QED
  BY <1>2, <1>3, <1>4

\* The first stops of an evaluation are those of an evaluation.
LEMMA EvaluatedStep ==
  ASSUME NEW v \in Truck, NEW path \in Seq(Stop), NEW from \in Int,
         NEW m \in 1..Len(path), NEW d, EvaluatedUpTo(v, path, from, d, m - 1),
         NEW e, e = Append(d, StopAt(v, path, from, d, m))
  PROVE  EvaluatedUpTo(v, path, from, e, m)
<1> DEFINE s == StopAt(v, path, from, d, m)
<1>1. /\ Len(path) \in Nat /\ m \in Nat /\ d \in Seq(Stop) /\ Len(d) = m - 1
      /\ \A p \in 1..(m - 1) : /\ d[p] = StopAt(v, path, from, d, p)
                               /\ d[p].node = path[p].node
  BY DEF EvaluatedUpTo
<1>2. m > 1 => d[m - 1] \in Stop
  <2> HIDE DEF s
  <2>1. \A k \in 1..Len(d) : d[k] \in Stop
    BY <1>1
  <2>2. QED
    BY <1>1, <2>1
<1>3. s \in Stop /\ s.node = path[m].node
  BY <1>2, StopAtType
<1> HIDE DEF s
<1>4. /\ e \in Seq(Stop) /\ Len(e) = m /\ e[m] = s
      /\ \A p \in 1..(m - 1) : e[p] = d[p]
  <2>1. e = Append(d, s)
    BY DEF s
  <2> DEFINE T == Stop
  <2>2. d \in Seq(T) /\ s \in T
    BY <1>1, <1>3
  <2> HIDE DEF T
  <2>3. e \in Seq(T) /\ Len(e) = m /\ e[m] = s /\ \A p \in 1..(m - 1) : e[p] = d[p]
    BY <1>1, <2>1, <2>2
  <2>4. QED
    BY <2>3 DEF T
<1>5. \A p \in 1..m : p > 1 => e[p - 1] = d[p - 1]
  BY <1>1, <1>4
<1>6. \A p \in 1..m : StopAt(v, path, from, e, p) = StopAt(v, path, from, d, p)
  BY <1>1, <1>5, SMTT(60) DEF StopAt
<1>7. e[m] = StopAt(v, path, from, d, m)
  BY <1>4 DEF s
<1>8. QED
  BY <1>1, <1>3, <1>4, <1>6, <1>7 DEF EvaluatedUpTo

\* Evaluate does compute it.
LEMMA EvaluateIs ==
  ASSUME NEW v \in Truck, NEW path \in Seq(Stop), NEW from \in Int
  PROVE  Evaluated(v, path, from, Evaluate(v, path, from))
<1>1. Len(path) \in Nat
  OBVIOUS
<1>2. PICK stops :
        /\ stops = [p \in 0..Len(path) |-> StopsAfter(v, path, from, stops, p)]
        /\ Evaluate(v, path, from) = stops[Len(path)]
  BY <1>1, EvaluateUnfolds
<1> DEFINE Right(m) == EvaluatedUpTo(v, path, from, stops[m], m)
           Wrong == {m \in Nat : m <= Len(path) /\ ~Right(m)}
<1>3. ASSUME Wrong # {}
      PROVE  FALSE
  <2>1. PICK m \in Wrong : \A k \in Wrong : m <= k
    <3>1. Wrong \in SUBSET Nat
      OBVIOUS
    <3> HIDE DEF Wrong
    <3>2. QED
      BY <1>3, <3>1, LeastNatural
  <2>2. m \in 0..Len(path) /\ ~Right(m)
    <3> HIDE DEF Right
    <3>1. QED
      BY <1>1
  <2>3. stops[m] = StopsAfter(v, path, from, stops, m)
    <3> HIDE DEF Right, Wrong
    <3>1. QED
      BY <1>2, <2>2
  <2>4. CASE m = 0
    <3>1. stops[m] = <<>>
      BY <2>3, <2>4 DEF StopsAfter
    <3>2. Right(m)
      BY <2>4, <3>1 DEF EvaluatedUpTo
    <3>3. QED
      BY <2>2, <3>2
  <2>5. CASE m > 0
    <3>1. m - 1 \in Nat /\ m - 1 <= Len(path) /\ m - 1 \notin Wrong
      <4> HIDE DEF Wrong, Right
      <4>1. QED
        BY <1>1, <2>1, <2>2, <2>5
    <3>2. Right(m - 1)
      <4> HIDE DEF Right
      <4>1. QED
        BY <3>1
    <3>3. stops[m] = Append(stops[m - 1], StopAt(v, path, from, stops[m - 1], m))
      <4> HIDE DEF Right, Wrong
      <4>1. QED
        BY <2>2, <2>3, <2>5 DEF StopsAfter
    <3>4. m \in 1..Len(path)
      <4> HIDE DEF Right, Wrong
      <4>1. QED
        BY <1>1, <2>2, <2>5
    <3>5. Right(m)
      <4> HIDE DEF Wrong
      <4>1. QED
        BY <3>2, <3>3, <3>4, EvaluatedStep
    <3>6. QED
      BY <2>2, <3>5
  <2>6. QED
    <3> HIDE DEF Right, Wrong
    <3>1. QED
      BY <1>1, <2>2, <2>4, <2>5
<1>4. Right(Len(path))
  <2> HIDE DEF Right
  <2>1. QED
    BY <1>1, <1>3
<1>5. QED
  BY <1>2, <1>4 DEF Evaluated

-----------------------------------------------------------------------------

\* The stop at p caches what an evaluation computes for it.
Right(v, path, p) == path[p] = StopAt(v, path, 1, path, p)

\* Every stop of the path does.
Coherent(v, path) == \A p \in 1..Len(path) : Right(v, path, p)

\* Two paths through the same nodes.
SameNodes(a, b) ==
  Len(a) = Len(b) /\ \A p \in 1..Len(a) : a[p].node = b[p].node

\* There is one coherent path through some nodes.
LEMMA CoherentOnce ==
  ASSUME NEW v, NEW a \in Seq(Stop), NEW b \in Seq(Stop),
         Coherent(v, a), Coherent(v, b), SameNodes(a, b)
  PROVE  a = b
<1> DEFINE Apart == {m \in Nat : m \in 1..Len(a) /\ a[m] # b[m]}
<1>1. Len(a) \in Nat /\ Len(a) = Len(b)
  BY DEF SameNodes
<1>2. ASSUME Apart # {}
      PROVE  FALSE
  <2>1. PICK m \in Apart : \A k \in Apart : m <= k
    <3>1. Apart \in SUBSET Nat
      OBVIOUS
    <3> HIDE DEF Apart
    <3>2. QED
      BY <1>2, <3>1, LeastNatural
  <2>2. m \in 1..Len(a) /\ a[m] # b[m]
    OBVIOUS
  <2>3. m > 1 => a[m - 1] = b[m - 1]
    <3>1. m > 1 => m - 1 \in Nat /\ m - 1 \in 1..Len(a) /\ m - 1 \notin Apart
      <4> HIDE DEF Apart
      <4>1. QED
        BY <1>1, <2>1, <2>2
    <3>2. QED
      BY <3>1
  <2>4. a[m].node = b[m].node
    BY <2>2 DEF SameNodes
  <2>5. StopAt(v, a, 1, a, m) = StopAt(v, b, 1, b, m)
    <3> HIDE DEF Apart
    <3>1. QED
      BY <1>1, <2>2, <2>3, <2>4 DEF StopAt
  <2>6. a[m] = b[m]
    <3> HIDE DEF Apart
    <3>1. QED
      BY <1>1, <2>2, <2>5 DEF Coherent, Right
  <2>7. QED
    BY <2>2, <2>6
<1>3. \A m \in 1..Len(a) : a[m] = b[m]
  BY <1>2
<1> HIDE DEF Apart
<1>4. QED
  BY <1>1, <1>3

\* An evaluation makes a path coherent when the stops before its start were,
\* and leads through the same nodes.
LEMMA EvaluateIsCoherent ==
  ASSUME NEW v \in Truck, NEW path \in Seq(Stop), NEW from \in Int,
         \A p \in 1..Len(path) : p < from => Right(v, path, p),
         NEW e, e = Evaluate(v, path, from)
  PROVE  e \in Seq(Stop) /\ Coherent(v, e) /\ SameNodes(e, path)
<1>1. /\ Len(path) \in Nat /\ e \in Seq(Stop) /\ Len(e) = Len(path)
      /\ \A p \in 1..Len(path) : e[p] = StopAt(v, path, from, e, p)
                               /\ e[p].node = path[p].node
  BY EvaluateIs DEF Evaluated, EvaluatedUpTo
<1>2. \A p \in 1..Len(path) : p < from => e[p] = path[p]
  BY <1>1 DEF StopAt
<1>3. ASSUME NEW p \in 1..Len(path)
      PROVE  Right(v, e, p)
  <2>1. CASE p < from
    <3>1. e[p] = path[p] /\ (p > 1 => p - 1 \in 1..Len(path) /\ e[p - 1] = path[p - 1])
      BY <1>1, <1>2, <2>1
    <3>2. path[p] = StopAt(v, path, 1, path, p)
      BY <2>1 DEF Right
    <3>3. StopAt(v, path, 1, path, p) = StopAt(v, e, 1, e, p)
      BY <1>1, <3>1 DEF StopAt
    <3>4. QED
      BY <3>1, <3>2, <3>3 DEF Right
  <2>2. CASE ~(p < from)
    <3>1. e[p] = StopAt(v, path, from, e, p) /\ e[p].node = path[p].node
      BY <1>1
    <3>2. StopAt(v, path, from, e, p) = StopAt(v, e, 1, e, p)
      BY <1>1, <2>2, <3>1 DEF StopAt
    <3>3. QED
      BY <3>1, <3>2 DEF Right
  <2>3. QED
    BY <2>1, <2>2
<1>4. QED
  BY <1>1, <1>3 DEF Coherent, SameNodes

\* A coherent path is what an evaluation of the whole of it computes.
LEMMA CoherentIsEvaluated ==
  ASSUME NEW v \in Truck, NEW path \in Seq(Stop), Coherent(v, path)
  PROVE  path = Evaluate(v, path, 1)
<1> DEFINE e == Evaluate(v, path, 1)
<1>1. \A p \in 1..Len(path) : p < 1 => Right(v, path, p)
  OBVIOUS
<1> HIDE DEF e
<1>2. e \in Seq(Stop) /\ Coherent(v, e) /\ SameNodes(e, path)
  BY <1>1, EvaluateIsCoherent DEF e
<1>3. e = path
  BY <1>2, CoherentOnce
<1>4. QED
  BY <1>3 DEF e

-----------------------------------------------------------------------------

(***************************************************************************)
(* Inserting, erasing and swapping.                                        *)
(***************************************************************************)

\* The elements of a concatenation, by position.
LEMMA ConcatIs ==
  ASSUME NEW S, NEW a \in Seq(S), NEW b \in Seq(S), NEW e, e = a \o b
  PROVE  /\ e \in Seq(S) /\ Len(e) = Len(a) + Len(b)
         /\ \A j \in 1..Len(a) : e[j] = a[j]
         /\ \A j \in 1..Len(b) : e[Len(a) + j] = b[j]
  OBVIOUS

\* The elements after an insertion into a sequence, by position.
LEMMA InsertAtIs ==
  ASSUME NEW S, NEW s \in Seq(S), NEW pos \in 1..(Len(s) + 1), NEW x \in S,
         NEW e, e = InsertAt(s, pos, x)
  PROVE  /\ e \in Seq(S) /\ Len(e) = Len(s) + 1
         /\ \A j \in 1..(Len(s) + 1) :
              e[j] = IF j < pos THEN s[j] ELSE IF j = pos THEN x ELSE s[j - 1]
<1> DEFINE front == SubSeq(s, 1, pos - 1)
           back == SubSeq(s, pos, Len(s))
           mid == <<x>>
<1>1. /\ front \in Seq(S) /\ Len(front) = pos - 1
      /\ \A j \in 1..(pos - 1) : front[j] = s[j]
  OBVIOUS
<1>2. /\ back \in Seq(S) /\ Len(back) = Len(s) - pos + 1
      /\ \A j \in 1..(Len(s) - pos + 1) : back[j] = s[j + pos - 1]
  OBVIOUS
<1>3. mid \in Seq(S) /\ Len(mid) = 1 /\ mid[1] = x
  OBVIOUS
<1>4. e = (front \o mid) \o back
  BY DEF InsertAt
<1> HIDE DEF front, back, mid
<1> DEFINE half == front \o mid
<1>5. /\ half \in Seq(S) /\ Len(half) = pos
      /\ \A j \in 1..(pos - 1) : half[j] = s[j]
      /\ half[pos] = x
  <2> HIDE DEF half
  <2>1. /\ half \in Seq(S) /\ Len(half) = Len(front) + Len(mid)
        /\ \A j \in 1..Len(front) : half[j] = front[j]
        /\ \A j \in 1..Len(mid) : half[Len(front) + j] = mid[j]
    <3>1. half = front \o mid
      BY DEF half
    <3>2. front \in Seq(S) /\ mid \in Seq(S)
      BY <1>1, <1>3
    <3>3. QED
      BY <3>1, <3>2, ConcatIs, SMTT(60)
  <2>2. QED
    BY <1>1, <1>3, <2>1
<1> HIDE DEF half
<1>6. e = half \o back
  BY <1>4 DEF half
<1>7. /\ e \in Seq(S) /\ Len(e) = Len(half) + Len(back)
      /\ \A j \in 1..Len(half) : e[j] = half[j]
      /\ \A j \in 1..Len(back) : e[Len(half) + j] = back[j]
  BY <1>2, <1>5, <1>6, ConcatIs
<1>8. \A j \in 1..(Len(s) + 1) : j <= pos => e[j] = half[j]
  BY <1>5, <1>7
<1>9. \A j \in 1..(Len(s) + 1) : j > pos => e[j] = back[j - pos]
  <2>1. TAKE j \in 1..(Len(s) + 1)
  <2>2. HAVE j > pos
  <2>3. j - pos \in 1..Len(back) /\ j = Len(half) + (j - pos)
    BY <1>2, <1>5, <2>2
  <2>4. QED
    BY <1>7, <2>3
<1>10. \A j \in 1..(Len(s) + 1) : j > pos => back[j - pos] = s[j - 1]
  BY <1>2
<1>11. Len(e) = Len(s) + 1
  BY <1>2, <1>5, <1>7
<1>12. QED
  BY <1>5, <1>7, <1>8, <1>9, <1>10, <1>11

\* The elements after a removal from a sequence, by position.
LEMMA RemoveAtIs ==
  ASSUME NEW S, NEW s \in Seq(S), NEW pos \in 1..Len(s), NEW e, e = RemoveAt(s, pos)
  PROVE  /\ e \in Seq(S) /\ Len(e) = Len(s) - 1
         /\ \A j \in 1..(Len(s) - 1) : e[j] = IF j < pos THEN s[j] ELSE s[j + 1]
<1> DEFINE front == SubSeq(s, 1, pos - 1)
           back == SubSeq(s, pos + 1, Len(s))
<1>1. /\ front \in Seq(S) /\ Len(front) = pos - 1
      /\ \A j \in 1..(pos - 1) : front[j] = s[j]
  OBVIOUS
<1>2. /\ back \in Seq(S) /\ Len(back) = Len(s) - pos
      /\ \A j \in 1..(Len(s) - pos) : back[j] = s[j + pos]
  OBVIOUS
<1>3. e = front \o back
  BY DEF RemoveAt
<1> HIDE DEF front, back
<1>4. e \in Seq(S) /\ Len(e) = Len(s) - 1
  BY <1>1, <1>2, <1>3, SMTT(60)
<1>5. \A j \in 1..(Len(s) - 1) : j < pos => e[j] = front[j]
  BY <1>1, <1>2, <1>3
<1>6. \A j \in 1..(Len(s) - 1) : j >= pos => e[j] = back[j - (pos - 1)]
  BY <1>1, <1>2, <1>3, SMTT(60)
<1>7. \A j \in 1..(Len(s) - 1) : j >= pos => back[j - (pos - 1)] = s[j + 1]
  BY <1>2
<1>8. QED
  BY <1>1, <1>4, <1>5, <1>6, <1>7

\* The nodes of the path with n inserted at pos, and of the path without the
\* stop at pos.
InsertedNode(path, pos, n, j) ==
  IF j < pos THEN path[j].node ELSE IF j = pos THEN n ELSE path[j - 1].node

HasInserted(path, pos, n, e) ==
  /\ e \in Seq(Stop)
  /\ Len(e) = Len(path) + 1
  /\ \A j \in 1..Len(e) : e[j].node = InsertedNode(path, pos, n, j)

HasErased(path, pos, e) ==
  /\ e \in Seq(Stop)
  /\ Len(e) = Len(path) - 1
  /\ \A j \in 1..Len(e) : e[j].node = IF j < pos THEN path[j].node ELSE path[j + 1].node

\* A node inserted without evaluation: the stops before it are what they were.
LEMMA InsertNodeIs ==
  ASSUME NEW path \in Seq(Stop), NEW pos \in 1..(Len(path) + 1), NEW n \in Node,
         NEW e, e = InsertNode(path, pos, n)
  PROVE  HasInserted(path, pos, n, e) /\ \A j \in 1..Len(path) : j < pos => e[j] = path[j]
<1>1. Unvisited(n) \in Stop /\ Unvisited(n).node = n
  BY UnvisitedType
<1>2. /\ e \in Seq(Stop) /\ Len(e) = Len(path) + 1
      /\ \A j \in 1..(Len(path) + 1) :
           e[j] = IF j < pos THEN path[j] ELSE IF j = pos THEN Unvisited(n) ELSE path[j - 1]
  <2> DEFINE x == Unvisited(n)
  <2>1. x \in Stop /\ e = InsertAt(path, pos, x)
    BY <1>1 DEF InsertNode
  <2> HIDE DEF x
  <2>2. /\ e \in Seq(Stop) /\ Len(e) = Len(path) + 1
        /\ \A j \in 1..(Len(path) + 1) :
             e[j] = IF j < pos THEN path[j] ELSE IF j = pos THEN x ELSE path[j - 1]
    BY <2>1, InsertAtIs, SMTT(60)
  <2>3. QED
    BY <2>2 DEF x
<1>3. \A j \in 1..Len(e) : e[j].node = InsertedNode(path, pos, n, j)
  BY <1>1, <1>2 DEF InsertedNode
<1>4. QED
  BY <1>2, <1>3 DEF HasInserted

\* A coherent path is coherent after insert, which evaluates from the new stop.
LEMMA InsertIs ==
  ASSUME NEW v \in Truck, NEW path \in Seq(Stop), Coherent(v, path),
         NEW pos \in 1..(Len(path) + 1), NEW n \in Node, NEW e, e = Insert(v, path, pos, n)
  PROVE  Coherent(v, e) /\ HasInserted(path, pos, n, e)
<1> DEFINE longer == InsertNode(path, pos, n)
<1>1. e = Evaluate(v, longer, pos)
  BY DEF Insert
<1>2. HasInserted(path, pos, n, longer) /\ \A j \in 1..Len(path) : j < pos => longer[j] = path[j]
  BY InsertNodeIs
<1> HIDE DEF longer
<1>3. /\ longer \in Seq(Stop) /\ Len(longer) = Len(path) + 1 /\ Len(path) \in Nat
      /\ \A j \in 1..Len(longer) : longer[j].node = InsertedNode(path, pos, n, j)
  BY <1>2 DEF HasInserted
<1>4. \A p \in 1..Len(longer) : p < pos => Right(v, longer, p)
  <2>1. TAKE p \in 1..Len(longer)
  <2>2. HAVE p < pos
  <2>3. p \in 1..Len(path) /\ longer[p] = path[p] /\ (p > 1 => longer[p - 1] = path[p - 1])
    BY <1>2, <1>3, <2>2
  <2>4. Right(v, path, p)
    BY <2>3 DEF Coherent
  <2>5. QED
    BY <2>3, <2>4 DEF Right, StopAt
<1>5. e \in Seq(Stop) /\ Coherent(v, e) /\ SameNodes(e, longer)
  BY <1>1, <1>3, <1>4, EvaluateIsCoherent
<1>6. QED
  BY <1>3, <1>5 DEF SameNodes, HasInserted

\* The path is coherent after erase whatever its caches were from the position
\* on: erase evaluates from there.
LEMMA ErasePosIs ==
  ASSUME NEW v \in Truck, NEW path \in Seq(Stop), NEW pos \in 1..Len(path),
         \A p \in 1..Len(path) : p < pos => Right(v, path, p),
         NEW e, e = ErasePos(v, path, pos)
  PROVE  Coherent(v, e) /\ HasErased(path, pos, e)
<1> DEFINE shorter == RemoveAt(path, pos)
<1>1. e = Evaluate(v, shorter, pos)
  BY DEF ErasePos
<1>2. /\ shorter \in Seq(Stop) /\ Len(shorter) = Len(path) - 1 /\ Len(path) \in Nat
      /\ \A j \in 1..(Len(path) - 1) : shorter[j] = IF j < pos THEN path[j] ELSE path[j + 1]
  BY RemoveAtIs
<1> HIDE DEF shorter
<1>3. \A p \in 1..Len(shorter) : p < pos => Right(v, shorter, p)
  <2>1. TAKE p \in 1..Len(shorter)
  <2>2. HAVE p < pos
  <2>3. p \in 1..Len(path) /\ shorter[p] = path[p] /\ (p > 1 => shorter[p - 1] = path[p - 1])
    BY <1>2, <2>2, SMTT(60)
  <2>4. Right(v, path, p)
    BY <2>2, <2>3
  <2>5. QED
    BY <2>3, <2>4 DEF Right, StopAt
<1>4. e \in Seq(Stop) /\ Coherent(v, e) /\ SameNodes(e, shorter)
  BY <1>1, <1>2, <1>3, EvaluateIsCoherent
<1>5. QED
  BY <1>2, <1>4 DEF SameNodes, HasErased

\* Two neighbours change places.
LEMMA SwapNextIs ==
  ASSUME NEW v \in Truck, NEW path \in Seq(Stop), NEW i \in 1..(Len(path) - 1),
         \A p \in 1..Len(path) : p < i => Right(v, path, p),
         NEW e, e = Swap(v, path, i, i + 1)
  PROVE  /\ e \in Seq(Stop) /\ Coherent(v, e) /\ Len(e) = Len(path)
         /\ \A j \in 1..Len(e) :
              e[j].node = IF j = i THEN path[i + 1].node
                          ELSE IF j = i + 1 THEN path[i].node ELSE path[j].node
<1> DEFINE swapped == [path EXCEPT ![i] = path[i + 1], ![i + 1] = path[i]]
<1>1. Len(path) \in Nat /\ i \in Nat /\ i + 1 \in 1..Len(path) /\ i \in 1..Len(path)
  OBVIOUS
<1>2. Min({i, i + 1}) = i
  <2>1. {i, i + 1} \in SUBSET Nat /\ {i, i + 1} # {}
    BY <1>1
  <2>2. Min({i, i + 1}) \in {i, i + 1} /\ \A x \in {i, i + 1} : Min({i, i + 1}) <= x
    BY <2>1, MinIsMember
  <2>3. QED
    BY <1>1, <2>2
<1>3. e = Evaluate(v, swapped, i)
  BY <1>2 DEF Swap
<1>4. swapped \in Seq(Stop) /\ Len(swapped) = Len(path)
  <2>1. path[i] \in Stop /\ path[i + 1] \in Stop
    BY <1>1
  <2>2. QED
    BY <1>1, <2>1
<1>5. \A j \in 1..Len(path) :
        swapped[j] = IF j = i THEN path[i + 1]
                     ELSE IF j = i + 1 THEN path[i] ELSE path[j]
  BY <1>1
<1> HIDE DEF swapped
<1>6. \A p \in 1..Len(swapped) : p < i => Right(v, swapped, p)
  <2>1. TAKE p \in 1..Len(swapped)
  <2>2. HAVE p < i
  <2>3. p \in 1..Len(path) /\ swapped[p] = path[p] /\ (p > 1 => swapped[p - 1] = path[p - 1])
    BY <1>1, <1>4, <1>5, <2>2
  <2>4. Right(v, path, p)
    BY <2>2, <2>3
  <2>5. QED
    BY <2>3, <2>4 DEF Right, StopAt
<1>7. e \in Seq(Stop) /\ Coherent(v, e) /\ SameNodes(e, swapped)
  BY <1>1, <1>3, <1>4, <1>6, EvaluateIsCoherent
<1>8. QED
  BY <1>4, <1>5, <1>7 DEF SameNodes

\* The first visit of a node is erased, if there is one.
LEMMA EraseNodeIs ==
  ASSUME NEW v \in Truck, NEW path \in Seq(Stop), Coherent(v, path), NEW n,
         NEW e, e = EraseNode(v, path, n)
  PROVE  /\ e \in Seq(Stop) /\ Coherent(v, e)
         /\ n \notin Nodes(path) => e = path
         /\ n \in Nodes(path) =>
              \E pos \in 1..Len(path) :
                /\ path[pos].node = n /\ HasErased(path, pos, e)
                /\ \A j \in 1..(pos - 1) : path[j].node # n
<1>1. CASE n \notin Nodes(path)
  BY <1>1 DEF EraseNode
<1>2. CASE n \in Nodes(path)
  <2> DEFINE Visits == {p \in DOMAIN path : path[p].node = n}
             pos == PositionOf(path, n)
  <2>1. DOMAIN path = 1..Len(path) /\ Len(path) \in Nat
    OBVIOUS
  <2>2. Visits \in SUBSET Nat /\ Visits # {}
    BY <1>2, <2>1 DEF Nodes
  <2>3. pos = Min(Visits)
    BY DEF PositionOf
  <2>4. pos \in Visits /\ \A j \in Visits : pos <= j
    <3> HIDE DEF Visits, pos
    <3>1. QED
      BY <2>2, <2>3, MinIsMember
  <2>5. /\ pos \in 1..Len(path) /\ path[pos].node = n
        /\ \A j \in 1..(pos - 1) : path[j].node # n
    <3>1. pos \in 1..Len(path) /\ path[pos].node = n
      BY <2>1, <2>4
    <3>2. ASSUME NEW j \in 1..(pos - 1), path[j].node = n
          PROVE  FALSE
      <4>1. j \in DOMAIN path /\ j < pos
        BY <2>1, <3>1
      <4>2. pos <= j
        BY <2>4, <3>2, <4>1
      <4> HIDE DEF pos, Visits
      <4>3. QED
        BY <2>1, <3>1, <4>1, <4>2
    <3>3. QED
      BY <3>1, <3>2
  <2>6. e = ErasePos(v, path, pos)
    BY <1>2 DEF EraseNode
  <2> HIDE DEF pos, Visits
  <2>7. Coherent(v, e) /\ HasErased(path, pos, e)
    BY <2>5, <2>6, ErasePosIs DEF Coherent
  <2>8. QED
    BY <1>2, <2>5, <2>7 DEF HasErased
<1>3. QED
  BY <1>1, <1>2

(***************************************************************************)
(* Where a node may go.                                                    *)
(***************************************************************************)

OrderNode == {Pickup(o) : o \in Order} \cup {Delivery(o) : o \in Order}

\* A path of the vehicle v: from its start to its end, by nodes of orders.
FromStartToEnd(v, path) ==
  /\ Len(path) >= 2
  /\ path[1].node = StartSite(v)
  /\ path[Len(path)].node = EndSite(v)
  /\ \A p \in 2..(Len(path) - 1) : path[p].node \in OrderNode

\* A node is of one kind, and of one order or vehicle.
LEMMA KindsDiffer ==
  ASSUME NEW o, NEW v, NEW a, NEW w
  PROVE  /\ Pickup(o) # Delivery(a) /\ StartSite(v) # EndSite(w)
         /\ StartSite(v) \notin {Pickup(o), Delivery(o)}
         /\ EndSite(v) \notin {Pickup(o), Delivery(o)}
         /\ IsEnd(EndSite(v)) /\ IsStart(StartSite(v)) /\ ~IsEnd(StartSite(v))
         /\ ~IsEnd(Pickup(o)) /\ ~IsEnd(Delivery(o))
         /\ (Pickup(o) = Pickup(a) => o = a) /\ (Delivery(o) = Delivery(a) => o = a)
  BY DEF Pickup, Delivery, StartSite, EndSite, IsEnd, IsStart

\* The positions of a node are behind the start and not behind the end; there
\* are none when the lower limit is greater than the upper one.
LEMMA LowLimit ==
  ASSUME NEW v, NEW path \in Seq(Stop), FromStartToEnd(v, path), NEW n
  PROVE  getPosLowLimit(path, n) \in 2..(Len(path) + 1)
<1> DEFINE S == {p \in 1..(Len(path) + 1) :
                  \A q \in p..Len(path) : is_compatible_IJ(n, path[q].node, SpeedUnit)}
<1>1. Len(path) \in Nat /\ Len(path) >= 2 /\ path[1].node = StartSite(v)
  BY DEF FromStartToEnd
<1>2. S \in SUBSET Nat /\ S # {}
  <2>1. Len(path) + 1 \in S
    BY <1>1
  <2>2. QED
    BY <2>1
<1>3. 1 \notin S
  BY <1>1, KindsDiffer DEF is_compatible_IJ
<1>4. S \subseteq 1..(Len(path) + 1)
  OBVIOUS
<1>5. getPosLowLimit(path, n) = Min(S)
  BY DEF getPosLowLimit
<1> HIDE DEF S
<1>6. Min(S) \in S
  BY <1>2, MinIsMember
<1> DEFINE low == getPosLowLimit(path, n)
<1> HIDE DEF low
<1>7. low \in 1..(Len(path) + 1) /\ low # 1
  BY <1>3, <1>4, <1>5, <1>6 DEF low
<1>8. low \in 2..(Len(path) + 1)
  BY <1>1, <1>7
<1>9. QED
  BY <1>8 DEF low

\* The upper limit of the positions is on the path, for it ends at an end.
LEMMA HighLimit ==
  ASSUME NEW v, NEW w, NEW path \in Seq(Stop), FromStartToEnd(v, path), NEW n
  PROVE  getPosHighLimit(w, path, n) \in 1..Len(path)
<1> DEFINE S == {p \in 1..(Len(path) + 1) :
                  \A q \in 1..(p - 1) : is_compatible_IJ(path[q].node, n, SpeedOf(w))}
           high == Len(path) + 1
<1>1. Len(path) \in Nat /\ Len(path) >= 2 /\ path[Len(path)].node = EndSite(v)
  BY DEF FromStartToEnd
<1>2. S \in SUBSET Nat /\ S # {}
  <2>1. 1 \in S
    BY <1>1
  <2>2. QED
    BY <2>1
<1>3. high \notin S
  <2>1. Len(path) \in 1..(high - 1)
    BY <1>1
  <2>2. ~is_compatible_IJ(EndSite(v), n, SpeedOf(w))
    BY KindsDiffer DEF is_compatible_IJ
  <2>3. QED
    BY <1>1, <2>1, <2>2
<1>4. S \subseteq 1..high /\ \A x \in S : x <= high
  OBVIOUS
<1>5. getPosHighLimit(w, path, n) = Max(S)
  BY DEF getPosHighLimit
<1>6. high \in Nat
  BY <1>1
<1> HIDE DEF S
<1>7. Max(S) \in S
  <2> HIDE DEF high
  <2>1. QED
    BY <1>2, <1>4, <1>6, MaxIsMember
<1> DEFINE last == getPosHighLimit(w, path, n)
<1>8. last \in 1..high /\ last # high
  <2> HIDE DEF high
  <2>1. QED
    BY <1>3, <1>4, <1>5, <1>7
<1> HIDE DEF last
<1>9. last \in 1..Len(path)
  BY <1>1, <1>8
<1>10. QED
  BY <1>9 DEF last

-----------------------------------------------------------------------------

(***************************************************************************)
(* The operations on a vehicle.                                            *)
(***************************************************************************)

VehicleType ==
  [idx : Truck, path : Seq(Stop), orders : SUBSET Order, user_twv : Nat, user_cv : Nat]

\* A vehicle whose path and orders are replaced.
WithFields(t, path, orders) == [t EXCEPT !.path = path, !.orders = orders]

\* The fields of a vehicle with another path and another set of orders.
LEMMA VehicleFields ==
  ASSUME NEW t \in VehicleType, NEW path \in Seq(Stop), NEW orders \in SUBSET Order,
         NEW u, u = WithFields(t, path, orders)
  PROVE  /\ u \in VehicleType /\ u.idx = t.idx /\ u.path = path /\ u.orders = orders
         /\ u.user_twv = t.user_twv /\ u.user_cv = t.user_cv
<1> DEFINE P == Seq(Stop)
<1>1. /\ t \in [idx : Truck, path : P, orders : SUBSET Order, user_twv : Nat, user_cv : Nat]
      /\ path \in P
  BY DEF VehicleType
<1> HIDE DEF P
<1>2. /\ u \in [idx : Truck, path : P, orders : SUBSET Order, user_twv : Nat, user_cv : Nat]
      /\ u.idx = t.idx /\ u.path = path /\ u.orders = orders
      /\ u.user_twv = t.user_twv /\ u.user_cv = t.user_cv
  BY <1>1 DEF WithFields
<1>3. QED
  BY <1>2 DEF VehicleType, P

\* The types of the fields of a vehicle.
LEMMA VehicleFacts ==
  ASSUME NEW t \in VehicleType
  PROVE  /\ t.idx \in Truck /\ t.path \in Seq(Stop) /\ t.orders \in SUBSET Order
         /\ t.user_twv \in Nat /\ t.user_cv \in Nat
  BY DEF VehicleType

\* The two nodes of an order are nodes.
LEMMA OrderNodes ==
  ASSUME NEW o \in Order
  PROVE  /\ Pickup(o) \in OrderNode /\ Delivery(o) \in OrderNode
         /\ Pickup(o) \in Node /\ Delivery(o) \in Node
  BY DEF OrderNode, Node

\* Its node at j is that of the path with the order inserted at p and q.
OrderedNode(path, o, p, q, j) ==
  IF j < p THEN path[j].node
  ELSE IF j = p THEN Pickup(o)
  ELSE IF j < q THEN path[j - 1].node
  ELSE IF j = q THEN Delivery(o)
  ELSE path[j - 2].node

HasOrder(path, o, p, q, e) ==
  /\ e \in Seq(Stop)
  /\ Len(e) = Len(path) + 2
  /\ \A j \in 1..Len(e) : e[j].node = OrderedNode(path, o, p, q, j)

\* A pickup inserted, then a delivery behind it: the nodes of the path.
LEMMA TwoInsertions ==
  ASSUME NEW path \in Seq(Stop), NEW o, NEW p \in Int,
         NEW q \in 1..(Len(path) + 2), p < q,
         NEW mid, HasInserted(path, p, Pickup(o), mid),
         NEW e, HasInserted(mid, q, Delivery(o), e)
  PROVE  HasOrder(path, o, p, q, e)
<1>1. /\ Len(path) \in Nat /\ Len(mid) = Len(path) + 1
      /\ \A j \in 1..Len(mid) : mid[j].node = InsertedNode(path, p, Pickup(o), j)
  BY DEF HasInserted
<1>2. /\ e \in Seq(Stop) /\ Len(e) = Len(mid) + 1
      /\ \A j \in 1..Len(e) : e[j].node = InsertedNode(mid, q, Delivery(o), j)
  BY DEF HasInserted
<1>3. ASSUME NEW j \in 1..Len(e)
      PROVE  e[j].node = OrderedNode(path, o, p, q, j)
  <2>1. CASE j < q /\ j \in 1..Len(mid)
    BY <1>1, <1>2, <2>1 DEF InsertedNode, OrderedNode
  <2>2. CASE j = q
    BY <1>1, <1>2, <2>2 DEF InsertedNode, OrderedNode
  <2>3. CASE j > q /\ j - 1 \in 1..Len(mid)
    BY <1>1, <1>2, <2>3 DEF InsertedNode, OrderedNode
  <2>4. QED
    BY <1>1, <1>2, <2>1, <2>2, <2>3
<1>4. QED
  BY <1>1, <1>2, <1>3 DEF HasOrder

\* The vehicle u is t with the order at positions p and q of its path.
Gained(t, o, u) ==
  /\ u \in VehicleType /\ u.idx = t.idx /\ u.orders = t.orders \cup {o}
  /\ u.user_twv = t.user_twv /\ u.user_cv = t.user_cv
  /\ Coherent(u.idx, u.path)

\* Inserting an order at two positions keeps the caches right.
LEMMA WithOrderAtIs ==
  ASSUME NEW t \in VehicleType, Coherent(t.idx, t.path), NEW o \in Order,
         NEW p \in 1..(Len(t.path) + 1), NEW q \in 1..(Len(t.path) + 2),
         NEW u, u = WithOrderAt(t, o, p, q)
  PROVE  /\ Gained(t, o, u)
         /\ \E mid : /\ HasInserted(t.path, p, Pickup(o), mid)
                     /\ HasInserted(mid, q, Delivery(o), u.path)
<1> DEFINE mid == Insert(t.idx, t.path, p, Pickup(o))
           e == Insert(t.idx, mid, q, Delivery(o))
<1>1. t.idx \in Truck /\ t.path \in Seq(Stop) /\ t.orders \cup {o} \in SUBSET Order
  BY VehicleFacts
<1>2. Pickup(o) \in Node /\ Delivery(o) \in Node
  BY OrderNodes
<1>3. u = WithFields(t, e, t.orders \cup {o})
  BY DEF WithOrderAt, WithFields
<1> HIDE DEF e
<1>4. Coherent(t.idx, mid) /\ HasInserted(t.path, p, Pickup(o), mid)
  <2> HIDE DEF mid
  <2>1. mid = Insert(t.idx, t.path, p, Pickup(o))
    BY DEF mid
  <2>2. QED
    BY <1>1, <1>2, <2>1, InsertIs
<1> HIDE DEF mid
<1>5. mid \in Seq(Stop) /\ q \in 1..(Len(mid) + 1)
  BY <1>1, <1>4 DEF HasInserted
<1>6. Coherent(t.idx, e) /\ HasInserted(mid, q, Delivery(o), e)
  <2>1. e = Insert(t.idx, mid, q, Delivery(o))
    BY DEF e
  <2>2. QED
    BY <1>1, <1>2, <1>4, <1>5, <2>1, InsertIs
<1>7. e \in Seq(Stop)
  BY <1>6 DEF HasInserted
<1>8. /\ u \in VehicleType /\ u.idx = t.idx /\ u.path = e /\ u.orders = t.orders \cup {o}
      /\ u.user_twv = t.user_twv /\ u.user_cv = t.user_cv
  BY <1>1, <1>3, <1>7, VehicleFields
<1>9. QED
  BY <1>4, <1>6, <1>8 DEF Gained

\* The same when the pickup is in front of the delivery.
LEMMA OrderIsAt ==
  ASSUME NEW t \in VehicleType, Coherent(t.idx, t.path), NEW o \in Order,
         NEW p \in 1..(Len(t.path) + 1), NEW q \in 1..(Len(t.path) + 2), p < q,
         NEW u, u = WithOrderAt(t, o, p, q)
  PROVE  Gained(t, o, u) /\ HasOrder(t.path, o, p, q, u.path)
<1>1. PICK mid : /\ HasInserted(t.path, p, Pickup(o), mid)
                 /\ HasInserted(mid, q, Delivery(o), u.path)
  BY WithOrderAtIs
<1>2. Gained(t, o, u)
  BY WithOrderAtIs
<1>3. t.path \in Seq(Stop) /\ p \in Int
  BY VehicleFacts
<1>4. HasOrder(t.path, o, p, q, u.path)
  BY <1>1, <1>3, TwoInsertions
<1>5. QED
  BY <1>2, <1>4

\* push_back: the order is last.
LEMMA PushBackIs ==
  ASSUME NEW t \in VehicleType, Coherent(t.idx, t.path), Len(t.path) >= 1,
         NEW o \in Order, NEW u, u = push_back(t, o)
  PROVE  /\ Gained(t, o, u)
         /\ HasOrder(t.path, o, Len(t.path), Len(t.path) + 1, u.path)
<1> DEFINE n == Len(t.path)
           mid == InsertNode(t.path, n, Pickup(o))
           longer == InsertNode(mid, n + 1, Delivery(o))
           e == Evaluate(t.idx, longer, n)
<1>1. /\ t.idx \in Truck /\ t.path \in Seq(Stop) /\ t.orders \cup {o} \in SUBSET Order
      /\ n \in Nat /\ n >= 1
  BY VehicleFacts
<1>2. Pickup(o) \in Node /\ Delivery(o) \in Node
  BY OrderNodes
<1>3. u = WithFields(t, e, t.orders \cup {o})
  BY DEF push_back, WithFields
<1>4. /\ HasInserted(t.path, n, Pickup(o), mid)
      /\ \A j \in 1..n : j < n => mid[j] = t.path[j]
  <2> HIDE DEF mid
  <2>1. mid = InsertNode(t.path, n, Pickup(o)) /\ n \in 1..(Len(t.path) + 1)
    BY <1>1 DEF mid
  <2>2. QED
    BY <1>1, <1>2, <2>1, InsertNodeIs
<1> HIDE DEF e, mid
<1>5. mid \in Seq(Stop) /\ Len(mid) = n + 1
  BY <1>4 DEF HasInserted
<1>6. /\ HasInserted(mid, n + 1, Delivery(o), longer)
      /\ \A j \in 1..(n + 1) : j < n + 1 => longer[j] = mid[j]
  <2> HIDE DEF longer
  <2>1. longer = InsertNode(mid, n + 1, Delivery(o)) /\ n + 1 \in 1..(Len(mid) + 1)
    BY <1>1, <1>5 DEF longer
  <2>2. QED
    BY <1>2, <1>5, <2>1, InsertNodeIs, SMTT(60)
<1> HIDE DEF longer
<1>7. HasOrder(t.path, o, n, n + 1, longer)
  <2>1. n \in Int /\ n + 1 \in 1..(Len(t.path) + 2) /\ n < n + 1
    BY <1>1
  <2>2. QED
    BY <1>1, <1>4, <1>6, <2>1, TwoInsertions
<1>8. longer \in Seq(Stop) /\ Len(longer) = n + 2
  BY <1>7 DEF HasOrder
<1>9. \A p \in 1..Len(longer) : p < n => Right(t.idx, longer, p)
  <2>1. TAKE p \in 1..Len(longer)
  <2>2. HAVE p < n
  <2>3. p \in 1..n /\ (p > 1 => p - 1 \in 1..n)
    BY <1>1, <1>8, <2>2
  <2>4. \A j \in 1..n : j < n => longer[j] = t.path[j]
    BY <1>1, <1>4, <1>6
  <2>5. longer[p] = t.path[p] /\ (p > 1 => longer[p - 1] = t.path[p - 1])
    BY <1>1, <2>2, <2>3, <2>4
  <2>6. Right(t.idx, t.path, p)
    BY <2>3 DEF Coherent
  <2>7. QED
    BY <2>5, <2>6 DEF Right, StopAt
<1>10. e \in Seq(Stop) /\ Coherent(t.idx, e) /\ SameNodes(e, longer)
  BY <1>1, <1>8, <1>9, EvaluateIsCoherent, SMTT(60) DEF e
<1>11. HasOrder(t.path, o, n, n + 1, e)
  BY <1>7, <1>10 DEF SameNodes, HasOrder
<1>12. /\ u \in VehicleType /\ u.idx = t.idx /\ u.path = e /\ u.orders = t.orders \cup {o}
       /\ u.user_twv = t.user_twv /\ u.user_cv = t.user_cv
  BY <1>1, <1>3, <1>10, VehicleFields
<1>13. QED
  BY <1>10, <1>11, <1>12 DEF Gained

-----------------------------------------------------------------------------

(***************************************************************************)
(* What inserting and erasing a node keep of a path.                       *)
(***************************************************************************)

\* No node is visited twice.
Once(path) ==
  \A p, q \in 1..Len(path) : path[p].node = path[q].node => p = q

\* Of these orders, none is delivered before it is picked up.
Ordered(path, orders) ==
  \A o \in orders, q \in 1..Len(path) :
    path[q].node = Delivery(o) => \E p \in 1..(q - 1) : path[p].node = Pickup(o)

\* The nodes of a path, by position.
LEMMA VisitedNodes ==
  ASSUME NEW path \in Seq(Stop)
  PROVE  /\ Nodes(path) = {path[p].node : p \in 1..Len(path)}
         /\ \A n : n \in Nodes(path) <=> \E p \in 1..Len(path) : path[p].node = n
<1>1. DOMAIN path = 1..Len(path)
  OBVIOUS
<1>2. QED
  BY <1>1 DEF Nodes

\* What an insertion keeps: ends, order of pickups and deliveries, no node twice.
LEMMA InsertKeeps ==
  ASSUME NEW path \in Seq(Stop), NEW pos \in 1..(Len(path) + 1), NEW n,
         NEW e, HasInserted(path, pos, n, e)
  PROVE  /\ Nodes(e) = Nodes(path) \cup {n}
         /\ n \notin Nodes(path) /\ Once(path) => Once(e)
         /\ \A v : FromStartToEnd(v, path) /\ pos \in 2..Len(path) /\ n \in OrderNode
                  => FromStartToEnd(v, e)
         /\ \A orders :
              /\ Ordered(path, orders)
              /\ \A o \in orders :
                   n = Delivery(o) => \E p \in 1..(pos - 1) : path[p].node = Pickup(o)
              => Ordered(e, orders)
<1>1. Len(path) \in Nat /\ e \in Seq(Stop) /\ Len(e) = Len(path) + 1 /\ pos \in 1..Len(e)
  BY DEF HasInserted
<1>2. \A j \in 1..Len(e) : e[j].node = InsertedNode(path, pos, n, j)
  BY DEF HasInserted
\* Where the stops of the path come from and where they go.
<1>3. \A j \in 1..Len(e) :
        /\ j < pos => j \in 1..Len(path) /\ e[j].node = path[j].node
        /\ j = pos => e[j].node = n
        /\ j > pos => j - 1 \in 1..Len(path) /\ e[j].node = path[j - 1].node
  BY <1>1, <1>2 DEF InsertedNode
<1>4. \A k \in 1..Len(path) :
        /\ k < pos => k \in 1..Len(e) /\ e[k].node = path[k].node
        /\ k >= pos => k + 1 \in 1..Len(e) /\ e[k + 1].node = path[k].node
  <2>1. TAKE k \in 1..Len(path)
  <2>2. CASE k < pos
    <3>1. k \in 1..Len(e) /\ ~(k >= pos)
      BY <1>1, <2>2
    <3>2. QED
      BY <1>3, <2>2, <3>1
  <2>3. CASE k >= pos
    <3>1. k + 1 \in 1..Len(e) /\ k + 1 > pos /\ (k + 1) - 1 = k /\ ~(k < pos)
      BY <1>1, <2>3
    <3>2. e[k + 1].node = path[(k + 1) - 1].node
      BY <1>3, <3>1
    <3>3. QED
      BY <3>1, <3>2
  <2>4. QED
    BY <1>1, <2>2, <2>3
<1>5. Nodes(e) = Nodes(path) \cup {n}
  <2>1. ASSUME NEW j \in 1..Len(e)
        PROVE  e[j].node \in Nodes(path) \cup {n}
    <3>1. j < pos \/ j = pos \/ j > pos
      BY <1>1
    <3>2. QED
      BY <1>3, <3>1, VisitedNodes
  <2>2. ASSUME NEW k \in 1..Len(path)
        PROVE  path[k].node \in Nodes(e)
    <3>1. k < pos \/ k >= pos
      BY <1>1
    <3>2. QED
      BY <1>1, <1>4, <3>1, VisitedNodes
  <2>3. n \in Nodes(e)
    BY <1>1, <1>3, VisitedNodes
  <2>4. ASSUME NEW m
        PROVE  m \in Nodes(e) <=> m \in Nodes(path) \cup {n}
    <3>1. CASE m \in Nodes(e)
      <4>1. PICK j \in 1..Len(e) : e[j].node = m
        BY <1>1, <3>1, VisitedNodes
      <4>2. QED
        BY <2>1, <3>1, <4>1
    <3>2. CASE m \in Nodes(path)
      <4>1. PICK k \in 1..Len(path) : path[k].node = m
        BY <3>2, VisitedNodes
      <4>2. QED
        BY <2>2, <3>2, <4>1
    <3>3. QED
      BY <2>3, <3>1, <3>2
  <2>5. QED
    BY <2>4
<1>6. ASSUME n \notin Nodes(path), Once(path)
      PROVE  Once(e)
  <2>1. \A k \in 1..Len(path) : path[k].node # n
    BY <1>6, VisitedNodes
  <2>2. ASSUME NEW j \in 1..Len(e), NEW k \in 1..Len(e), e[j].node = e[k].node
        PROVE  j = k
    <3>1. CASE j = pos \/ k = pos
      <4>1. j < pos \/ j = pos \/ j > pos
        BY <1>1
      <4>2. k < pos \/ k = pos \/ k > pos
        BY <1>1
      <4>3. QED
        BY <1>3, <2>1, <2>2, <3>1, <4>1, <4>2, ZenonT(60)
    <3>2. CASE j # pos /\ k # pos
      <4> DEFINE a == IF j < pos THEN j ELSE j - 1
                 b == IF k < pos THEN k ELSE k - 1
      <4>1. a \in 1..Len(path) /\ e[j].node = path[a].node
        BY <1>1, <1>3, <3>2
      <4>2. b \in 1..Len(path) /\ e[k].node = path[b].node
        BY <1>1, <1>3, <3>2
      <4>3. a = b
        <5> HIDE DEF a, b
        <5>1. QED
          BY <1>6, <2>2, <4>1, <4>2 DEF Once
      <4>4. QED
        BY <1>1, <3>2, <4>3
    <3>3. QED
      BY <3>1, <3>2
  <2>3. QED
    BY <2>2 DEF Once
<1>7. ASSUME NEW v, FromStartToEnd(v, path), pos \in 2..Len(path), n \in OrderNode
      PROVE  FromStartToEnd(v, e)
  <2>1. /\ Len(path) >= 2 /\ path[1].node = StartSite(v) /\ path[Len(path)].node = EndSite(v)
        /\ \A p \in 2..(Len(path) - 1) : path[p].node \in OrderNode
    BY <1>7 DEF FromStartToEnd
  <2>2. e[1].node = StartSite(v)
    <3>1. 1 \in 1..Len(e) /\ 1 < pos
      BY <1>1, <1>7
    <3>2. QED
      BY <1>3, <2>1, <3>1
  <2>3. e[Len(e)].node = EndSite(v)
    <3>1. Len(e) \in 1..Len(e) /\ Len(e) > pos /\ Len(e) - 1 = Len(path)
      BY <1>1, <1>7
    <3>2. QED
      BY <1>3, <2>1, <3>1
  <2>4. ASSUME NEW j \in 2..(Len(e) - 1)
        PROVE  e[j].node \in OrderNode
    <3>1. j \in 1..Len(e) /\ (j < pos \/ j = pos \/ j > pos)
      BY <1>1
    <3>2. (j < pos => j \in 2..(Len(path) - 1)) /\ (j > pos => j - 1 \in 2..(Len(path) - 1))
      BY <1>1, <1>7
    <3>3. QED
      BY <1>3, <1>7, <2>1, <3>1, <3>2
  <2>5. QED
    BY <1>1, <2>1, <2>2, <2>3, <2>4 DEF FromStartToEnd
<1>8. ASSUME NEW orders, Ordered(path, orders),
             \A o \in orders :
               n = Delivery(o) => \E p \in 1..(pos - 1) : path[p].node = Pickup(o)
      PROVE  Ordered(e, orders)
  <2>1. SUFFICES ASSUME NEW o \in orders, NEW j \in 1..Len(e), e[j].node = Delivery(o)
                 PROVE  \E i \in 1..(j - 1) : e[i].node = Pickup(o)
    BY DEF Ordered
  <2>2. \E k \in 1..Len(path) : /\ path[k].node = Pickup(o)
                                /\ k < pos => k < j
                                /\ k >= pos => k + 1 < j
    <3>1. CASE j = pos
      <4>1. n = Delivery(o)
        BY <1>3, <2>1, <3>1
      <4>2. PICK k \in 1..(pos - 1) : path[k].node = Pickup(o)
        BY <1>8, <4>1
      <4>3. k \in 1..Len(path) /\ k < pos
        BY <1>1
      <4>4. QED
        BY <3>1, <4>2, <4>3
    <3>2. CASE j < pos
      <4>1. j \in 1..Len(path) /\ path[j].node = Delivery(o)
        BY <1>3, <2>1, <3>2
      <4>2. PICK k \in 1..(j - 1) : path[k].node = Pickup(o)
        BY <1>8, <4>1 DEF Ordered
      <4>3. k \in 1..Len(path) /\ k < pos /\ k < j
        BY <1>1, <3>2
      <4>4. QED
        BY <4>2, <4>3
    <3>3. CASE j > pos
      <4>1. j - 1 \in 1..Len(path) /\ path[j - 1].node = Delivery(o)
        BY <1>3, <2>1, <3>3
      <4>2. PICK k \in 1..(j - 1 - 1) : path[k].node = Pickup(o)
        BY <1>8, <4>1 DEF Ordered
      <4>3. k \in 1..Len(path) /\ k + 1 < j /\ k < j
        BY <1>1
      <4>4. QED
        BY <4>2, <4>3
    <3>4. QED
      BY <1>1, <3>1, <3>2, <3>3
  <2>3. PICK k \in 1..Len(path) : /\ path[k].node = Pickup(o)
                                  /\ k < pos => k < j
                                  /\ k >= pos => k + 1 < j
    BY <2>2
  <2>4. CASE k < pos
    <3>1. e[k].node = Pickup(o)
      BY <1>4, <2>3, <2>4
    <3>2. k \in 1..(j - 1)
      BY <1>1, <2>3, <2>4
    <3>3. QED
      BY <3>1, <3>2
  <2>5. CASE k >= pos
    <3>1. e[k + 1].node = Pickup(o)
      BY <1>4, <2>3, <2>5
    <3>2. k + 1 \in 1..(j - 1)
      BY <1>1, <2>3, <2>5
    <3>3. QED
      BY <3>1, <3>2
  <2>6. QED
    BY <1>1, <2>4, <2>5
<1>9. QED
  BY <1>5, <1>6, <1>7, <1>8

\* What a removal keeps.
LEMMA EraseKeeps ==
  ASSUME NEW path \in Seq(Stop), NEW pos \in 1..Len(path),
         NEW e, HasErased(path, pos, e)
  PROVE  /\ Nodes(e) \subseteq Nodes(path)
         /\ Nodes(path) \subseteq Nodes(e) \cup {path[pos].node}
         /\ Once(path) => Once(e) /\ path[pos].node \notin Nodes(e)
         /\ \A v : FromStartToEnd(v, path) /\ path[pos].node \in OrderNode
                  => FromStartToEnd(v, e)
         /\ \A orders :
              /\ Ordered(path, orders)
              /\ \A o \in orders : path[pos].node # Pickup(o)
              => Ordered(e, orders)
<1>1. Len(path) \in Nat /\ e \in Seq(Stop) /\ Len(e) = Len(path) - 1
  BY DEF HasErased
<1>2. \A j \in 1..Len(e) : e[j].node = IF j < pos THEN path[j].node ELSE path[j + 1].node
  BY DEF HasErased
\* Where the stops of the shorter path come from and where the others go.
<1>3. \A j \in 1..Len(e) :
        /\ j < pos => j \in 1..Len(path) /\ e[j].node = path[j].node
        /\ j >= pos => j + 1 \in 1..Len(path) /\ e[j].node = path[j + 1].node
  BY <1>1, <1>2
<1>4. \A k \in 1..Len(path) :
        /\ k < pos => k \in 1..Len(e) /\ e[k].node = path[k].node
        /\ k > pos => k - 1 \in 1..Len(e) /\ e[k - 1].node = path[k].node
  <2>1. TAKE k \in 1..Len(path)
  <2>2. CASE k < pos
    <3>1. k \in 1..Len(e) /\ ~(k > pos)
      BY <1>1, <2>2
    <3>2. QED
      BY <1>3, <2>2, <3>1
  <2>3. CASE k > pos
    <3>1. k - 1 \in 1..Len(e) /\ k - 1 >= pos /\ (k - 1) + 1 = k /\ ~(k < pos)
      BY <1>1, <2>3
    <3>2. e[k - 1].node = path[(k - 1) + 1].node
      BY <1>3, <3>1
    <3>3. QED
      BY <3>1, <3>2
  <2>4. QED
    BY <1>1, <2>2, <2>3
<1>5. Nodes(e) \subseteq Nodes(path)
  <2>1. ASSUME NEW m \in Nodes(e)
        PROVE  m \in Nodes(path)
    <3>1. PICK j \in 1..Len(e) : e[j].node = m
      BY <1>1, <2>1, VisitedNodes
    <3>2. j < pos \/ j >= pos
      BY <1>1
    <3>3. QED
      BY <1>3, <3>1, <3>2, VisitedNodes
  <2>2. QED
    BY <2>1
<1>6. Nodes(path) \subseteq Nodes(e) \cup {path[pos].node}
  <2>1. ASSUME NEW m \in Nodes(path)
        PROVE  m \in Nodes(e) \cup {path[pos].node}
    <3>1. PICK k \in 1..Len(path) : path[k].node = m
      BY <2>1, VisitedNodes
    <3>2. k < pos \/ k = pos \/ k > pos
      BY <1>1
    <3>3. QED
      BY <1>1, <1>4, <3>1, <3>2, VisitedNodes
  <2>2. QED
    BY <2>1
<1>7. ASSUME Once(path)
      PROVE  Once(e) /\ path[pos].node \notin Nodes(e)
  <2>1. ASSUME NEW j \in 1..Len(e), NEW k \in 1..Len(e), e[j].node = e[k].node
        PROVE  j = k
    <3> DEFINE a == IF j < pos THEN j ELSE j + 1
               b == IF k < pos THEN k ELSE k + 1
    <3>1. a \in 1..Len(path) /\ e[j].node = path[a].node
      BY <1>1, <1>3
    <3>2. b \in 1..Len(path) /\ e[k].node = path[b].node
      BY <1>1, <1>3
    <3>3. a = b
      <4> HIDE DEF a, b
      <4>1. QED
        BY <1>7, <2>1, <3>1, <3>2 DEF Once
    <3>4. QED
      BY <1>1, <3>3
  <2>2. ASSUME NEW j \in 1..Len(e), e[j].node = path[pos].node
        PROVE  FALSE
    <3> DEFINE a == IF j < pos THEN j ELSE j + 1
    <3>1. a \in 1..Len(path) /\ e[j].node = path[a].node
      BY <1>1, <1>3
    <3>2. a = pos
      <4> HIDE DEF a
      <4>1. QED
        BY <1>7, <2>2, <3>1 DEF Once
    <3>3. QED
      BY <1>1, <3>2
  <2>3. path[pos].node \notin Nodes(e)
    BY <1>1, <2>2, VisitedNodes
  <2>4. QED
    BY <2>1, <2>3 DEF Once
<1>8. ASSUME NEW v, FromStartToEnd(v, path), path[pos].node \in OrderNode
      PROVE  FromStartToEnd(v, e)
  <2>1. /\ Len(path) >= 2 /\ path[1].node = StartSite(v) /\ path[Len(path)].node = EndSite(v)
        /\ \A p \in 2..(Len(path) - 1) : path[p].node \in OrderNode
    BY <1>8 DEF FromStartToEnd
  <2>2. StartSite(v) \notin OrderNode /\ EndSite(v) \notin OrderNode
    BY KindsDiffer DEF OrderNode
  <2>3. pos # 1 /\ pos # Len(path)
    BY <1>8, <2>1, <2>2
  <2>4. Len(e) >= 2 /\ pos > 1 /\ pos < Len(path)
    BY <1>1, <2>1, <2>3
  <2>5. e[1].node = StartSite(v)
    <3>1. 1 \in 1..Len(e) /\ 1 < pos
      BY <1>1, <2>4
    <3>2. QED
      BY <1>3, <2>1, <3>1
  <2>6. e[Len(e)].node = EndSite(v)
    <3>1. Len(e) \in 1..Len(e) /\ Len(e) >= pos /\ Len(e) + 1 = Len(path)
      BY <1>1, <2>4
    <3>2. QED
      BY <1>3, <2>1, <3>1
  <2>7. ASSUME NEW j \in 2..(Len(e) - 1)
        PROVE  e[j].node \in OrderNode
    <3>1. /\ j \in 1..Len(e) /\ (j < pos \/ j >= pos)
          /\ j \in 2..(Len(path) - 1) /\ j + 1 \in 2..(Len(path) - 1)
      BY <1>1
    <3>2. QED
      BY <1>3, <2>1, <3>1
  <2>8. QED
    BY <2>4, <2>5, <2>6, <2>7 DEF FromStartToEnd
<1>9. ASSUME NEW orders, Ordered(path, orders),
             \A o \in orders : path[pos].node # Pickup(o)
      PROVE  Ordered(e, orders)
  <2>1. SUFFICES ASSUME NEW o \in orders, NEW j \in 1..Len(e), e[j].node = Delivery(o)
                 PROVE  \E i \in 1..(j - 1) : e[i].node = Pickup(o)
    BY DEF Ordered
  <2>2. \E k \in 1..Len(path) :
          /\ path[k].node = Pickup(o)
          /\ k < pos => k < j
          /\ k > pos => k - 1 < j
    <3>1. CASE j < pos
      <4>1. j \in 1..Len(path) /\ path[j].node = Delivery(o)
        BY <1>3, <2>1, <3>1
      <4>2. PICK k \in 1..(j - 1) : path[k].node = Pickup(o)
        BY <1>9, <4>1 DEF Ordered
      <4>3. k \in 1..Len(path) /\ k < j /\ k - 1 < j
        BY <1>1
      <4>4. QED
        BY <4>2, <4>3
    <3>2. CASE j >= pos
      <4>1. j + 1 \in 1..Len(path) /\ path[j + 1].node = Delivery(o)
        BY <1>3, <2>1, <3>2
      <4>2. PICK k \in 1..(j + 1 - 1) : path[k].node = Pickup(o)
        BY <1>9, <4>1 DEF Ordered
      <4>3. k \in 1..Len(path) /\ (k < pos => k < j) /\ k - 1 < j
        BY <1>1, <3>2
      <4>4. QED
        BY <4>2, <4>3
    <3>3. QED
      BY <1>1, <3>1, <3>2
  <2>3. PICK k \in 1..Len(path) :
          /\ path[k].node = Pickup(o)
          /\ k < pos => k < j
          /\ k > pos => k - 1 < j
    BY <2>2
  <2>4. k # pos
    BY <1>9, <2>3
  <2>5. CASE k < pos
    <3>1. e[k].node = Pickup(o)
      BY <1>4, <2>3, <2>5
    <3>2. k \in 1..(j - 1)
      BY <1>1, <2>3, <2>5
    <3>3. QED
      BY <3>1, <3>2
  <2>6. CASE k > pos
    <3>1. e[k - 1].node = Pickup(o)
      BY <1>4, <2>3, <2>6
    <3>2. k - 1 \in 1..(j - 1)
      BY <1>1, <2>3, <2>6
    <3>3. QED
      BY <3>1, <3>2
  <2>7. QED
    BY <1>1, <2>4, <2>5, <2>6
<1>10. QED
  BY <1>5, <1>6, <1>7, <1>8, <1>9

\* A node erased is a node inserted, the other way round.
LEMMA ErasedIsInserted ==
  ASSUME NEW path \in Seq(Stop), NEW pos \in 1..Len(path), NEW e, HasErased(path, pos, e)
  PROVE  /\ HasInserted(e, pos, path[pos].node, path)
         /\ e \in Seq(Stop) /\ pos \in 1..(Len(e) + 1)
<1>1. /\ Len(path) \in Nat /\ e \in Seq(Stop) /\ Len(e) = Len(path) - 1
      /\ \A j \in 1..Len(e) : e[j].node = IF j < pos THEN path[j].node ELSE path[j + 1].node
  BY DEF HasErased
<1>2. ASSUME NEW j \in 1..Len(path)
      PROVE  path[j].node = InsertedNode(e, pos, path[pos].node, j)
  <2>1. CASE j < pos
    BY <1>1, <2>1 DEF InsertedNode
  <2>2. CASE j = pos
    BY <2>2 DEF InsertedNode
  <2>3. CASE j > pos
    <3>1. j - 1 \in 1..Len(e) /\ ~(j - 1 < pos) /\ (j - 1) + 1 = j
      BY <1>1, <2>3
    <3>2. e[j - 1].node = path[j].node
      BY <1>1, <3>1
    <3>3. QED
      BY <2>3, <3>2 DEF InsertedNode
  <2>4. QED
    BY <1>1, <2>1, <2>2, <2>3
<1>3. QED
  BY <1>1, <1>2 DEF HasInserted

\* How often a node is visited is counted stop by stop.
LEMMA TimesIs ==
  ASSUME NEW path, NEW n
  PROVE  /\ Times(path, n, 0) = 0
         /\ \A q \in Nat : Times(path, n, q) \in Nat
         /\ \A q \in Nat \ {0} :
              Times(path, n, q) = Times(path, n, q - 1) + (IF path[q].node = n THEN 1 ELSE 0)
<1> DEFINE Visits(q) == {p \in 1..q : path[p].node = n}
<1>1. Visits(0) = {}
  OBVIOUS
<1>2. ASSUME NEW q \in Nat
      PROVE  IsFiniteSet(Visits(q)) /\ Cardinality(Visits(q)) \in Nat
  <2>1. IsFiniteSet(1..q) /\ Visits(q) \subseteq 1..q
    BY FS_Interval
  <2> HIDE DEF Visits
  <2>2. QED
    BY <2>1, FS_Subset, FS_CardinalityType
<1>3. ASSUME NEW q \in Nat \ {0}
      PROVE  Cardinality(Visits(q)) = Cardinality(Visits(q - 1)) + (IF path[q].node = n THEN 1 ELSE 0)
  <2>1. q - 1 \in Nat /\ 1..q = (1..(q - 1)) \cup {q} /\ q \notin 1..(q - 1)
    OBVIOUS
  <2>2. IsFiniteSet(Visits(q - 1)) /\ Cardinality(Visits(q - 1)) \in Nat
    BY <1>2, <2>1
  <2>3. CASE path[q].node = n
    <3>1. Visits(q) = Visits(q - 1) \cup {q} /\ q \notin Visits(q - 1)
      BY <2>1, <2>3
    <3> HIDE DEF Visits
    <3>2. Cardinality(Visits(q)) = Cardinality(Visits(q - 1)) + 1
      BY <2>2, <3>1, FS_AddElement
    <3>3. QED
      BY <2>3, <3>2
  <2>4. CASE path[q].node # n
    <3>1. Visits(q) = Visits(q - 1)
      BY <2>1, <2>4
    <3> HIDE DEF Visits
    <3>2. QED
      BY <2>2, <2>4, <3>1
  <2>5. QED
    BY <2>3, <2>4
<1> HIDE DEF Visits
<1>4. \A q \in Nat : Times(path, n, q) = Cardinality(Visits(q))
  BY DEF Times, Visits
<1>5. Cardinality(Visits(0)) = 0
  BY <1>1, FS_EmptySet
<1>6. QED
  <2>1. \A q \in Nat \ {0} : q \in Nat /\ q - 1 \in Nat
    OBVIOUS
  <2>2. QED
    BY <1>2, <1>3, <1>4, <1>5, <2>1

\* A node is counted if it is visited, once if the path visits nothing twice.
LEMMA TimesVisited ==
  ASSUME NEW path, NEW n, NEW q \in Nat
  PROVE  /\ Times(path, n, q) = 0 <=> \A p \in 1..q : path[p].node # n
         /\ (\A p, r \in 1..q : path[p].node = path[r].node => p = r) =>
              Times(path, n, q) = IF \E p \in 1..q : path[p].node = n THEN 1 ELSE 0
<1> DEFINE Visits == {p \in 1..q : path[p].node = n}
<1>1. IsFiniteSet(Visits)
  <2>1. IsFiniteSet(1..q) /\ Visits \subseteq 1..q
    BY FS_Interval
  <2> HIDE DEF Visits
  <2>2. QED
    BY <2>1, FS_Subset
<1>2. Cardinality(Visits) = 0 <=> Visits = {}
  <2> HIDE DEF Visits
  <2>1. QED
    BY <1>1, FS_EmptySet
<1>3. Times(path, n, q) = Cardinality(Visits)
  BY DEF Times
<1>4. Visits = {} <=> \A p \in 1..q : path[p].node # n
  OBVIOUS
<1>5. ASSUME \A p, r \in 1..q : path[p].node = path[r].node => p = r,
             NEW p \in 1..q, path[p].node = n
      PROVE  Cardinality(Visits) = 1
  <2>1. Visits = {p}
    BY <1>5
  <2> HIDE DEF Visits
  <2>2. QED
    BY <2>1, FS_Singleton
<1> HIDE DEF Visits
<1>6. QED
  BY <1>2, <1>3, <1>4, <1>5

\* An insertion adds one visit, from its position on.
LEMMA InsertTimes ==
  ASSUME NEW path \in Seq(Stop), NEW pos \in 1..(Len(path) + 1), NEW n,
         NEW e, HasInserted(path, pos, n, e), NEW m
  PROVE  \A q \in 0..Len(e) :
           Times(e, m, q) = IF q < pos THEN Times(path, m, q)
                            ELSE Times(path, m, q - 1) + (IF m = n THEN 1 ELSE 0)
<1> DEFINE Counted(q) == Times(e, m, q) = IF q < pos THEN Times(path, m, q)
                                         ELSE Times(path, m, q - 1) + (IF m = n THEN 1 ELSE 0)
           Good == {q \in 0..Len(e) : Counted(q)}
<1>1. /\ Len(path) \in Nat /\ Len(e) = Len(path) + 1 /\ Len(e) \in Nat /\ pos \in Nat /\ pos >= 1
      /\ \A j \in 1..Len(e) : e[j].node = InsertedNode(path, pos, n, j)
  BY DEF HasInserted
<1>2. Times(e, m, 0) = 0 /\ Times(path, m, 0) = 0
  BY TimesIs
<1>3. 0 \in Good
  BY <1>1, <1>2
<1>4. \A q \in Nat : Times(path, m, q) \in Nat
  BY TimesIs
<1>5. ASSUME NEW q \in 1..Len(e), q - 1 \in Good
      PROVE  q \in Good
  <2>1. Counted(q - 1) /\ q \in Nat \ {0} /\ q - 1 \in Nat /\ q \in 0..Len(e)
    BY <1>1, <1>5
  <2>2. Times(e, m, q) = Times(e, m, q - 1) + (IF e[q].node = m THEN 1 ELSE 0)
    BY <2>1, TimesIs
  <2>3. CASE q < pos
    <3>1. Times(e, m, q - 1) = Times(path, m, q - 1) /\ e[q].node = path[q].node
      BY <1>1, <2>1, <2>3 DEF InsertedNode
    <3>2. Times(path, m, q) = Times(path, m, q - 1) + (IF path[q].node = m THEN 1 ELSE 0)
      BY <2>1, TimesIs
    <3>3. QED
      BY <2>1, <2>2, <2>3, <3>1, <3>2
  <2>4. CASE q = pos
    <3>1. Times(e, m, q - 1) = Times(path, m, q - 1) /\ e[q].node = n
      BY <1>1, <2>1, <2>4 DEF InsertedNode
    <3>2. QED
      BY <2>1, <2>2, <2>4, <3>1
  <2>5. CASE q > pos
    <3>1. Times(e, m, q - 1) = Times(path, m, q - 2) + (IF m = n THEN 1 ELSE 0)
      BY <1>1, <2>1, <2>5
    <3>2. e[q].node = path[q - 1].node
      BY <1>1, <2>5 DEF InsertedNode
    <3>3. q - 1 \in Nat \ {0} /\ (q - 1) - 1 = q - 2 /\ q - 2 \in Nat
      BY <1>1, <2>5
    <3>4. Times(path, m, q - 1) = Times(path, m, q - 2) + (IF path[q - 1].node = m THEN 1 ELSE 0)
      <4>1. \A k \in Nat \ {0} :
              Times(path, m, k) = Times(path, m, k - 1) + (IF path[k].node = m THEN 1 ELSE 0)
        BY TimesIs
      <4>2. QED
        BY <3>3, <4>1
    <3>5. Times(path, m, q - 2) \in Nat
      BY <1>4, <3>3
    <3>6. Times(e, m, q) = Times(path, m, q - 1) + (IF m = n THEN 1 ELSE 0)
      BY <2>2, <3>1, <3>2, <3>4, <3>5
    <3>7. QED
      BY <1>1, <2>1, <2>5, <3>6
  <2>6. QED
    BY <1>1, <2>3, <2>4, <2>5
<1>6. \A q \in 0..Len(e) : q \in Good
  <2> HIDE DEF Good
  <2>1. QED
    BY <1>1, <1>3, <1>5, Upward
<1>7. QED
  BY <1>6

-----------------------------------------------------------------------------

(***************************************************************************)
(* A vehicle that is as it should be, between two operations.              *)
(***************************************************************************)

\* Its caches are right, it goes from its start to its end, visits no node
\* twice, no delivery before its pickup, and delivers its orders.
Intact(t) ==
  /\ t \in VehicleType
  /\ Coherent(t.idx, t.path)
  /\ FromStartToEnd(t.idx, t.path)
  /\ Once(t.path)
  /\ Ordered(t.path, Order)
  /\ \A o \in t.orders : Delivery(o) \in Nodes(t.path)

OffPath(t, o) == Pickup(o) \notin Nodes(t.path) /\ Delivery(o) \notin Nodes(t.path)

\* u is the vehicle t after an operation on its orders and its path.
SameVehicle(t, u) ==
  u.idx = t.idx /\ u.user_twv = t.user_twv /\ u.user_cv = t.user_cv

\* The vehicle goes from its start to its end, and its caches are right.
Travels(t) ==
  t \in VehicleType /\ Coherent(t.idx, t.path) /\ FromStartToEnd(t.idx, t.path)

\* An intact vehicle does.
LEMMA IntactTravels ==
  ASSUME NEW t, Intact(t)
  PROVE  Travels(t)
  BY DEF Intact, Travels

\* A vehicle that was intact is so with an order more, pickup before delivery.
LEMMA GainsIntact ==
  ASSUME NEW t, Intact(t), NEW o \in Order, OffPath(t, o),
         NEW p \in 2..Len(t.path), NEW q \in 2..(Len(t.path) + 1), p < q,
         NEW u, Gained(t, o, u),
         NEW mid, HasInserted(t.path, p, Pickup(o), mid),
         HasInserted(mid, q, Delivery(o), u.path)
  PROVE  Intact(u) /\ SameVehicle(t, u) /\ u.orders = t.orders \cup {o}
<1>1. /\ t.path \in Seq(Stop) /\ Len(t.path) \in Nat /\ p \in 1..(Len(t.path) + 1)
      /\ FromStartToEnd(t.idx, t.path) /\ Once(t.path) /\ Ordered(t.path, Order)
      /\ \A a \in t.orders : Delivery(a) \in Nodes(t.path)
      /\ t.orders \in SUBSET Order
  BY VehicleFacts DEF Intact
<1>2. Pickup(o) \in OrderNode /\ Delivery(o) \in OrderNode
  BY OrderNodes
<1>3. \A a : Pickup(o) # Delivery(a) /\ (Delivery(o) = Delivery(a) => o = a)
  BY KindsDiffer
<1>4. Pickup(o) \notin Nodes(t.path) /\ Delivery(o) \notin Nodes(t.path)
  BY DEF OffPath
<1>5. /\ Nodes(mid) = Nodes(t.path) \cup {Pickup(o)} /\ Once(mid)
      /\ FromStartToEnd(t.idx, mid) /\ Ordered(mid, Order)
  <2>1. \A a \in Order : Pickup(o) # Delivery(a)
    BY <1>3
  <2>2. Nodes(mid) = Nodes(t.path) \cup {Pickup(o)} /\ Once(mid)
    BY <1>1, <1>4, InsertKeeps
  <2>3. FromStartToEnd(t.idx, mid)
    BY <1>1, <1>2, InsertKeeps
  <2>4. Ordered(mid, Order)
    BY <1>1, <2>1, InsertKeeps
  <2>5. QED
    BY <2>2, <2>3, <2>4
<1>6. mid \in Seq(Stop) /\ Len(mid) = Len(t.path) + 1
  BY DEF HasInserted
<1>7. q \in 1..(Len(mid) + 1) /\ q \in 2..Len(mid)
  BY <1>1, <1>6
<1>8. p \in 1..(q - 1) /\ mid[p].node = Pickup(o)
  BY <1>1, <1>6 DEF HasInserted, InsertedNode
<1>9. Delivery(o) \notin Nodes(mid)
  BY <1>3, <1>4, <1>5
<1>10. /\ Nodes(u.path) = Nodes(mid) \cup {Delivery(o)} /\ Once(u.path)
       /\ FromStartToEnd(t.idx, u.path) /\ Ordered(u.path, Order)
  <2>1. \A a \in Order : Delivery(o) = Delivery(a) =>
                           \E k \in 1..(q - 1) : mid[k].node = Pickup(a)
    BY <1>3, <1>8
  <2>2. Nodes(u.path) = Nodes(mid) \cup {Delivery(o)} /\ Once(u.path)
    BY <1>5, <1>6, <1>7, <1>9, InsertKeeps
  <2>3. FromStartToEnd(t.idx, u.path)
    BY <1>2, <1>5, <1>6, <1>7, InsertKeeps
  <2>4. Ordered(u.path, Order)
    BY <1>5, <1>6, <1>7, <2>1, InsertKeeps
  <2>5. QED
    BY <2>2, <2>3, <2>4
<1>11. /\ u \in VehicleType /\ u.idx = t.idx /\ u.orders = t.orders \cup {o}
       /\ u.user_twv = t.user_twv /\ u.user_cv = t.user_cv /\ Coherent(u.idx, u.path)
  BY DEF Gained
<1>12. \A a \in u.orders : Delivery(a) \in Nodes(u.path)
  BY <1>1, <1>5, <1>10, <1>11
<1>13. QED
  BY <1>10, <1>11, <1>12 DEF Intact, SameVehicle

\* The same for an insertion at two given positions.
LEMMA WithOrderAtIntact ==
  ASSUME NEW t, Intact(t), NEW o \in Order, OffPath(t, o),
         NEW p \in 2..Len(t.path), NEW q \in 2..(Len(t.path) + 1), p < q,
         NEW u, u = WithOrderAt(t, o, p, q)
  PROVE  Intact(u) /\ SameVehicle(t, u) /\ u.orders = t.orders \cup {o}
<1>1. t \in VehicleType /\ Coherent(t.idx, t.path) /\ Len(t.path) \in Nat
  BY VehicleFacts DEF Intact
<1>2. p \in 1..(Len(t.path) + 1) /\ q \in 1..(Len(t.path) + 2)
  BY <1>1
<1>3. Gained(t, o, u) /\ \E mid : /\ HasInserted(t.path, p, Pickup(o), mid)
                                  /\ HasInserted(mid, q, Delivery(o), u.path)
  BY <1>1, <1>2, WithOrderAtIs
<1>4. PICK mid : /\ HasInserted(t.path, p, Pickup(o), mid)
                 /\ HasInserted(mid, q, Delivery(o), u.path)
  BY <1>3
<1>5. QED
  BY <1>3, <1>4, GainsIntact

\* Inserting the order is inserting its pickup and then its delivery.
LEMMA InsertionsOfOrder ==
  ASSUME NEW path \in Seq(Stop), NEW o \in Order, NEW p \in 1..(Len(path) + 1),
         NEW q \in 1..(Len(path) + 2), p < q, NEW e, HasOrder(path, o, p, q, e)
  PROVE  \E mid : HasInserted(path, p, Pickup(o), mid) /\ HasInserted(mid, q, Delivery(o), e)
<1> DEFINE mid == InsertNode(path, p, Pickup(o))
<1>1. HasInserted(path, p, Pickup(o), mid)
  <2> HIDE DEF mid
  <2>1. mid = InsertNode(path, p, Pickup(o)) /\ Pickup(o) \in Node
    BY OrderNodes DEF mid
  <2>2. QED
    BY <2>1, InsertNodeIs
<1> HIDE DEF mid
<1>2. /\ Len(path) \in Nat /\ Len(mid) = Len(path) + 1
      /\ \A j \in 1..Len(mid) : mid[j].node = InsertedNode(path, p, Pickup(o), j)
  BY <1>1 DEF HasInserted
<1>3. /\ e \in Seq(Stop) /\ Len(e) = Len(path) + 2
      /\ \A j \in 1..Len(e) : e[j].node = OrderedNode(path, o, p, q, j)
  BY DEF HasOrder
<1>4. ASSUME NEW j \in 1..Len(e)
      PROVE  e[j].node = InsertedNode(mid, q, Delivery(o), j)
  <2>1. CASE j < q
    <3>1. j \in 1..Len(mid)
      BY <1>2, <1>3, <2>1
    <3>2. QED
      BY <1>2, <1>3, <2>1, <3>1 DEF InsertedNode, OrderedNode
  <2>2. CASE j = q
    BY <1>2, <1>3, <2>2 DEF InsertedNode, OrderedNode
  <2>3. CASE j > q
    <3>1. j - 1 \in 1..Len(mid) /\ j - 1 > p /\ (j - 1) - 1 = j - 2
      BY <1>2, <1>3, <2>3
    <3>2. mid[j - 1].node = path[j - 2].node
      BY <1>2, <3>1 DEF InsertedNode
    <3>3. OrderedNode(path, o, p, q, j) = path[j - 2].node
      BY <1>2, <1>3, <2>3 DEF OrderedNode
    <3>4. InsertedNode(mid, q, Delivery(o), j) = mid[j - 1].node
      BY <1>2, <1>3, <2>3 DEF InsertedNode
    <3>5. QED
      BY <1>3, <3>2, <3>3, <3>4
  <2>4. QED
    BY <1>2, <1>3, <2>1, <2>2, <2>3
<1>5. QED
  BY <1>1, <1>2, <1>3, <1>4 DEF HasInserted

\* The same, from the nodes of the new path alone.
LEMMA HasOrderIntact ==
  ASSUME NEW t, Intact(t), NEW o \in Order, OffPath(t, o),
         NEW p \in 2..Len(t.path), NEW q \in 2..(Len(t.path) + 1), p < q,
         NEW u, Gained(t, o, u), HasOrder(t.path, o, p, q, u.path)
  PROVE  Intact(u) /\ SameVehicle(t, u) /\ u.orders = t.orders \cup {o}
<1>1. t.path \in Seq(Stop) /\ Len(t.path) \in Nat
  BY VehicleFacts DEF Intact
<1>2. p \in 1..(Len(t.path) + 1) /\ q \in 1..(Len(t.path) + 2)
  BY <1>1
<1>3. PICK mid : /\ HasInserted(t.path, p, Pickup(o), mid)
                 /\ HasInserted(mid, q, Delivery(o), u.path)
  BY <1>1, <1>2, InsertionsOfOrder
<1>4. QED
  BY <1>3, GainsIntact

\* push_front: the order is first.
LEMMA PushFrontIs ==
  ASSUME NEW t \in VehicleType, Len(t.path) >= 2,
         NEW o \in Order, NEW u, u = push_front(t, o)
  PROVE  Gained(t, o, u) /\ HasOrder(t.path, o, 2, 3, u.path)
<1> DEFINE mid == InsertNode(t.path, 2, Delivery(o))
           longer == InsertNode(mid, 2, Pickup(o))
           e == Evaluate(t.idx, longer, 1)
<1>1. /\ t.idx \in Truck /\ t.path \in Seq(Stop) /\ t.orders \cup {o} \in SUBSET Order
      /\ Len(t.path) \in Nat
  BY VehicleFacts
<1>2. Pickup(o) \in Node /\ Delivery(o) \in Node
  BY OrderNodes
<1>3. u = WithFields(t, e, t.orders \cup {o})
  BY DEF push_front, WithFields
<1>4. HasInserted(t.path, 2, Delivery(o), mid)
  <2> HIDE DEF mid
  <2>1. mid = InsertNode(t.path, 2, Delivery(o)) /\ 2 \in 1..(Len(t.path) + 1)
    BY <1>1 DEF mid
  <2>2. QED
    BY <1>1, <1>2, <2>1, InsertNodeIs
<1> HIDE DEF e, mid
<1>5. /\ mid \in Seq(Stop) /\ Len(mid) = Len(t.path) + 1
      /\ \A j \in 1..Len(mid) : mid[j].node = InsertedNode(t.path, 2, Delivery(o), j)
  BY <1>4 DEF HasInserted
<1>6. HasInserted(mid, 2, Pickup(o), longer)
  <2> HIDE DEF longer
  <2>1. longer = InsertNode(mid, 2, Pickup(o)) /\ 2 \in 1..(Len(mid) + 1)
    BY <1>1, <1>5 DEF longer
  <2>2. QED
    BY <1>2, <1>5, <2>1, InsertNodeIs
<1> HIDE DEF longer
<1>7. /\ longer \in Seq(Stop) /\ Len(longer) = Len(mid) + 1
      /\ \A j \in 1..Len(longer) : longer[j].node = InsertedNode(mid, 2, Pickup(o), j)
  BY <1>6 DEF HasInserted
<1>8. \A p \in 1..Len(longer) : p < 1 => Right(t.idx, longer, p)
  OBVIOUS
<1>9. e \in Seq(Stop) /\ Coherent(t.idx, e) /\ SameNodes(e, longer)
  BY <1>1, <1>7, <1>8, EvaluateIsCoherent DEF e
<1>10. Len(e) = Len(t.path) + 2 /\ \A j \in 1..Len(e) : e[j].node = longer[j].node
  BY <1>1, <1>5, <1>7, <1>9 DEF SameNodes
<1>11. ASSUME NEW j \in 1..Len(e)
       PROVE  e[j].node = OrderedNode(t.path, o, 2, 3, j)
  <2>1. j < 2 \/ j = 2 \/ j = 3 \/ j > 3
    BY <1>1, <1>10
  <2>2. e[j].node = InsertedNode(mid, 2, Pickup(o), j)
    BY <1>1, <1>5, <1>7, <1>10, SMTT(60)
  <2>3. CASE j < 2
    <3>1. j \in 1..Len(mid)
      BY <1>1, <1>5, <2>3
    <3>2. QED
      BY <1>5, <2>2, <2>3, <3>1 DEF InsertedNode, OrderedNode
  <2>4. CASE j = 2
    BY <2>2, <2>4 DEF InsertedNode, OrderedNode
  <2>5. CASE j = 3
    <3>1. 2 \in 1..Len(mid)
      BY <1>1, <1>5
    <3>2. mid[2].node = Delivery(o)
      BY <1>5, <3>1 DEF InsertedNode
    <3>3. QED
      BY <2>2, <2>5, <3>2 DEF InsertedNode, OrderedNode
  <2>6. CASE j > 3
    <3>1. j - 1 \in 1..Len(mid) /\ j - 1 > 2 /\ (j - 1) - 1 = j - 2
      BY <1>1, <1>5, <1>10, <2>6
    <3>2. mid[j - 1].node = t.path[j - 2].node
      BY <1>5, <3>1, SMTT(60) DEF InsertedNode
    <3>3. e[j].node = mid[j - 1].node
      BY <1>10, <2>2, <2>6 DEF InsertedNode
    <3>4. OrderedNode(t.path, o, 2, 3, j) = t.path[j - 2].node
      BY <1>10, <2>6 DEF OrderedNode
    <3>5. QED
      BY <3>2, <3>3, <3>4
  <2>7. QED
    BY <2>1, <2>3, <2>4, <2>5, <2>6
<1>12. HasOrder(t.path, o, 2, 3, e)
  BY <1>9, <1>10, <1>11 DEF HasOrder
<1>13. /\ u \in VehicleType /\ u.idx = t.idx /\ u.path = e /\ u.orders = t.orders \cup {o}
       /\ u.user_twv = t.user_twv /\ u.user_cv = t.user_cv
  BY <1>1, <1>3, <1>9, VehicleFields
<1>14. QED
  BY <1>9, <1>12, <1>13 DEF Gained

\* push_back and push_front keep a vehicle intact.
LEMMA PushesIntact ==
  ASSUME NEW t, Intact(t), NEW o \in Order, OffPath(t, o),
         NEW u, u \in {push_back(t, o), push_front(t, o)}
  PROVE  Intact(u) /\ SameVehicle(t, u) /\ u.orders = t.orders \cup {o}
<1>1. /\ t \in VehicleType /\ Coherent(t.idx, t.path) /\ Len(t.path) \in Nat
      /\ Len(t.path) >= 2
  BY VehicleFacts DEF Intact, FromStartToEnd
<1>2. CASE u = push_back(t, o)
  <2>1. Gained(t, o, u) /\ HasOrder(t.path, o, Len(t.path), Len(t.path) + 1, u.path)
    BY <1>1, <1>2, PushBackIs
  <2>2. /\ Len(t.path) \in 2..Len(t.path) /\ Len(t.path) + 1 \in 2..(Len(t.path) + 1)
        /\ Len(t.path) < Len(t.path) + 1
    BY <1>1
  <2>3. QED
    BY <2>1, <2>2, HasOrderIntact
<1>3. CASE u = push_front(t, o)
  <2>1. Gained(t, o, u) /\ HasOrder(t.path, o, 2, 3, u.path)
    BY <1>1, <1>3, PushFrontIs
  <2>2. 2 \in 2..Len(t.path) /\ 3 \in 2..(Len(t.path) + 1) /\ 2 < 3
    BY <1>1
  <2>3. QED
    BY <2>1, <2>2, HasOrderIntact
<1>4. QED
  BY <1>2, <1>3

\* Erasing a node of an order, if it is there.
LEMMA NodeErased ==
  ASSUME NEW v \in Truck, NEW path \in Seq(Stop), Coherent(v, path),
         FromStartToEnd(v, path), Once(path), NEW n \in OrderNode,
         NEW orders, Ordered(path, orders), \A o \in orders : n # Pickup(o),
         NEW e, e = EraseNode(v, path, n)
  PROVE  /\ e \in Seq(Stop) /\ Coherent(v, e) /\ FromStartToEnd(v, e) /\ Once(e)
         /\ Ordered(e, orders)
         /\ Nodes(e) = Nodes(path) \ {n}
<1>1. /\ e \in Seq(Stop) /\ Coherent(v, e)
      /\ n \notin Nodes(path) => e = path
      /\ n \in Nodes(path) =>
           \E pos \in 1..Len(path) : path[pos].node = n /\ HasErased(path, pos, e)
  BY EraseNodeIs
<1>2. CASE n \notin Nodes(path)
  BY <1>1, <1>2
<1>3. CASE n \in Nodes(path)
  <2>1. PICK pos \in 1..Len(path) : path[pos].node = n /\ HasErased(path, pos, e)
    BY <1>1, <1>3
  <2>2. /\ Nodes(e) \subseteq Nodes(path)
        /\ Nodes(path) \subseteq Nodes(e) \cup {n}
        /\ Once(e) /\ n \notin Nodes(e)
    BY <2>1, EraseKeeps
  <2>3. FromStartToEnd(v, e)
    BY <2>1, EraseKeeps
  <2>4. Ordered(e, orders)
    BY <2>1, EraseKeeps
  <2>5. QED
    BY <1>1, <2>2, <2>3, <2>4
<1>4. QED
  BY <1>2, <1>3

\* erase keeps a vehicle intact and leaves no node of the order, although it
\* searches the two nodes one after the other and evaluates in between.
LEMMA EraseIntact ==
  ASSUME NEW t, Intact(t), NEW o \in Order, NEW u, u = erase(t, o)
  PROVE  /\ Intact(u) /\ SameVehicle(t, u) /\ u.orders = t.orders \ {o}
         /\ Nodes(u.path) = Nodes(t.path) \ {Pickup(o), Delivery(o)}
<1> DEFINE mid == EraseNode(t.idx, t.path, Pickup(o))
           e == EraseNode(t.idx, mid, Delivery(o))
<1>1. /\ t \in VehicleType /\ t.idx \in Truck /\ t.path \in Seq(Stop)
      /\ t.orders \in SUBSET Order /\ t.orders \ {o} \in SUBSET Order
      /\ Coherent(t.idx, t.path) /\ FromStartToEnd(t.idx, t.path) /\ Once(t.path)
      /\ Ordered(t.path, Order) /\ \A a \in t.orders : Delivery(a) \in Nodes(t.path)
  BY VehicleFacts DEF Intact
<1>2. u = WithFields(t, e, t.orders \ {o})
  BY DEF erase, WithFields
<1>3. Pickup(o) \in OrderNode /\ Delivery(o) \in OrderNode
  BY OrderNodes
<1>4. \A a \in Order \ {o} : Pickup(o) # Pickup(a) /\ Delivery(o) # Pickup(a)
  BY KindsDiffer
<1>5. Ordered(t.path, Order \ {o})
  BY <1>1 DEF Ordered
<1>6. /\ mid \in Seq(Stop) /\ Coherent(t.idx, mid) /\ FromStartToEnd(t.idx, mid)
      /\ Once(mid) /\ Ordered(mid, Order \ {o}) /\ Nodes(mid) = Nodes(t.path) \ {Pickup(o)}
  <2> HIDE DEF mid
  <2>1. mid = EraseNode(t.idx, t.path, Pickup(o)) /\ \A a \in Order \ {o} : Pickup(o) # Pickup(a)
    BY <1>4 DEF mid
  <2>2. QED
    BY <1>1, <1>3, <1>5, <2>1, NodeErased
<1> HIDE DEF mid
<1>7. /\ e \in Seq(Stop) /\ Coherent(t.idx, e) /\ FromStartToEnd(t.idx, e)
      /\ Once(e) /\ Ordered(e, Order \ {o}) /\ Nodes(e) = Nodes(mid) \ {Delivery(o)}
  <2> HIDE DEF e
  <2>1. e = EraseNode(t.idx, mid, Delivery(o)) /\ \A a \in Order \ {o} : Delivery(o) # Pickup(a)
    BY <1>4 DEF e
  <2>2. QED
    BY <1>1, <1>3, <1>6, <2>1, NodeErased
<1> HIDE DEF e
<1>8. Nodes(e) = Nodes(t.path) \ {Pickup(o), Delivery(o)}
  BY <1>6, <1>7
<1>9. Ordered(e, Order)
  <2>1. \A q \in 1..Len(e) : e[q].node # Delivery(o)
    BY <1>7, VisitedNodes
  <2>2. QED
    BY <1>7, <2>1 DEF Ordered
<1>10. /\ u \in VehicleType /\ u.idx = t.idx /\ u.path = e /\ u.orders = t.orders \ {o}
       /\ u.user_twv = t.user_twv /\ u.user_cv = t.user_cv
  BY <1>1, <1>2, <1>7, VehicleFields
<1>11. \A a \in u.orders : Delivery(a) \in Nodes(e)
  <2>1. TAKE a \in u.orders
  <2>2. Delivery(a) # Pickup(o) /\ Delivery(a) # Delivery(o)
    BY <1>10, KindsDiffer
  <2>3. QED
    BY <1>1, <1>8, <1>10, <2>2
<1>12. QED
  BY <1>7, <1>8, <1>9, <1>10, <1>11 DEF Intact, SameVehicle

\* The path of a vehicle as it is built: its two ends, evaluated.
LEMMA NewPathIs ==
  ASSUME NEW v \in Truck
  PROVE  /\ NewPath(v) \in Seq(Stop) /\ Len(NewPath(v)) = 2 /\ Coherent(v, NewPath(v))
         /\ NewPath(v)[1].node = StartSite(v) /\ NewPath(v)[2].node = EndSite(v)
<1> DEFINE a == Unvisited(StartSite(v))
           b == Unvisited(EndSite(v))
           bare == <<a, b>>
           e == Evaluate(v, bare, 1)
<1>1. StartSite(v) \in Node /\ EndSite(v) \in Node
  BY DEF Node
<1>2. a \in Stop /\ b \in Stop /\ a.node = StartSite(v) /\ b.node = EndSite(v)
  BY <1>1, UnvisitedType
<1> HIDE DEF a, b
<1>3. bare \in Seq(Stop) /\ Len(bare) = 2 /\ bare[1] = a /\ bare[2] = b
  BY <1>2
<1> HIDE DEF bare
<1>4. \A p \in 1..Len(bare) : p < 1 => Right(v, bare, p)
  OBVIOUS
<1>5. e = NewPath(v)
  BY DEF NewPath, a, b, bare
<1> HIDE DEF e
<1>6. e \in Seq(Stop) /\ Coherent(v, e) /\ SameNodes(e, bare)
  BY <1>3, <1>4, EvaluateIsCoherent DEF e
<1>7. Len(e) = 2 /\ e[1].node = StartSite(v) /\ e[2].node = EndSite(v)
  BY <1>2, <1>3, <1>6 DEF SameNodes
<1>8. QED
  BY <1>5, <1>6, <1>7

\* A vehicle is intact when it is built.
LEMMA NewTruckIntact ==
  ASSUME NEW v \in Truck, NEW t, t = NewTruck(v)
  PROVE  /\ Intact(t) /\ t.idx = v /\ t.orders = {} /\ t.user_twv = 0 /\ t.user_cv = 0
         /\ Nodes(t.path) = {StartSite(v), EndSite(v)} /\ t.path = NewPath(v)
<1> DEFINE path == NewPath(v)
<1>1. /\ path \in Seq(Stop) /\ Len(path) = 2 /\ Coherent(v, path)
      /\ path[1].node = StartSite(v) /\ path[2].node = EndSite(v)
  BY NewPathIs
<1>2. t = [idx |-> v, path |-> path, orders |-> {}, user_twv |-> 0, user_cv |-> 0]
  BY DEF NewTruck
<1> HIDE DEF path
<1>3. /\ t.idx = v /\ t.path = path /\ t.orders = {} /\ t.user_twv = 0 /\ t.user_cv = 0
  BY <1>2
<1>4. t \in VehicleType
  <2> DEFINE P == Seq(Stop)
  <2>1. path \in P
    BY <1>1
  <2> HIDE DEF P
  <2>2. t \in [idx : Truck, path : P, orders : SUBSET Order, user_twv : Nat, user_cv : Nat]
    BY <1>2, <2>1
  <2>3. QED
    BY <2>2 DEF VehicleType, P
<1>5. \A p \in 1..Len(path) : p = 1 \/ p = 2
  BY <1>1
<1>6. Once(path)
  BY <1>1, <1>5, KindsDiffer DEF Once
<1>7. Ordered(path, Order)
  BY <1>1, <1>5, KindsDiffer DEF Ordered
<1>8. FromStartToEnd(v, path)
  BY <1>1 DEF FromStartToEnd
<1>9. Nodes(path) = {StartSite(v), EndSite(v)}
  <2>1. 1 \in 1..Len(path) /\ 2 \in 1..Len(path)
    BY <1>1
  <2>2. \A m : m \in Nodes(path) <=> m = StartSite(v) \/ m = EndSite(v)
    BY <1>1, <1>5, <2>1, VisitedNodes
  <2>3. QED
    BY <2>2
<1>10. QED
  BY <1>1, <1>3, <1>4, <1>6, <1>7, <1>8, <1>9 DEF Intact, path

-----------------------------------------------------------------------------

(***************************************************************************)
(* The searches.                                                           *)
(***************************************************************************)

\* Violations are counted up along a coherent path.
LEMMA ViolationsGrow ==
  ASSUME NEW v \in Truck, NEW path \in Seq(Stop), Coherent(v, path), NEW p \in 1..Len(path)
  PROVE  \A q \in p..Len(path) :
           path[p].twvTot <= path[q].twvTot /\ path[p].cvTot <= path[q].cvTot
<1> DEFINE n == Len(path) - p
           Good == {k \in 0..n : /\ path[p].twvTot <= path[p + k].twvTot
                                 /\ path[p].cvTot <= path[p + k].cvTot}
<1>1. Len(path) \in Nat /\ p \in Nat /\ n \in Nat
  OBVIOUS
<1>2. ASSUME NEW q \in 1..Len(path)
      PROVE  path[q].node \in Node /\ path[q].twvTot \in Nat /\ path[q].cvTot \in Nat
  <2>1. path[q] \in Stop
    OBVIOUS
  <2>2. QED
    BY <2>1 DEF Stop
<1>3. ASSUME NEW q \in 2..Len(path)
      PROVE  path[q - 1].twvTot <= path[q].twvTot /\ path[q - 1].cvTot <= path[q].cvTot
  <2> DEFINE cargo == path[q - 1].cargo + Tw_node[path[q].node].demand
             late == Count(is_late_arrival(path[q].node, path[q].arrival))
             over == Count(has_cv(v, path[q].node, cargo))
  <2>1. q - 1 \in 1..Len(path) /\ q \in 1..Len(path) /\ q > 1
    BY <1>1
  <2>2. path[q] = EvaluateAfter(v, path[q - 1], path[q].node)
    BY <2>1 DEF Coherent, Right, StopAt
  <2>3. late \in Nat /\ over \in Nat
    BY DEF Count
  <2>4. path[q].twvTot = path[q - 1].twvTot + late /\ path[q].cvTot = path[q - 1].cvTot + over
    BY <2>2 DEF EvaluateAfter, StopAfter
  <2>5. path[q - 1].twvTot \in Nat /\ path[q - 1].cvTot \in Nat
    BY <1>2, <2>1
  <2> HIDE DEF late, over
  <2>6. QED
    BY <2>3, <2>4, <2>5
<1>4. 0 \in Good
  BY <1>1, <1>2
<1>5. ASSUME NEW k \in 1..n, k - 1 \in Good
      PROVE  k \in Good
  <2> DEFINE q == p + k
  <2>1. q \in 2..Len(path) /\ q - 1 \in 1..Len(path) /\ p + (k - 1) = q - 1
    BY <1>1
  <2> HIDE DEF q
  <2>2. path[p].twvTot <= path[q - 1].twvTot /\ path[p].cvTot <= path[q - 1].cvTot
    BY <1>5, <2>1
  <2>3. path[q - 1].twvTot <= path[q].twvTot /\ path[q - 1].cvTot <= path[q].cvTot
    BY <1>3, <2>1
  <2>4. path[p].twvTot <= path[q].twvTot /\ path[p].cvTot <= path[q].cvTot
    BY <1>2, <2>1, <2>2, <2>3, SMTT(60)
  <2> HIDE DEF n
  <2>5. QED
    BY <1>1, <2>4 DEF q
<1>6. \A k \in 0..n : k \in Good
  <2> HIDE DEF Good, n
  <2>1. QED
    BY <1>1, <1>4, <1>5, Upward
<1>7. ASSUME NEW q \in p..Len(path)
      PROVE  path[p].twvTot <= path[q].twvTot /\ path[p].cvTot <= path[q].cvTot
  <2> DEFINE k == q - p
  <2>1. k \in 0..n /\ p + k = q
    BY <1>1
  <2> HIDE DEF k, n
  <2>2. k \in Good
    BY <1>6, <2>1
  <2>3. QED
    BY <2>1, <2>2
<1>8. QED
  BY <1>7

\* An order that is delivered first violates the capacity.
LEMMA DeliveredFirst ==
  ASSUME NEW t \in VehicleType, Coherent(t.idx, t.path), Len(t.path) >= 2,
         t.path[1].node = StartSite(t.idx),
         NEW o \in Order, t.path[2].node = Delivery(o), is_feasible(t)
  PROVE  t.user_cv > 0
<1> DEFINE v == t.idx
           path == t.path
           n == Len(path)
<1>1. v \in Truck /\ path \in Seq(Stop) /\ n \in Nat /\ n >= 2 /\ t.user_cv \in Nat
  BY VehicleFacts
<1>2. path[1] \in Stop /\ path[2] \in Stop /\ path[n] \in Stop
  <2> HIDE DEF path
  <2>1. QED
    BY <1>1
<1>3. Tw_node[StartSite(v)].demand = 0
  <2>1. StartSite(v) \in Node
    BY <1>1 DEF Node
  <2>2. Tw_node[StartSite(v)] = StartNode(TruckRow[v])
    BY <2>1 DEF Tw_node, StartSite
  <2>3. QED
    BY <2>2 DEF StartNode, TwNode
<1>4. Tw_node[Delivery(o)].demand < 0 /\ Tw_node[Delivery(o)].demand \in Int
  <2>1. Tw_node[Delivery(o)] = DeliveryNode(OrderRow[o])
    BY OrderNodes DEF Tw_node, Delivery
  <2>2. OrderRow[o].demand \in Nat \ {0}
    BY DataAssumption DEF OrderFields
  <2>3. QED
    BY <2>1, <2>2 DEF DeliveryNode, TwNode
<1>5. path[1].cargo = 0
  <2>1. path[1] = EvaluateStart(v, path[1].node)
    BY <1>1 DEF Coherent, Right, StopAt
  <2>2. path[1].cargo = Tw_node[path[1].node].demand
    BY <2>1 DEF EvaluateStart
  <2>3. QED
    BY <1>3, <2>2
<1>6. path[2].cvTot > 0
  <2>1. path[2] = EvaluateAfter(v, path[1], Delivery(o))
    <3>1. 2 \in 1..n /\ 2 - 1 = 1
      BY <1>1
    <3>2. path[2] = StopAt(v, path, 1, path, 2)
      BY <3>1 DEF Coherent, Right
    <3>3. StopAt(v, path, 1, path, 2) = EvaluateAfter(v, path[2 - 1], path[2].node)
      BY DEF StopAt
    <3>4. QED
      BY <3>1, <3>2, <3>3
  <2>2. path[2].cvTot = path[1].cvTot
                          + Count(has_cv(v, Delivery(o), path[1].cargo + Tw_node[Delivery(o)].demand))
    BY <2>1 DEF EvaluateAfter, StopAfter
  <2>3. has_cv(v, Delivery(o), path[1].cargo + Tw_node[Delivery(o)].demand)
    <3>1. ~IsStart(Delivery(o)) /\ ~IsEnd(Delivery(o))
      BY DEF IsStart, IsEnd, Delivery
    <3>2. path[1].cargo + Tw_node[Delivery(o)].demand < 0
      BY <1>4, <1>5
    <3>3. QED
      BY <3>1, <3>2 DEF has_cv
  <2>4. path[1].cvTot \in Nat
    BY <1>2 DEF Stop
  <2>5. QED
    BY <2>2, <2>3, <2>4 DEF Count
<1>7. path[2].cvTot <= path[n].cvTot
  <2>1. 2 \in 1..n /\ n \in 2..n
    BY <1>1
  <2> HIDE DEF v, path
  <2>2. Coherent(v, path)
    BY DEF v, path
  <2>3. QED
    BY <1>1, <2>1, <2>2, ViolationsGrow
<1>8. path[n].cvTot <= t.user_cv
  BY DEF is_feasible, cvTot, Last
<1>9. path[2].cvTot \in Nat /\ path[n].cvTot \in Nat
  BY <1>2 DEF Stop
<1> HIDE DEF path
<1>10. QED
  BY <1>1, <1>6, <1>7, <1>8, <1>9

\* Where the delivery may be dropped: behind the start.
LEMMA DropLowLimit ==
  ASSUME NEW v, NEW w, NEW path \in Seq(Stop), FromStartToEnd(v, path), NEW n
  PROVE  /\ getDropPosLowLimit(w, path, n) \in 2..(Len(path) + 1)
         /\ \A q \in getDropPosLowLimit(w, path, n)..Len(path) : ~IsPickup(path[q].node)
<1> DEFINE S == {p \in 1..(Len(path) + 1) :
                  \A q \in p..Len(path) :
                    /\ is_compatible_IJ(n, path[q].node, SpeedOf(w))
                    /\ ~IsPickup(path[q].node)}
<1>1. Len(path) \in Nat /\ Len(path) >= 2 /\ path[1].node = StartSite(v)
  BY DEF FromStartToEnd
<1>2. S \in SUBSET Nat /\ S # {}
  <2>1. Len(path) + 1 \in S
    BY <1>1
  <2>2. QED
    BY <2>1
<1>3. 1 \notin S
  BY <1>1, KindsDiffer DEF is_compatible_IJ
<1>4. S \subseteq 1..(Len(path) + 1)
  OBVIOUS
<1> DEFINE low == getDropPosLowLimit(w, path, n)
<1>5. low = Min(S)
  BY DEF getDropPosLowLimit
<1> HIDE DEF low
<1>6. low \in S
  <2> HIDE DEF S
  <2>1. QED
    BY <1>2, <1>5, MinIsMember
<1>7. low \in 1..(Len(path) + 1) /\ low # 1
  <2> HIDE DEF S
  <2>1. QED
    BY <1>3, <1>4, <1>6
<1>8. low \in 2..(Len(path) + 1)
  BY <1>1, <1>7
<1>9. \A q \in low..Len(path) : ~IsPickup(path[q].node)
  BY <1>6
<1>10. QED
  BY <1>8, <1>9 DEF low

\* An order inserted between the sites leaves a vehicle that travels.
LEMMA WithOrderAtTravels ==
  ASSUME NEW t, Travels(t), NEW o \in Order,
         NEW p \in 2..Len(t.path), NEW q \in 2..(Len(t.path) + 1),
         NEW u, u = WithOrderAt(t, o, p, q)
  PROVE  Travels(u) /\ SameVehicle(t, u) /\ u.orders = t.orders \cup {o}
<1>1. /\ t \in VehicleType /\ Coherent(t.idx, t.path) /\ t.path \in Seq(Stop)
      /\ Len(t.path) \in Nat /\ FromStartToEnd(t.idx, t.path)
  BY VehicleFacts DEF Travels
<1>2. p \in 1..(Len(t.path) + 1) /\ q \in 1..(Len(t.path) + 2)
  BY <1>1
<1>3. /\ Gained(t, o, u)
      /\ \E mid : /\ HasInserted(t.path, p, Pickup(o), mid)
                  /\ HasInserted(mid, q, Delivery(o), u.path)
  BY <1>1, <1>2, WithOrderAtIs
<1>4. PICK mid : /\ HasInserted(t.path, p, Pickup(o), mid)
                 /\ HasInserted(mid, q, Delivery(o), u.path)
  BY <1>3
<1>5. mid \in Seq(Stop) /\ Len(mid) = Len(t.path) + 1
  BY <1>4 DEF HasInserted
<1>6. FromStartToEnd(t.idx, mid)
  BY <1>1, <1>2, <1>4, OrderNodes, InsertKeeps
<1>7. q \in 1..(Len(mid) + 1) /\ q \in 2..Len(mid)
  BY <1>1, <1>5
<1>8. FromStartToEnd(t.idx, u.path)
  BY <1>4, <1>5, <1>6, <1>7, OrderNodes, InsertKeeps
<1>9. QED
  BY <1>3, <1>8 DEF Gained, Travels, SameVehicle

\* semiLIFO leaves the vehicle as it was or makes a feasible vehicle of it, which
\* picks the order up first and picks up nothing after it delivered the order.
LEMMA SemiLIFOTravels ==
  ASSUME NEW t, Travels(t), t.user_cv = 0, NEW o \in Order,
         NEW u, u = semiLIFO(t, o)
  PROVE  \/ u = t
         \/ /\ Travels(u) /\ SameVehicle(t, u) /\ u.orders = t.orders \cup {o}
            /\ is_feasible(u)
            /\ \E q \in 3..(Len(t.path) + 1) :
                 /\ HasOrder(t.path, o, 2, q, u.path)
                 /\ \A r \in q..(Len(t.path) + 1) : ~IsPickup(t.path[r - 1].node)
<1> DEFINE v == t.idx
           picked == Insert(v, t.path, 2, Pickup(o))
           low == getDropPosLowLimit(v, picked, Delivery(o))
           high == getPosHighLimit(v, picked, Delivery(o))
           drops == Drops(t, o, picked)
           n == Len(t.path)
<1>1. /\ t \in VehicleType /\ v \in Truck /\ t.path \in Seq(Stop) /\ Coherent(v, t.path)
      /\ FromStartToEnd(v, t.path) /\ n \in Nat /\ n >= 2
  BY VehicleFacts DEF Travels, FromStartToEnd
<1>2. Pickup(o) \in Node /\ Pickup(o) \in OrderNode
  BY OrderNodes
<1>3. Coherent(v, picked) /\ HasInserted(t.path, 2, Pickup(o), picked)
  <2> HIDE DEF picked
  <2>1. picked = Insert(v, t.path, 2, Pickup(o)) /\ 2 \in 1..(Len(t.path) + 1)
    BY <1>1 DEF picked
  <2> HIDE DEF v
  <2>2. Coherent(v, t.path)
    BY <1>1
  <2>3. QED
    BY <1>1, <1>2, <2>1, <2>2, InsertIs
<1>4. u = LatestDrop(t, o, drops)
  BY DEF semiLIFO
<1>5. drops \subseteq low..high /\ \A q \in drops : is_feasible(WithOrderAt(t, o, 2, q))
  BY DEF Drops
<1> HIDE DEF picked, drops
<1>6. /\ picked \in Seq(Stop) /\ Len(picked) = n + 1
      /\ \A j \in 1..Len(picked) : picked[j].node = InsertedNode(t.path, 2, Pickup(o), j)
  BY <1>3 DEF HasInserted
<1>7. FromStartToEnd(v, picked)
  <2> HIDE DEF v
  <2>1. 2 \in 1..(Len(t.path) + 1) /\ 2 \in 2..Len(t.path)
    BY <1>1
  <2>2. QED
    BY <1>1, <1>2, <1>3, <2>1, InsertKeeps
<1>8. /\ low \in 2..(n + 2) /\ high \in 1..(n + 1)
      /\ \A q \in low..(n + 1) : ~IsPickup(picked[q].node)
  <2>1. /\ low \in 2..(Len(picked) + 1)
        /\ \A q \in low..Len(picked) : ~IsPickup(picked[q].node)
    BY <1>6, <1>7, DropLowLimit
  <2>2. high \in 1..Len(picked)
    BY <1>6, <1>7, HighLimit
  <2> HIDE DEF low, high
  <2>3. QED
    BY <1>1, <1>6, <2>1, <2>2
<1> HIDE DEF low, high
<1>9. CASE drops = {}
  BY <1>4, <1>9 DEF LatestDrop
<1>10. CASE drops # {}
  <2> DEFINE q == Max(drops)
  <2>1. q \in drops
    <3>1. drops \in SUBSET Nat /\ \A x \in drops : x <= n + 1
      <4> HIDE DEF n
      <4>1. QED
        BY <1>1, <1>5, <1>8
    <3>2. n + 1 \in Nat
      BY <1>1
    <3> HIDE DEF n
    <3>3. QED
      BY <1>10, <3>1, <3>2, MaxIsMember
  <2>2. u = WithOrderAt(t, o, 2, q) /\ is_feasible(u)
    BY <1>4, <1>5, <1>10, <2>1 DEF LatestDrop
  <2> HIDE DEF q
  <2>3. q \in 2..(n + 1) /\ q >= low
    <3> HIDE DEF n
    <3>1. QED
      BY <1>1, <1>5, <1>8, <2>1
  <2>4. 2 \in 1..(Len(t.path) + 1) /\ q \in 1..(Len(t.path) + 2)
    BY <1>1, <2>3
  <2>5. /\ Gained(t, o, u)
        /\ \E mid : /\ HasInserted(t.path, 2, Pickup(o), mid)
                    /\ HasInserted(mid, q, Delivery(o), u.path)
    BY <1>1, <2>2, <2>4, WithOrderAtIs
  <2>6. q # 2
    <3>1. SUFFICES ASSUME q = 2
                   PROVE  FALSE
      OBVIOUS
    <3>2. PICK mid : /\ HasInserted(t.path, 2, Pickup(o), mid)
                     /\ HasInserted(mid, 2, Delivery(o), u.path)
      BY <2>5, <3>1
    <3>3. /\ Len(mid) = n + 1 /\ Len(u.path) = n + 2
          /\ \A j \in 1..Len(mid) : mid[j].node = InsertedNode(t.path, 2, Pickup(o), j)
          /\ \A j \in 1..Len(u.path) : u.path[j].node = InsertedNode(mid, 2, Delivery(o), j)
      BY <1>1, <3>2, SMTT(60) DEF HasInserted
    <3>4. u.path[2].node = Delivery(o)
      <4>1. 2 \in 1..Len(u.path)
        BY <1>1, <3>3
      <4>2. QED
        BY <3>3, <4>1 DEF InsertedNode
    <3>5. u.path[1].node = StartSite(v)
      <4>1. 1 \in 1..Len(u.path) /\ 1 \in 1..Len(mid)
        BY <1>1, <3>3
      <4>2. u.path[1].node = mid[1].node /\ mid[1].node = t.path[1].node
        BY <3>3, <4>1 DEF InsertedNode
      <4>3. QED
        BY <1>1, <4>2 DEF FromStartToEnd
    <3>6. /\ u \in VehicleType /\ u.idx = v /\ u.user_cv = 0 /\ Coherent(u.idx, u.path)
      BY <2>5 DEF Gained
    <3>7. Len(u.path) >= 2
      BY <1>1, <3>3
    <3>8. u.user_cv > 0
      BY <2>2, <3>4, <3>5, <3>6, <3>7, DeliveredFirst
    <3>9. QED
      BY <3>6, <3>8
  <2>7. q \in 3..(n + 1) /\ 2 < q
    BY <1>1, <2>3, <2>6
  <2>8. HasOrder(t.path, o, 2, q, u.path)
    BY <1>1, <2>2, <2>4, <2>7, OrderIsAt
  <2>9. Travels(u) /\ SameVehicle(t, u) /\ u.orders = t.orders \cup {o}
    <3>1. 2 \in 2..Len(t.path) /\ q \in 2..(Len(t.path) + 1)
      BY <1>1, <2>7
    <3>2. QED
      BY <2>2, <2>7, <3>1, WithOrderAtTravels
  <2>10. ASSUME NEW r \in q..(n + 1)
         PROVE  ~IsPickup(t.path[r - 1].node)
    <3>1. r \in low..(n + 1) /\ r \in 1..Len(picked) /\ r > 2
      <4> HIDE DEF n
      <4>1. QED
        BY <1>1, <1>6, <1>8, <2>3, <2>7
    <3>2. picked[r].node = t.path[r - 1].node
      BY <1>6, <3>1 DEF InsertedNode
    <3>3. QED
      BY <1>8, <3>1, <3>2
  <2>11. QED
    BY <2>2, <2>7, <2>8, <2>9, <2>10
<1>11. QED
  BY <1>9, <1>10

\* On an intact vehicle without the nodes of the order, it makes an intact one.
LEMMA SemiLIFOIs ==
  ASSUME NEW t, Intact(t), t.user_cv = 0, NEW o \in Order, OffPath(t, o),
         NEW u, u = semiLIFO(t, o)
  PROVE  \/ u = t
         \/ /\ Intact(u) /\ SameVehicle(t, u) /\ u.orders = t.orders \cup {o}
            /\ is_feasible(u)
            /\ \E q \in 3..(Len(t.path) + 1) :
                 /\ HasOrder(t.path, o, 2, q, u.path)
                 /\ \A r \in q..(Len(t.path) + 1) : ~IsPickup(t.path[r - 1].node)
<1>1. SUFFICES ASSUME u # t
               PROVE  /\ Intact(u) /\ SameVehicle(t, u) /\ u.orders = t.orders \cup {o}
                      /\ is_feasible(u)
                      /\ \E q \in 3..(Len(t.path) + 1) :
                           /\ HasOrder(t.path, o, 2, q, u.path)
                           /\ \A r \in q..(Len(t.path) + 1) : ~IsPickup(t.path[r - 1].node)
  OBVIOUS
<1>2. /\ Travels(u) /\ SameVehicle(t, u) /\ u.orders = t.orders \cup {o} /\ is_feasible(u)
      /\ \E q \in 3..(Len(t.path) + 1) :
           /\ HasOrder(t.path, o, 2, q, u.path)
           /\ \A r \in q..(Len(t.path) + 1) : ~IsPickup(t.path[r - 1].node)
  BY <1>1, IntactTravels, SemiLIFOTravels
<1>3. PICK q \in 3..(Len(t.path) + 1) : HasOrder(t.path, o, 2, q, u.path)
  BY <1>2
<1>4. Len(t.path) \in Nat /\ Len(t.path) >= 2
  BY VehicleFacts DEF Intact, FromStartToEnd
<1>5. 2 \in 2..Len(t.path) /\ q \in 2..(Len(t.path) + 1) /\ 2 < q
  BY <1>4
<1>6. Gained(t, o, u)
  BY <1>2 DEF Gained, Travels, SameVehicle
<1>7. Intact(u)
  BY <1>3, <1>5, <1>6, HasOrderIntact
<1>8. QED
  BY <1>2, <1>7

\* The pairs that hillClimb tries are pairs of positions between the start and
\* the end, the pickup in front of the delivery.
LEMMA PairsInside ==
  ASSUME NEW t, Travels(t), NEW o, NEW pq \in HillClimbPositions(t, o)
  PROVE  /\ pq[1] \in 2..Len(t.path) /\ pq[2] \in 2..(Len(t.path) + 1) /\ pq[1] < pq[2]
         /\ pq = <<pq[1], pq[2]>>
<1>1. t.path \in Seq(Stop) /\ FromStartToEnd(t.idx, t.path) /\ Len(t.path) \in Nat
  BY VehicleFacts DEF Travels
<1> DEFINE n == Len(t.path)
           low == getPosLowLimit(t.path, Pickup(o))
           high == getPosHighLimit(t.idx, t.path, Pickup(o))
           dlow == getPosLowLimit(t.path, Delivery(o))
           dhigh == getPosHighLimit(t.idx, t.path, Delivery(o))
<1>2. low \in 2..(n + 1) /\ dlow \in 2..(n + 1)
  BY <1>1, LowLimit
<1>3. high \in 1..n /\ dhigh \in 1..n
  BY <1>1, HighLimit
<1>4. pq \in (low..high) \X ((dlow + 1)..(dhigh + 1)) /\ pq[1] < pq[2]
  BY DEF HillClimbPositions
<1> HIDE DEF n, low, high, dlow, dhigh
<1>5. pq[1] \in low..high /\ pq[2] \in (dlow + 1)..(dhigh + 1) /\ pq = <<pq[1], pq[2]>>
  BY <1>4
<1>6. pq[1] \in 2..n /\ pq[2] \in 2..(n + 1)
  BY <1>1, <1>2, <1>3, <1>5, SMTT(60) DEF n
<1>7. QED
  BY <1>4, <1>5, <1>6 DEF n

\* Of some pairs of positions there is a first one in the order of the loops.
LEMMA FirstPairIs ==
  ASSUME NEW S \in SUBSET (Nat \X Nat), S # {}
  PROVE  /\ FirstPair(S) \in S
         /\ \A b \in S : \/ FirstPair(S)[1] < b[1]
                         \/ FirstPair(S)[1] = b[1] /\ FirstPair(S)[2] <= b[2]
<1> DEFINE Firsts == {b[1] : b \in S}
<1>1. \A b \in S : b[1] \in Nat /\ b[2] \in Nat /\ b = <<b[1], b[2]>>
  OBVIOUS
<1>2. PICK x \in Firsts : \A y \in Firsts : x <= y
  <2>1. Firsts \in SUBSET Nat /\ Firsts # {}
    BY <1>1
  <2> HIDE DEF Firsts
  <2>2. QED
    BY <2>1, LeastNatural
<1> DEFINE Seconds == {b[2] : b \in {c \in S : c[1] = x}}
<1>3. PICK y \in Seconds : \A z \in Seconds : y <= z
  <2>1. Seconds \in SUBSET Nat
    BY <1>1
  <2>2. Seconds # {}
    <3>1. PICK c \in S : c[1] = x
      OBVIOUS
    <3>2. c[2] \in Seconds
      BY <3>1
    <3>3. QED
      BY <3>2
  <2> HIDE DEF Seconds
  <2>3. QED
    BY <2>1, <2>2, LeastNatural
<1>4. PICK a \in S : a[1] = x /\ a[2] = y
  OBVIOUS
<1>5. \A b \in S : a[1] < b[1] \/ (a[1] = b[1] /\ a[2] <= b[2])
  <2>1. TAKE b \in S
  <2>2. x <= b[1]
    BY <1>2
  <2>3. b[1] = x => y <= b[2]
    BY <1>3
  <2> HIDE DEF Firsts, Seconds
  <2>4. QED
    BY <1>1, <1>4, <2>2, <2>3
<1>6. QED
  BY <1>4, <1>5 DEF FirstPair

\* The objective of a search is natural, so the least one exists.
LEMMA ObjectiveIsNatural ==
  ASSUME NEW u, Travels(u)
  PROVE  objective(u) \in Nat
<1>1. u.path \in Seq(Stop) /\ Len(u.path) \in Nat /\ Len(u.path) >= 2
  BY VehicleFacts DEF Travels, FromStartToEnd
<1>2. u.path[Len(u.path)] \in Stop
  BY <1>1
<1>3. u.path[Len(u.path)].travel \in Nat
  BY <1>2 DEF Stop
<1>4. QED
  BY <1>3 DEF objective, total_travel_time, Last

\* Some of the pairs are the cheapest, and the first of them is chosen.
LEMMA ChosenPair ==
  ASSUME NEW t, Travels(t), NEW o \in Order,
         NEW S \in SUBSET HillClimbPositions(t, o), S # {}
  PROVE  /\ Cheapest(t, o, S) \in SUBSET (Nat \X Nat) /\ Cheapest(t, o, S) # {}
         /\ FirstPair(Cheapest(t, o, S)) \in Cheapest(t, o, S)
         /\ FirstPair(Cheapest(t, o, S)) \in S
<1>1. Len(t.path) \in Nat
  BY VehicleFacts DEF Travels
<1>2. \A pq \in S : /\ pq[1] \in 2..Len(t.path) /\ pq[2] \in 2..(Len(t.path) + 1)
                    /\ pq[1] < pq[2] /\ pq = <<pq[1], pq[2]>>
  BY PairsInside
<1>3. ASSUME NEW pq \in S
      PROVE  ObjectiveAt(t, o, pq) \in Nat
  <2> DEFINE u == WithOrderAt(t, o, pq[1], pq[2])
  <2> HIDE DEF u
  <2>1. Travels(u)
    BY <1>2, WithOrderAtTravels DEF u
  <2>2. objective(u) \in Nat
    BY <2>1, ObjectiveIsNatural
  <2>3. QED
    BY <2>2 DEF u, ObjectiveAt, WithOrderAtPair
<1> DEFINE Costs == {ObjectiveAt(t, o, pq) : pq \in S}
<1>4. PICK c \in Costs : \A d \in Costs : c <= d
  <2>1. Costs \in SUBSET Nat /\ Costs # {}
    BY <1>3
  <2> HIDE DEF Costs
  <2>2. QED
    BY <2>1, LeastNatural
<1>5. PICK pq \in S : c = ObjectiveAt(t, o, pq)
  OBVIOUS
<1>6. \A other \in S : ObjectiveAt(t, o, pq) <= ObjectiveAt(t, o, other)
  BY <1>4, <1>5
<1>7. Cheapest(t, o, S) # {} /\ Cheapest(t, o, S) \subseteq S
  BY <1>6 DEF Cheapest
<1>8. S \in SUBSET (Nat \X Nat)
  <2>1. ASSUME NEW x \in S
        PROVE  x \in Nat \X Nat
    <3>1. x[1] \in Nat /\ x[2] \in Nat /\ x = <<x[1], x[2]>>
      BY <1>1, <1>2
    <3>2. QED
      BY <3>1
  <2>2. QED
    BY <2>1
<1>9. Cheapest(t, o, S) \in SUBSET (Nat \X Nat)
  BY <1>7, <1>8
<1>10. FirstPair(Cheapest(t, o, S)) \in Cheapest(t, o, S)
  BY <1>7, <1>9, FirstPairIs
<1>11. QED
  BY <1>7, <1>9, <1>10

\* hillClimb leaves the vehicle as it was or makes a feasible one of it, which
\* travels if it did.
LEMMA HillClimbTravels ==
  ASSUME NEW t, Travels(t), NEW o \in Order, NEW u, u = hillClimb(t, o)
  PROVE  \/ u = t
         \/ /\ Travels(u) /\ SameVehicle(t, u) /\ u.orders = t.orders \cup {o}
            /\ is_feasible(u)
            /\ \E pq \in FeasiblePositions(t, o) : u = WithOrderAtPair(t, o, pq)
<1> DEFINE S == FeasiblePositions(t, o)
<1>1. u = BestOf(t, o, S)
  BY DEF hillClimb
<1>2. S \in SUBSET HillClimbPositions(t, o)
  BY DEF FeasiblePositions
<1>3. \A pq \in S : is_feasible(WithOrderAtPair(t, o, pq))
  BY DEF FeasiblePositions
<1> HIDE DEF S
<1>4. CASE S = {}
  BY <1>1, <1>4 DEF BestOf
<1>5. CASE S # {}
  <2> DEFINE pq == FirstPair(Cheapest(t, o, S))
  <2>1. u = WithOrderAtPair(t, o, pq)
    BY <1>1, <1>5 DEF BestOf
  <2>2. pq \in S
    BY <1>2, <1>5, ChosenPair
  <2> HIDE DEF pq
  <2>3. pq[1] \in 2..Len(t.path) /\ pq[2] \in 2..(Len(t.path) + 1) /\ pq[1] < pq[2]
    BY <1>2, <2>2, PairsInside
  <2>4. u = WithOrderAt(t, o, pq[1], pq[2])
    BY <2>1 DEF WithOrderAtPair
  <2>5. Travels(u) /\ SameVehicle(t, u) /\ u.orders = t.orders \cup {o}
    BY <2>3, <2>4, WithOrderAtTravels
  <2>6. is_feasible(u)
    BY <1>3, <2>1, <2>2
  <2>7. QED
    BY <2>1, <2>2, <2>5, <2>6 DEF S
<1>6. QED
  BY <1>4, <1>5

\* An intact vehicle is intact with the order that hillClimb gave it.
LEMMA HillClimbIs ==
  ASSUME NEW t, Intact(t), NEW o \in Order, OffPath(t, o),
         NEW u, u = hillClimb(t, o)
  PROVE  \/ u = t
         \/ /\ Intact(u) /\ SameVehicle(t, u) /\ u.orders = t.orders \cup {o}
            /\ is_feasible(u)
            /\ \E pq \in FeasiblePositions(t, o) : u = WithOrderAtPair(t, o, pq)
<1>1. Travels(t)
  BY IntactTravels
<1>2. CASE u = t
  BY <1>2
<1>3. CASE u # t
  <2>1. is_feasible(u) /\ \E pq \in FeasiblePositions(t, o) : u = WithOrderAtPair(t, o, pq)
    BY <1>1, <1>3, HillClimbTravels
  <2>2. PICK pq \in FeasiblePositions(t, o) : u = WithOrderAtPair(t, o, pq)
    BY <2>1
  <2>3. pq[1] \in 2..Len(t.path) /\ pq[2] \in 2..(Len(t.path) + 1) /\ pq[1] < pq[2]
    BY <1>1, PairsInside DEF FeasiblePositions
  <2>4. u = WithOrderAt(t, o, pq[1], pq[2])
    BY <2>2 DEF WithOrderAtPair
  <2>5. Intact(u) /\ SameVehicle(t, u) /\ u.orders = t.orders \cup {o}
    BY <2>3, <2>4, WithOrderAtIntact
  <2>6. QED
    BY <2>1, <2>5
<1>4. QED
  BY <1>2, <1>3

-----------------------------------------------------------------------------

(***************************************************************************)
(* The stops a user gives.                                                 *)
(***************************************************************************)

\* No order is more than twice among the stops.
AtMostTwice(stops) ==
  \A i, j, k \in 1..Len(stops) :
    i < j /\ j < k => ~(stops[i] = stops[j] /\ stops[j] = stops[k])

\* The path of the stops: the start, a node for each stop, the end.
LEMMA StopsPathIs ==
  ASSUME NEW v \in Truck, NEW stops \in Seq(Order), NEW e, e = StopsPath(v, stops)
  PROVE  /\ e \in Seq(Stop) /\ Coherent(v, e) /\ Len(e) = Len(stops) + 2
         /\ e[1].node = StartSite(v) /\ e[Len(e)].node = EndSite(v)
         /\ \A i \in 1..Len(stops) : e[i + 1].node = StopNode(stops, i)
<1> DEFINE n == Len(stops)
           nodes == [i \in DOMAIN stops |-> Unvisited(StopNode(stops, i))]
           a == <<Unvisited(StartSite(v))>>
           b == <<Unvisited(EndSite(v))>>
           ab == a \o nodes
           bare == ab \o b
<1>1. StartSite(v) \in Node /\ EndSite(v) \in Node
  BY DEF Node
<1>2. /\ Unvisited(StartSite(v)) \in Stop /\ Unvisited(StartSite(v)).node = StartSite(v)
      /\ Unvisited(EndSite(v)) \in Stop /\ Unvisited(EndSite(v)).node = EndSite(v)
  BY <1>1, UnvisitedType
<1>3. /\ a \in Seq(Stop) /\ Len(a) = 1 /\ a[1].node = StartSite(v)
      /\ b \in Seq(Stop) /\ Len(b) = 1 /\ b[1].node = EndSite(v)
  BY <1>2
<1>4. n \in Nat /\ DOMAIN stops = 1..n
  OBVIOUS
<1>5. \A i \in 1..n : /\ Unvisited(StopNode(stops, i)) \in Stop
                      /\ Unvisited(StopNode(stops, i)).node = StopNode(stops, i)
  <2>1. TAKE i \in 1..n
  <2>2. stops[i] \in Order
    OBVIOUS
  <2>3. StopNode(stops, i) \in Node
    BY <2>2, OrderNodes DEF StopNode
  <2>4. QED
    BY <2>3, UnvisitedType
<1>6. nodes \in Seq(Stop) /\ Len(nodes) = n /\ \A i \in 1..n : nodes[i].node = StopNode(stops, i)
  BY <1>4, <1>5
<1> HIDE DEF a, b, nodes, n
<1>7. /\ ab \in Seq(Stop) /\ Len(ab) = 1 + n
      /\ \A j \in 1..1 : ab[j] = a[j]
      /\ \A j \in 1..n : ab[1 + j] = nodes[j]
  <2>1. /\ ab \in Seq(Stop) /\ Len(ab) = Len(a) + Len(nodes)
        /\ \A j \in 1..Len(a) : ab[j] = a[j]
        /\ \A j \in 1..Len(nodes) : ab[Len(a) + j] = nodes[j]
    <3>1. ab = a \o nodes
      OBVIOUS
    <3>2. a \in Seq(Stop) /\ nodes \in Seq(Stop)
      BY <1>3, <1>6
    <3> HIDE DEF ab
    <3>3. QED
      BY <3>1, <3>2, ConcatIs
  <2> HIDE DEF ab
  <2>2. QED
    BY <1>3, <1>6, <2>1
<1> HIDE DEF ab
<1>8. /\ bare \in Seq(Stop) /\ Len(bare) = (1 + n) + 1
      /\ \A j \in 1..(1 + n) : bare[j] = ab[j]
      /\ \A j \in 1..1 : bare[(1 + n) + j] = b[j]
  <2>1. /\ bare \in Seq(Stop) /\ Len(bare) = Len(ab) + Len(b)
        /\ \A j \in 1..Len(ab) : bare[j] = ab[j]
        /\ \A j \in 1..Len(b) : bare[Len(ab) + j] = b[j]
    <3>1. bare = ab \o b
      OBVIOUS
    <3>2. ab \in Seq(Stop) /\ b \in Seq(Stop)
      BY <1>3, <1>7
    <3> HIDE DEF bare
    <3>3. QED
      BY <3>1, <3>2, ConcatIs
  <2> HIDE DEF bare
  <2>2. QED
    BY <1>3, <1>7, <2>1
<1> HIDE DEF bare
<1>9. /\ Len(bare) = n + 2 /\ bare[1].node = StartSite(v) /\ bare[n + 2].node = EndSite(v)
      /\ \A i \in 1..n : bare[i + 1].node = StopNode(stops, i)
  <2>1. bare[1] = ab[1] /\ ab[1] = a[1] /\ bare[n + 2] = b[1]
    BY <1>4, <1>7, <1>8
  <2>2. \A i \in 1..n : bare[i + 1] = ab[i + 1] /\ ab[i + 1] = nodes[i]
    BY <1>4, <1>7, <1>8
  <2>3. Len(bare) = n + 2
    BY <1>4, <1>8
  <2>4. QED
    BY <1>3, <1>6, <2>1, <2>2, <2>3
<1>10. \A p \in 1..Len(bare) : p < 1 => Right(v, bare, p)
  BY <1>4, <1>9
<1>11. e = Evaluate(v, bare, 1)
  BY DEF StopsPath, bare, ab, a, b, nodes
<1>12. e \in Seq(Stop) /\ Coherent(v, e) /\ SameNodes(e, bare)
  BY <1>8, <1>10, <1>11, EvaluateIsCoherent
<1>13. Len(e) = n + 2 /\ \A j \in 1..(n + 2) : e[j].node = bare[j].node
  BY <1>9, <1>12 DEF SameNodes
<1>14. QED
  BY <1>4, <1>9, <1>12, <1>13 DEF n

\* It visits no node twice, and delivers nothing that it did not pick up.
LEMMA StopsPathKeeps ==
  ASSUME NEW v \in Truck, NEW stops \in Seq(Order), AtMostTwice(stops),
         NEW e, e = StopsPath(v, stops)
  PROVE  /\ e \in Seq(Stop) /\ Coherent(v, e)
         /\ FromStartToEnd(v, e) /\ Once(e) /\ Ordered(e, Order)
<1> DEFINE n == Len(stops)
<1>1. /\ e \in Seq(Stop) /\ Coherent(v, e) /\ Len(e) = n + 2
      /\ e[1].node = StartSite(v) /\ e[Len(e)].node = EndSite(v)
      /\ \A i \in 1..n : e[i + 1].node = StopNode(stops, i)
  BY StopsPathIs
<1>2. n \in Nat /\ \A i \in 1..n : stops[i] \in Order
  OBVIOUS
<1>3. AtMostTwice(stops)
  OBVIOUS
<1>4. \A i, j \in 1..n : i < j => StopNode(stops, i) # StopNode(stops, j)
  <2>1. SUFFICES ASSUME NEW i \in 1..n, NEW j \in 1..n, i < j,
                        StopNode(stops, i) = StopNode(stops, j)
                 PROVE  FALSE
    OBVIOUS
  <2>2. stops[i] = stops[j]
    BY <1>2, <2>1, KindsDiffer DEF StopNode
  <2>3. i \in 1..(j - 1)
    BY <1>2, <2>1
  <2>4. StopNode(stops, j) = Delivery(stops[j])
    BY <2>2, <2>3 DEF StopNode
  <2>5. StopNode(stops, i) # Pickup(stops[i])
    BY <2>1, <2>4, KindsDiffer
  <2>6. PICK k \in 1..(i - 1) : stops[k] = stops[i]
    BY <2>5 DEF StopNode
  <2>7. k \in 1..n /\ k < i
    BY <1>2, <2>6
  <2>8. QED
    BY <1>3, <2>1, <2>2, <2>6, <2>7 DEF AtMostTwice
<1>5. \A i \in 1..n : StopNode(stops, i) \in OrderNode
  BY <1>2, OrderNodes DEF StopNode
<1> HIDE DEF n
<1>6. \A p \in 1..Len(e) : p = 1 \/ p = n + 2 \/ (p - 1 \in 1..n /\ p = (p - 1) + 1)
  BY <1>1, <1>2
<1>7. \A p \in 1..Len(e) : p - 1 \in 1..n => e[p].node = StopNode(stops, p - 1)
  BY <1>1, <1>6
<1>8. FromStartToEnd(v, e)
  <2>1. \A p \in 2..(Len(e) - 1) : p \in 1..Len(e) /\ p - 1 \in 1..n
    BY <1>1, <1>2
  <2>2. Len(e) >= 2
    BY <1>1, <1>2
  <2>3. QED
    BY <1>1, <1>5, <1>7, <2>1, <2>2 DEF FromStartToEnd
<1>9. \A i \in 1..n : StopNode(stops, i) # StartSite(v) /\ StopNode(stops, i) # EndSite(v)
  BY <1>2, KindsDiffer DEF StopNode
<1>10. Once(e)
  <2>1. SUFFICES ASSUME NEW p \in 1..Len(e), NEW q \in 1..Len(e), e[p].node = e[q].node
                 PROVE  p = q
    BY DEF Once
  <2>2. CASE p - 1 \in 1..n /\ q - 1 \in 1..n
    <3>1. StopNode(stops, p - 1) = StopNode(stops, q - 1)
      BY <1>7, <2>1, <2>2
    <3>2. ~(p - 1 < q - 1) /\ ~(q - 1 < p - 1)
      BY <1>4, <2>2, <3>1
    <3>3. QED
      BY <3>2
  <2>3. CASE p - 1 \notin 1..n /\ q - 1 \in 1..n
    BY <1>1, <1>6, <1>7, <1>9, <2>1, <2>3
  <2>4. CASE p - 1 \in 1..n /\ q - 1 \notin 1..n
    BY <1>1, <1>6, <1>7, <1>9, <2>1, <2>4
  <2>5. CASE p - 1 \notin 1..n /\ q - 1 \notin 1..n
    <3>1. p \in {1, n + 2} /\ q \in {1, n + 2}
      BY <1>6, <2>5
    <3>2. e[1].node # e[n + 2].node
      BY <1>1, KindsDiffer
    <3>3. QED
      BY <2>1, <3>1, <3>2
  <2>6. QED
    BY <2>2, <2>3, <2>4, <2>5
<1>11. Ordered(e, Order)
  <2>1. SUFFICES ASSUME NEW o \in Order, NEW q \in 1..Len(e), e[q].node = Delivery(o)
                 PROVE  \E p \in 1..(q - 1) : e[p].node = Pickup(o)
    BY DEF Ordered
  <2>2. q - 1 \in 1..n
    BY <1>1, <1>6, <2>1, KindsDiffer
  <2> DEFINE i == q - 1
             same == {j \in 1..(i - 1) : stops[j] = stops[i]}
  <2>3. StopNode(stops, i) = Delivery(o)
    BY <1>7, <2>1, <2>2
  <2>4. same # {} /\ stops[i] = o
    BY <2>3, KindsDiffer DEF StopNode
  <2>5. same \in SUBSET Nat
    OBVIOUS
  <2> HIDE DEF same
  <2>6. PICK j \in same : \A k \in same : j <= k
    BY <2>4, <2>5, LeastNatural
  <2>7. j \in 1..(i - 1) /\ stops[j] = o
    BY <2>4, <2>6 DEF same
  <2>8. \A k \in 1..(j - 1) : stops[k] # o
    <3>1. TAKE k \in 1..(j - 1)
    <3>2. k \in 1..(i - 1) /\ k < j
      BY <2>2, <2>7
    <3>3. k \notin same
      BY <2>5, <2>6, <3>2
    <3>4. QED
      BY <2>4, <3>2, <3>3 DEF same
  <2>9. StopNode(stops, j) = Pickup(o)
    BY <2>7, <2>8 DEF StopNode
  <2>10. j \in 1..n /\ j + 1 \in 1..(q - 1)
    BY <1>2, <2>2, <2>7
  <2>11. e[j + 1].node = Pickup(o)
    BY <1>1, <2>9, <2>10
  <2>12. QED
    BY <2>10, <2>11
<1>12. QED
  BY <1>1, <1>8, <1>10, <1>11

\* Two different elements.
LEMMA TwoElements ==
  ASSUME NEW x, NEW y, x # y
  PROVE  Cardinality({x, y}) = 2
<1> DEFINE one == {x}
<1>1. y \notin one /\ {x, y} = one \cup {y}
  OBVIOUS
<1>2. IsFiniteSet(one) /\ Cardinality(one) = 1
  BY FS_Singleton
<1> HIDE DEF one
<1>3. Cardinality(one \cup {y}) = 1 + 1
  BY <1>1, <1>2, FS_AddElement
<1>4. QED
  BY <1>1, <1>3

\* The path of the stops delivers the orders they name twice, and only picks up
\* those they name once.
LEMMA NamesCounted ==
  ASSUME NEW v \in Truck, NEW stops \in Seq(Order), AtMostTwice(stops), NEW o \in Order
  PROVE  LET path  == StopsPath(v, stops)
             times == Cardinality({i \in 1..Len(stops) : stops[i] = o})
         IN  /\ Delivery(o) \in Nodes(path) <=> times = 2
             /\ Pickup(o) \in Nodes(path) /\ Delivery(o) \notin Nodes(path) <=> times = 1
<1> DEFINE path == StopsPath(v, stops)
           n == Len(stops)
           S == {i \in 1..n : stops[i] = o}
<1>1. /\ path \in Seq(Stop) /\ Len(path) = n + 2
      /\ path[1].node = StartSite(v) /\ path[Len(path)].node = EndSite(v)
      /\ \A i \in 1..n : path[i + 1].node = StopNode(stops, i)
  BY StopsPathIs
<1>2. n \in Nat
  OBVIOUS
<1> HIDE DEF path, n
<1>3. S \in SUBSET Nat /\ \A i \in S : i \in 1..n /\ stops[i] = o
  BY <1>2
<1>4. ASSUME NEW x, NEW p \in 1..Len(path), path[p].node = x, x \in {Pickup(o), Delivery(o)}
      PROVE  \E i \in S : StopNode(stops, i) = x
  <2> DEFINE i == p - 1
  <2>1. p # 1 /\ p # Len(path)
    BY <1>1, <1>4, KindsDiffer
  <2>2. i \in 1..n /\ p = i + 1
    BY <1>1, <1>2, <2>1
  <2> HIDE DEF i
  <2>3. StopNode(stops, i) = x
    BY <1>1, <1>4, <2>2
  <2>4. stops[i] = o
    BY <1>4, <2>3, KindsDiffer DEF StopNode
  <2>5. QED
    BY <2>2, <2>3, <2>4
<1>5. ASSUME NEW i \in S
      PROVE  StopNode(stops, i) \in Nodes(path)
  <2>1. i + 1 \in 1..Len(path) /\ path[i + 1].node = StopNode(stops, i)
    BY <1>1, <1>2, <1>3
  <2>2. QED
    BY <1>1, <2>1, VisitedNodes
<1>6. ASSUME NEW i \in S
      PROVE  StopNode(stops, i) = IF \E j \in S : j < i THEN Delivery(o) ELSE Pickup(o)
  <2>1. stops[i] = o /\ i \in 1..n
    BY <1>3
  <2>2. (\E j \in 1..(i - 1) : stops[j] = stops[i]) <=> \E j \in S : j < i
    BY <1>2, <2>1
  <2> HIDE DEF S
  <2>3. QED
    BY <2>1, <2>2 DEF StopNode
<1>7. Pickup(o) # Delivery(o)
  BY KindsDiffer
<1> HIDE DEF S
<1>8. Delivery(o) \in Nodes(path) <=> \E i, j \in S : i < j
  <2>1. ASSUME Delivery(o) \in Nodes(path)
        PROVE  \E i, j \in S : i < j
    <3>1. PICK p \in 1..Len(path) : path[p].node = Delivery(o)
      BY <1>1, <2>1, VisitedNodes
    <3>2. PICK i \in S : StopNode(stops, i) = Delivery(o)
      BY <1>4, <3>1
    <3>3. QED
      BY <1>6, <1>7, <3>2
  <2>2. ASSUME NEW i \in S, NEW j \in S, i < j
        PROVE  Delivery(o) \in Nodes(path)
    BY <1>5, <1>6, <2>2
  <2>3. QED
    BY <2>1, <2>2
<1>9. Pickup(o) \in Nodes(path) <=> S # {}
  <2>1. ASSUME Pickup(o) \in Nodes(path)
        PROVE  S # {}
    <3>1. PICK p \in 1..Len(path) : path[p].node = Pickup(o)
      BY <1>1, <2>1, VisitedNodes
    <3>2. QED
      BY <1>4, <3>1
  <2>2. ASSUME S # {}
        PROVE  Pickup(o) \in Nodes(path)
    <3>1. PICK i \in S : \A j \in S : i <= j
      BY <1>3, <2>2, LeastNatural
    <3>2. ~ \E j \in S : j < i
      BY <1>3, <3>1
    <3>3. QED
      BY <1>5, <1>6, <3>2
  <2>3. QED
    BY <2>1, <2>2
<1>10. ASSUME NEW i \in S, NEW j \in S, i < j
       PROVE  Cardinality(S) = 2
  <2>1. ASSUME NEW k \in S, k # i, k # j
        PROVE  FALSE
    <3>1. /\ i \in 1..Len(stops) /\ j \in 1..Len(stops) /\ k \in 1..Len(stops)
          /\ stops[i] = o /\ stops[j] = o /\ stops[k] = o
      BY <1>3 DEF n
    <3>2. k < i \/ (i < k /\ k < j) \/ j < k
      BY <1>3, <1>10, <2>1
    <3>3. QED
      BY <1>10, <3>1, <3>2 DEF AtMostTwice
  <2>2. S = {i, j}
    BY <2>1
  <2>3. i # j
    BY <1>3, <1>10
  <2>4. QED
    BY <2>2, <2>3, TwoElements
<1>11. CASE S = {}
  <2>1. Cardinality(S) = 0
    BY <1>11, FS_EmptySet
  <2>2. QED
    BY <1>8, <1>9, <1>11, <2>1 DEF S, path, n
<1>12. CASE S # {} /\ ~ \E i, j \in S : i < j
  <2>1. PICK i \in S : TRUE
    BY <1>12
  <2>2. \A k \in S : k = i
    BY <1>3, <1>12
  <2>3. S = {i}
    BY <2>1, <2>2
  <2>4. Cardinality(S) = 1
    BY <2>3, FS_Singleton
  <2>5. QED
    BY <1>8, <1>9, <1>12, <2>4 DEF S, path, n
<1>13. CASE \E i, j \in S : i < j
  <2>1. Cardinality(S) = 2
    BY <1>10, <1>13
  <2>2. QED
    BY <1>8, <1>13, <2>1 DEF S, path, n
<1>14. QED
  BY <1>11, <1>12, <1>13

-----------------------------------------------------------------------------

(***************************************************************************)
(* Which stops follow each other.  The positions of the stops change with  *)
(* every operation; that one is behind the other does not, unless it is    *)
(* the node of the operation.                                              *)
(***************************************************************************)

\* A stop behind another one, by position.
LEMMA FollowsIs ==
  ASSUME NEW path \in Seq(Stop), NEW a, NEW b
  PROVE  Follows(path, a, b) <=>
           \E p, q \in 1..Len(path) : p < q /\ path[p].node = a /\ path[q].node = b
<1>1. DOMAIN path = 1..Len(path)
  OBVIOUS
<1>2. QED
  BY <1>1 DEF Follows

\* The other stops stay behind each other when a node joins the path, and a
\* node that was not on the path is there once.
LEMMA InsertFollows ==
  ASSUME NEW path \in Seq(Stop), NEW pos \in 1..(Len(path) + 1), NEW n,
         NEW e, HasInserted(path, pos, n, e)
  PROVE  /\ \A a, b : a # n /\ b # n => (Follows(e, a, b) <=> Follows(path, a, b))
         /\ n \notin Nodes(path) => ~Follows(e, n, n)
<1> DEFINE m == Len(path)
<1>1. m \in Nat /\ e \in Seq(Stop) /\ Len(e) = m + 1
  BY DEF HasInserted
<1>2. \A j \in 1..(m + 1) :
        /\ j < pos => e[j].node = path[j].node
        /\ j = pos => e[j].node = n
        /\ j > pos => e[j].node = path[j - 1].node
  <2>1. \A j \in 1..Len(e) : e[j].node = InsertedNode(path, pos, n, j)
    BY DEF HasInserted
  <2>2. QED
    BY <1>1, <2>1 DEF InsertedNode
<1> HIDE DEF m
\* Where a stop of the path goes, and where a stop of e comes from.
<1> DEFINE To(k) == IF k < pos THEN k ELSE k + 1
           From(j) == IF j < pos THEN j ELSE j - 1
<1>3. \A k \in 1..m : To(k) \in 1..(m + 1) /\ e[To(k)].node = path[k].node
  <2>1. TAKE k \in 1..m
  <2>2. CASE k < pos
    BY <1>1, <1>2, <2>2
  <2>3. CASE ~(k < pos)
    <3>1. To(k) = k + 1 /\ k + 1 \in 1..(m + 1) /\ k + 1 > pos /\ (k + 1) - 1 = k
      BY <1>1, <2>3
    <3>2. e[k + 1].node = path[(k + 1) - 1].node
      BY <1>2, <3>1
    <3>3. QED
      BY <3>1, <3>2
  <2>4. QED
    BY <2>2, <2>3
<1>4. \A j \in 1..(m + 1) : j # pos => From(j) \in 1..m /\ path[From(j)].node = e[j].node
  <2>1. TAKE j \in 1..(m + 1)
  <2>2. CASE j < pos
    BY <1>1, <1>2, <2>2 DEF m
  <2>3. CASE j > pos
    BY <1>1, <1>2, <2>3 DEF m
  <2>4. QED
    BY <1>1, <2>2, <2>3
<1>5. \A k, l \in 1..m : k < l => To(k) < To(l)
  BY <1>1
<1>6. \A j, h \in 1..(m + 1) : j # pos /\ h # pos /\ j < h => From(j) < From(h)
  BY <1>1
<1> HIDE DEF To, From
<1>7. ASSUME NEW a, NEW b, a # n, b # n
      PROVE  Follows(e, a, b) <=> Follows(path, a, b)
  <2>1. ASSUME Follows(path, a, b)
        PROVE  Follows(e, a, b)
    <3>1. PICK k, l \in 1..m : k < l /\ path[k].node = a /\ path[l].node = b
      BY <2>1, FollowsIs DEF m
    <3>2. /\ To(k) \in 1..Len(e) /\ To(l) \in 1..Len(e) /\ To(k) < To(l)
          /\ e[To(k)].node = a /\ e[To(l)].node = b
      BY <1>1, <1>3, <1>5, <3>1
    <3>3. QED
      BY <1>1, <3>2, FollowsIs
  <2>2. ASSUME Follows(e, a, b)
        PROVE  Follows(path, a, b)
    <3>1. PICK j, h \in 1..(m + 1) : j < h /\ e[j].node = a /\ e[h].node = b
      BY <1>1, <2>2, FollowsIs
    <3>2. j # pos /\ h # pos
      BY <1>2, <1>7, <3>1
    <3>3. /\ From(j) \in 1..m /\ From(h) \in 1..m /\ From(j) < From(h)
          /\ path[From(j)].node = a /\ path[From(h)].node = b
      BY <1>4, <1>6, <3>1, <3>2
    <3>4. QED
      BY <3>3, FollowsIs DEF m
  <2>3. QED
    BY <2>1, <2>2
<1>8. ASSUME n \notin Nodes(path), Follows(e, n, n)
      PROVE  FALSE
  <2>1. PICK j, h \in 1..(m + 1) : j < h /\ e[j].node = n /\ e[h].node = n
    BY <1>1, <1>8, FollowsIs
  <2>2. \A k \in 1..m : path[k].node # n
    BY <1>8, VisitedNodes DEF m
  <2>3. j = pos /\ h = pos
    BY <1>4, <2>1, <2>2
  <2>4. QED
    BY <2>1, <2>3
<1>9. QED
  BY <1>7, <1>8

\* The other stops stay behind each other when a stop is erased, and a node
\* that was there once is gone.
LEMMA EraseFollows ==
  ASSUME NEW path \in Seq(Stop), NEW pos \in 1..Len(path), NEW n, path[pos].node = n,
         NEW e, HasErased(path, pos, e)
  PROVE  /\ \A a, b : a # n /\ b # n => (Follows(e, a, b) <=> Follows(path, a, b))
         /\ \A a, b : Follows(e, a, b) => Follows(path, a, b)
         /\ \A a : a # n => (a \in Nodes(e) <=> a \in Nodes(path))
         /\ ~Follows(path, n, n) => n \notin Nodes(e)
<1> DEFINE m == Len(path)
<1>1. m \in Nat /\ e \in Seq(Stop) /\ Len(e) = m - 1
  BY DEF HasErased
\* Where a stop of e comes from, and where a stop of the path goes.
<1> DEFINE From(j) == IF j < pos THEN j ELSE j + 1
           To(k) == IF k < pos THEN k ELSE k - 1
<1>2. \A j \in 1..(m - 1) : From(j) \in 1..m /\ From(j) # pos /\ e[j].node = path[From(j)].node
  <2>1. \A j \in 1..Len(e) : e[j].node = IF j < pos THEN path[j].node ELSE path[j + 1].node
    BY DEF HasErased
  <2>2. QED
    BY <1>1, <2>1
<1>3. \A k \in 1..m : k # pos => To(k) \in 1..(m - 1) /\ From(To(k)) = k
  BY <1>1
<1>4. \A j, h \in 1..(m - 1) : j < h => From(j) < From(h)
  BY <1>1
<1>5. \A k, l \in 1..m : k # pos /\ l # pos /\ k < l => To(k) < To(l)
  BY <1>1
<1> HIDE DEF m, To, From
<1>6. \A k \in 1..m : k # pos => To(k) \in 1..(m - 1) /\ e[To(k)].node = path[k].node
  BY <1>2, <1>3
<1>7. ASSUME NEW a, NEW b, Follows(e, a, b)
      PROVE  Follows(path, a, b)
  <2>1. PICK j, h \in 1..(m - 1) : j < h /\ e[j].node = a /\ e[h].node = b
    BY <1>1, <1>7, FollowsIs
  <2>2. /\ From(j) \in 1..m /\ From(h) \in 1..m /\ From(j) < From(h)
        /\ path[From(j)].node = a /\ path[From(h)].node = b
    BY <1>2, <1>4, <2>1
  <2>3. QED
    BY <2>2, FollowsIs DEF m
<1>8. ASSUME NEW a, NEW b, a # n, b # n, Follows(path, a, b)
      PROVE  Follows(e, a, b)
  <2>1. PICK k, l \in 1..m : k < l /\ path[k].node = a /\ path[l].node = b
    BY <1>8, FollowsIs DEF m
  <2>2. k # pos /\ l # pos
    BY <1>8, <2>1
  <2>3. /\ To(k) \in 1..Len(e) /\ To(l) \in 1..Len(e) /\ To(k) < To(l)
        /\ e[To(k)].node = a /\ e[To(l)].node = b
    BY <1>1, <1>5, <1>6, <2>1, <2>2
  <2>4. QED
    BY <1>1, <2>3, FollowsIs
<1>9. ASSUME NEW a, a # n
      PROVE  a \in Nodes(e) <=> a \in Nodes(path)
  <2>1. Nodes(e) \subseteq Nodes(path) /\ Nodes(path) \subseteq Nodes(e) \cup {n}
    BY EraseKeeps
  <2>2. QED
    BY <1>9, <2>1
<1>10. ASSUME n \in Nodes(e)
       PROVE  Follows(path, n, n)
  <2>1. PICK j \in 1..(m - 1) : e[j].node = n
    BY <1>1, <1>10, VisitedNodes
  <2>2. From(j) \in 1..m /\ From(j) # pos /\ path[From(j)].node = n
    BY <1>2, <2>1
  <2>3. From(j) < pos \/ pos < From(j)
    BY <1>1, <2>2
  <2>4. pos \in 1..m
    BY DEF m
  <2>5. QED
    BY <2>2, <2>3, <2>4, FollowsIs DEF m
<1>11. QED
  BY <1>7, <1>8, <1>9, <1>10

\* Erasing the first stop at a node, if there is one.
LEMMA EraseNodeFollows ==
  ASSUME NEW v \in Truck, NEW path \in Seq(Stop), Coherent(v, path), NEW n,
         NEW e, e = EraseNode(v, path, n)
  PROVE  /\ e \in Seq(Stop) /\ Coherent(v, e)
         /\ \A a, b : a # n /\ b # n => (Follows(e, a, b) <=> Follows(path, a, b))
         /\ \A a, b : Follows(e, a, b) => Follows(path, a, b)
         /\ \A a : a # n => (a \in Nodes(e) <=> a \in Nodes(path))
         /\ ~Follows(path, n, n) => n \notin Nodes(e)
<1>1. /\ e \in Seq(Stop) /\ Coherent(v, e)
      /\ n \notin Nodes(path) => e = path
      /\ n \in Nodes(path) =>
           \E pos \in 1..Len(path) : path[pos].node = n /\ HasErased(path, pos, e)
  BY EraseNodeIs
<1>2. CASE n \notin Nodes(path)
  BY <1>1, <1>2
<1>3. CASE n \in Nodes(path)
  <2>1. PICK pos \in 1..Len(path) : path[pos].node = n /\ HasErased(path, pos, e)
    BY <1>1, <1>3
  <2>2. QED
    BY <1>1, <2>1, EraseFollows
<1>4. QED
  BY <1>2, <1>3

\* The orders that a vehicle delivers, each once, are its own and those that
\* are fixed on its path, whose stops follow each other as they are wanted.
Holding(t, wanted, fixed) ==
  /\ t.orders \cap fixed = {}
  /\ \A o \in Order : Delivery(o) \in Nodes(t.path) <=> o \in t.orders \cup fixed
  /\ \A o \in Order : ~Follows(t.path, Delivery(o), Delivery(o))
  /\ KeepsOrder(t.path, wanted, NodesOf(fixed))

\* The nodes of an order that is not fixed.
LEMMA NotFixed ==
  ASSUME NEW fixed, NEW o, o \notin fixed, NEW a \in NodesOf(fixed)
  PROVE  a # Pickup(o) /\ a # Delivery(o)
<1>1. PICK x \in fixed : a = Pickup(x) \/ a = Delivery(x)
  BY DEF NodesOf
<1>2. QED
  BY <1>1, KindsDiffer

\* What is fixed stays when another order is erased.
LEMMA EraseHolds ==
  ASSUME NEW t \in VehicleType, Coherent(t.idx, t.path), NEW wanted, NEW fixed,
         Holding(t, wanted, fixed), NEW o \in Order, o \notin fixed,
         NEW u, u = erase(t, o)
  PROVE  Holding(u, wanted, fixed)
<1> DEFINE v == t.idx
           path == t.path
           mid == EraseNode(v, path, Pickup(o))
           e == EraseNode(v, mid, Delivery(o))
           P == Pickup(o)
           D == Delivery(o)
<1>1. v \in Truck /\ path \in Seq(Stop) /\ t.orders \ {o} \in SUBSET Order /\ Coherent(v, path)
  BY VehicleFacts
<1>2. u = WithFields(t, e, t.orders \ {o})
  BY DEF erase, WithFields
<1> HIDE DEF v, path
<1>3. /\ mid \in Seq(Stop) /\ Coherent(v, mid)
      /\ \A a, b : a # P /\ b # P => (Follows(mid, a, b) <=> Follows(path, a, b))
      /\ \A a, b : Follows(mid, a, b) => Follows(path, a, b)
      /\ \A a : a # P => (a \in Nodes(mid) <=> a \in Nodes(path))
  BY <1>1, EraseNodeFollows
<1> HIDE DEF mid
<1>4. /\ e \in Seq(Stop)
      /\ \A a, b : a # D /\ b # D => (Follows(e, a, b) <=> Follows(mid, a, b))
      /\ \A a, b : Follows(e, a, b) => Follows(mid, a, b)
      /\ \A a : a # D => (a \in Nodes(e) <=> a \in Nodes(mid))
      /\ ~Follows(mid, D, D) => D \notin Nodes(e)
  BY <1>1, <1>3, EraseNodeFollows
<1> HIDE DEF e
<1>5. u.path = e /\ u.orders = t.orders \ {o}
  BY <1>1, <1>2, <1>4, VehicleFields
<1>6. /\ t.orders \cap fixed = {}
      /\ \A x \in Order : Delivery(x) \in Nodes(path) <=> x \in t.orders \cup fixed
      /\ \A x \in Order : ~Follows(path, Delivery(x), Delivery(x))
      /\ NodesOf(fixed) \subseteq Nodes(path)
      /\ \A a, b \in NodesOf(fixed) : Follows(path, a, b) <=> Follows(wanted, a, b)
  BY DEF Holding, KeepsOrder, path
<1>7. \A x \in Order : ~Follows(e, Delivery(x), Delivery(x))
  BY <1>3, <1>4, <1>6
<1>8. ASSUME NEW x \in Order
      PROVE  Delivery(x) \in Nodes(e) <=> x \in (t.orders \ {o}) \cup fixed
  <2>1. Delivery(x) # P
    BY KindsDiffer
  <2>2. CASE x = o
    <3>1. D \notin Nodes(e)
      BY <1>3, <1>4, <1>6
    <3>2. QED
      BY <2>2, <3>1
  <2>3. CASE x # o
    <3>1. Delivery(x) # D
      BY <2>3, KindsDiffer
    <3>2. Delivery(x) \in Nodes(e) <=> Delivery(x) \in Nodes(path)
      BY <1>3, <1>4, <2>1, <3>1
    <3>3. QED
      BY <1>6, <2>3, <3>2
  <2>4. QED
    BY <2>2, <2>3
<1>9. \A a \in NodesOf(fixed) : a # P /\ a # D
  BY NotFixed
<1>10. KeepsOrder(e, wanted, NodesOf(fixed))
  <2>1. NodesOf(fixed) \subseteq Nodes(e)
    BY <1>3, <1>4, <1>6, <1>9
  <2>2. \A a, b \in NodesOf(fixed) : Follows(e, a, b) <=> Follows(wanted, a, b)
    BY <1>3, <1>4, <1>6, <1>9
  <2>3. QED
    BY <2>1, <2>2 DEF KeepsOrder
<1>11. QED
  BY <1>5, <1>6, <1>7, <1>8, <1>10 DEF Holding

\* What is fixed stays when an order joins that is not delivered yet.
LEMMA GainHolds ==
  ASSUME NEW t \in VehicleType, NEW wanted, NEW fixed, Holding(t, wanted, fixed),
         NEW o \in Order, o \notin fixed, o \notin t.orders,
         NEW p \in 1..(Len(t.path) + 1), NEW q \in 1..(Len(t.path) + 2),
         NEW u, u.orders = t.orders \cup {o},
         NEW mid, HasInserted(t.path, p, Pickup(o), mid),
         HasInserted(mid, q, Delivery(o), u.path)
  PROVE  Holding(u, wanted, fixed)
<1> DEFINE path == t.path
           e == u.path
           P == Pickup(o)
           D == Delivery(o)
<1>1. path \in Seq(Stop) /\ mid \in Seq(Stop) /\ Len(mid) = Len(path) + 1
  BY VehicleFacts DEF HasInserted
<1>2. /\ \A a, b : a # P /\ b # P => (Follows(mid, a, b) <=> Follows(path, a, b))
      /\ Nodes(mid) = Nodes(path) \cup {P}
  BY <1>1, InsertFollows, InsertKeeps
<1>3. q \in 1..(Len(mid) + 1)
  BY <1>1
<1>4. HasInserted(mid, q, D, e)
  OBVIOUS
<1> HIDE DEF path, e
<1>5. /\ \A a, b : a # D /\ b # D => (Follows(e, a, b) <=> Follows(mid, a, b))
      /\ D \notin Nodes(mid) => ~Follows(e, D, D)
      /\ Nodes(e) = Nodes(mid) \cup {D}
  BY <1>1, <1>3, <1>4, InsertFollows, InsertKeeps
<1>6. /\ t.orders \cap fixed = {}
      /\ \A x \in Order : Delivery(x) \in Nodes(path) <=> x \in t.orders \cup fixed
      /\ \A x \in Order : ~Follows(path, Delivery(x), Delivery(x))
      /\ NodesOf(fixed) \subseteq Nodes(path)
      /\ \A a, b \in NodesOf(fixed) : Follows(path, a, b) <=> Follows(wanted, a, b)
  BY DEF Holding, KeepsOrder, path
<1>7. ASSUME NEW x \in Order
      PROVE  /\ Delivery(x) \in Nodes(e) <=> x \in (t.orders \cup {o}) \cup fixed
             /\ ~Follows(e, Delivery(x), Delivery(x))
  <2>1. Delivery(x) # P
    BY KindsDiffer
  <2>2. CASE x = o
    <3>1. D \notin Nodes(path) /\ D # P
      BY <1>6, KindsDiffer
    <3>2. QED
      BY <1>2, <1>5, <2>2, <3>1
  <2>3. CASE x # o
    <3>1. Delivery(x) # D
      BY <2>3, KindsDiffer
    <3>2. Delivery(x) \in Nodes(e) <=> Delivery(x) \in Nodes(path)
      BY <1>2, <1>5, <2>1, <3>1
    <3>3. ~Follows(e, Delivery(x), Delivery(x))
      BY <1>2, <1>5, <1>6, <2>1, <3>1
    <3>4. QED
      BY <1>6, <2>3, <3>2, <3>3
  <2>4. QED
    BY <2>2, <2>3
<1>8. \A a \in NodesOf(fixed) : a # P /\ a # D
  BY NotFixed
<1>9. KeepsOrder(e, wanted, NodesOf(fixed))
  <2>1. NodesOf(fixed) \subseteq Nodes(e)
    BY <1>2, <1>5, <1>6
  <2>2. \A a, b \in NodesOf(fixed) : Follows(e, a, b) <=> Follows(wanted, a, b)
    BY <1>2, <1>5, <1>6, <1>8
  <2>3. QED
    BY <2>1, <2>2 DEF KeepsOrder
<1>10. QED
  BY <1>6, <1>7, <1>9 DEF Holding, e

\* The vehicle with the stops, before it is known whether they can be served.
LEMMA WithStopsIntact ==
  ASSUME NEW v \in Truck, NEW stops \in Seq(Order), AtMostTwice(stops), NEW date,
         NEW t, t = WithStops(v, stops, OrdersDelivered(StopsPath(v, stops)), date)
  PROVE  /\ Intact(t) /\ t.idx = v /\ t.user_twv = 0 /\ t.user_cv = 0
         /\ Holding(t, StopsPath(v, stops), unmovable(OrdersDelivered(StopsPath(v, stops)), date))
<1> DEFINE path == StopsPath(v, stops)
           onboard == OrdersDelivered(path)
           fixed == unmovable(onboard, date)
           orders == onboard \ fixed
           r == NewTruck(v)
<1>1. /\ path \in Seq(Stop) /\ Coherent(v, path)
      /\ FromStartToEnd(v, path) /\ Once(path) /\ Ordered(path, Order)
  BY StopsPathKeeps
<1>2. /\ orders \in SUBSET Order
      /\ \A o \in Order : Delivery(o) \in Nodes(path) <=> o \in onboard
      /\ fixed \subseteq onboard /\ onboard \subseteq Order
      /\ orders \cap fixed = {} /\ orders \cup fixed = onboard
  BY DEF OrdersDelivered, unmovable
<1>3. r \in VehicleType /\ r.idx = v /\ r.user_twv = 0 /\ r.user_cv = 0
  BY NewTruckIntact DEF Intact
<1>4. t = WithFields(r, path, orders)
  BY DEF WithStops, WithFields
<1> HIDE DEF path, orders, r, fixed, onboard
<1>5. /\ t \in VehicleType /\ t.idx = v /\ t.path = path /\ t.orders = orders
      /\ t.user_twv = 0 /\ t.user_cv = 0
  BY <1>1, <1>2, <1>3, <1>4, VehicleFields
<1>6. \A o \in Order : ~Follows(path, Delivery(o), Delivery(o))
  BY <1>1, FollowsIs DEF Once
<1>7. KeepsOrder(path, path, NodesOf(fixed))
  <2>1. ASSUME NEW o \in fixed
        PROVE  Pickup(o) \in Nodes(path) /\ Delivery(o) \in Nodes(path)
    <3>1. o \in Order /\ Delivery(o) \in Nodes(path)
      BY <1>2
    <3>2. PICK q \in 1..Len(path) : path[q].node = Delivery(o)
      BY <1>1, <3>1, VisitedNodes
    <3>3. PICK p \in 1..(q - 1) : path[p].node = Pickup(o)
      BY <1>1, <3>1, <3>2 DEF Ordered
    <3>4. p \in 1..Len(path)
      BY <1>1, <3>2, <3>3
    <3>5. QED
      BY <1>1, <3>1, <3>3, <3>4, VisitedNodes
  <2>2. QED
    BY <2>1 DEF NodesOf, KeepsOrder
<1>8. Holding(t, path, fixed)
  BY <1>2, <1>5, <1>6, <1>7 DEF Holding
<1>9. QED
  BY <1>1, <1>2, <1>5, <1>8 DEF Intact, path, fixed, onboard

\* The vehicle delivers nothing that the path wanted does not deliver, and picks
\* up what it delivers and what wanted picks up only.
PicksUp(t, wanted) ==
  \A o \in Order :
    /\ Delivery(o) \in Nodes(t.path) => Delivery(o) \in Nodes(wanted)
    /\ Pickup(o) \in Nodes(t.path)
         <=> \/ Delivery(o) \in Nodes(t.path)
             \/ Pickup(o) \in Nodes(wanted) /\ Delivery(o) \notin Nodes(wanted)

\* A path where deliveries follow their pickups does so itself.
LEMMA PicksUpItself ==
  ASSUME NEW t, t.path \in Seq(Stop), Ordered(t.path, Order)
  PROVE  PicksUp(t, t.path)
<1>1. ASSUME NEW o \in Order, Delivery(o) \in Nodes(t.path)
      PROVE  Pickup(o) \in Nodes(t.path)
  <2>1. PICK q \in 1..Len(t.path) : t.path[q].node = Delivery(o)
    BY <1>1, VisitedNodes
  <2>2. PICK p \in 1..(q - 1) : t.path[p].node = Pickup(o)
    BY <2>1 DEF Ordered
  <2>3. p \in 1..Len(t.path)
    OBVIOUS
  <2>4. QED
    BY <2>2, <2>3, VisitedNodes
<1>2. QED
  BY <1>1 DEF PicksUp

\* An order that leaves an intact vehicle leaves it with both of its nodes.
LEMMA ErasePicksUp ==
  ASSUME NEW t, Intact(t), NEW o \in t.orders, NEW u, u = erase(t, o),
         NEW wanted, PicksUp(t, wanted)
  PROVE  PicksUp(u, wanted)
<1>1. o \in Order /\ Delivery(o) \in Nodes(t.path)
  BY VehicleFacts DEF Intact
<1>2. Nodes(u.path) = Nodes(t.path) \ {Pickup(o), Delivery(o)}
  BY <1>1, EraseIntact
<1>3. \A a \in Order : /\ Delivery(a) # Pickup(o) /\ Pickup(a) # Delivery(o)
                       /\ Delivery(a) = Delivery(o) <=> a = o
                       /\ Pickup(a) = Pickup(o) <=> a = o
  BY <1>1, KindsDiffer
<1>4. QED
  BY <1>1, <1>2, <1>3 DEF PicksUp

\* One order less.
LEMMA EraseFirstIntact ==
  ASSUME NEW t, Intact(t), t.orders # {}, NEW u, u = EraseFirst(t)
  PROVE  /\ Intact(u) /\ SameVehicle(t, u)
         /\ Cardinality(u.orders) = Cardinality(t.orders) - 1
         /\ \A wanted : PicksUp(t, wanted) => PicksUp(u, wanted)
         /\ \A wanted, fixed : Holding(t, wanted, fixed) => Holding(u, wanted, fixed)
<1>1. t.orders \in SUBSET Order
  BY VehicleFacts DEF Intact
<1>2. IsFiniteSet(t.orders) /\ t.orders \in SUBSET Nat
  BY <1>1, DataAssumption, FS_Subset
<1> DEFINE o == Min(t.orders)
<1>3. o \in t.orders
  BY <1>2, MinIsMember
<1>4. u = erase(t, o)
  BY DEF EraseFirst
<1> HIDE DEF o
<1>5. Intact(u) /\ SameVehicle(t, u) /\ u.orders = t.orders \ {o}
  BY <1>1, <1>3, <1>4, EraseIntact
<1>6. Cardinality(t.orders \ {o}) = Cardinality(t.orders) - 1
  BY <1>2, <1>3, FS_RemoveElement
<1>7. ASSUME NEW wanted, NEW fixed, Holding(t, wanted, fixed)
      PROVE  Holding(u, wanted, fixed)
  <2>1. o \in Order /\ o \notin fixed
    BY <1>1, <1>3, <1>7 DEF Holding
  <2>2. t \in VehicleType /\ Coherent(t.idx, t.path)
    BY DEF Intact
  <2>3. QED
    BY <1>4, <1>7, <2>1, <2>2, EraseHolds
<1>8. \A wanted : PicksUp(t, wanted) => PicksUp(u, wanted)
  BY <1>3, <1>4, ErasePicksUp
<1>9. QED
  BY <1>5, <1>6, <1>7, <1>8

\* The vehicle without its first n orders, from the vehicles with one more.
ErasedAfter(t, left, n) == IF n = 0 THEN t ELSE EraseFirst(left[n - 1])

\* The vehicles exist, by induction on the number of erased orders.
LEMMA ErasingExists ==
  ASSUME NEW t, NEW n \in Nat
  PROVE  \E left : left = [k \in 0..n |-> ErasedAfter(t, left, k)]
<1> DEFINE Computes(f, m) == f = [k \in 0..m |-> ErasedAfter(t, f, k)]
           Without == {m \in Nat : ~ \E f : Computes(f, m)}
<1>1. SUFFICES ASSUME Without # {}
               PROVE  FALSE
  OBVIOUS
<1>2. PICK m \in Without : \A k \in Without : m <= k
  <2>1. Without \in SUBSET Nat
    OBVIOUS
  <2> HIDE DEF Without
  <2>2. QED
    BY <1>1, <2>1, LeastNatural
<1>3. m \in Nat /\ ~ \E f : Computes(f, m)
  OBVIOUS
<1>4. CASE m = 0
  <2> DEFINE f == [k \in 0..0 |-> t]
  <2>1. f = [k \in 0..0 |-> ErasedAfter(t, f, k)]
    BY DEF ErasedAfter
  <2>2. QED
    BY <1>3, <1>4, <2>1
<1>5. CASE m > 0
  <2>1. m - 1 \in Nat /\ m - 1 \notin Without
    BY <1>2, <1>3, <1>5
  <2>2. PICK f : f = [k \in 0..(m - 1) |-> ErasedAfter(t, f, k)]
    BY <2>1
  <2> DEFINE g == [k \in 0..m |-> IF k < m THEN f[k] ELSE ErasedAfter(t, f, m)]
  <2>3. \A k \in 0..m : k > 0 => g[k - 1] = f[k - 1]
    BY <1>3
  <2>4. \A k \in 0..m : ErasedAfter(t, g, k) = ErasedAfter(t, f, k)
    <3> HIDE DEF g
    <3>1. QED
      BY <1>3, <2>3 DEF ErasedAfter
  <2>5. \A k \in 0..m : k < m => f[k] = ErasedAfter(t, f, k)
    BY <1>3, <2>2
  <2>6. \A k \in 0..m : g[k] = ErasedAfter(t, g, k)
    BY <1>3, <2>4, <2>5
  <2>7. g = [k \in 0..m |-> ErasedAfter(t, g, k)]
    BY <2>6
  <2>8. QED
    BY <1>3, <2>7
<1>6. QED
  BY <1>3, <1>4, <1>5

\* All of its orders are taken off the vehicle, one by one.
LEMMA EraseAllIntact ==
  ASSUME NEW t, Intact(t), NEW u, u = EraseAll(t)
  PROVE  /\ Intact(u) /\ SameVehicle(t, u) /\ u.orders = {}
         /\ \A wanted, fixed : Holding(t, wanted, fixed) => Holding(u, wanted, fixed)
         /\ \A wanted : PicksUp(t, wanted) => PicksUp(u, wanted)
<1> DEFINE n == Cardinality(t.orders)
           Computes(f) == f = [k \in 0..n |-> IF k = 0 THEN t ELSE EraseFirst(f[k - 1])]
           left == CHOOSE f : Computes(f)
<1>1. u = left[n]
  BY DEF EraseAll, Iterated
<1>2. n \in Nat
  <2>1. t.orders \in SUBSET Order
    BY VehicleFacts DEF Intact
  <2>2. QED
    BY <2>1, DataAssumption, FS_Subset, FS_CardinalityType
<1>3. Computes(left)
  <2>1. \E f : Computes(f)
    <3> HIDE DEF n
    <3>1. PICK f : f = [k \in 0..n |-> ErasedAfter(t, f, k)]
      BY <1>2, ErasingExists
    <3>2. Computes(f)
      BY <3>1 DEF ErasedAfter
    <3>3. QED
      BY <3>2
  <2>2. QED
    BY <2>1
<1> HIDE DEF left, n
<1>4. \A k \in 0..n : left[k] = IF k = 0 THEN t ELSE EraseFirst(left[k - 1])
  BY <1>3
<1> DEFINE Good(k) == /\ Intact(left[k]) /\ SameVehicle(t, left[k])
                      /\ Cardinality(left[k].orders) = n - k
                      /\ \A wanted, fixed : Holding(t, wanted, fixed)
                                             => Holding(left[k], wanted, fixed)
                      /\ \A wanted : PicksUp(t, wanted) => PicksUp(left[k], wanted)
           Bad == {k \in 0..n : ~Good(k)}
<1>5. Bad = {}
  <2>1. SUFFICES ASSUME Bad # {}
                 PROVE  FALSE
    OBVIOUS
  <2>2. Bad \in SUBSET Nat
    BY <1>2
  <2> HIDE DEF Good
  <2>3. PICK k \in Bad : \A l \in Bad : k <= l
    <3> HIDE DEF Bad
    <3>1. QED
      BY <2>1, <2>2, LeastNatural
  <2>4. k \in 0..n /\ ~Good(k)
    OBVIOUS
  <2>5. CASE k = 0
    <3>1. left[k] = t
      BY <1>4, <2>4, <2>5
    <3>2. SameVehicle(t, t)
      BY DEF SameVehicle
    <3>3. Cardinality(t.orders) = n - k
      BY <1>2, <2>5 DEF n
    <3>4. QED
      BY <2>4, <3>1, <3>2, <3>3 DEF Good
  <2>6. CASE k > 0
    <3>1. k - 1 \in 0..n /\ k - 1 \notin Bad
      BY <1>2, <2>3, <2>4, <2>6
    <3>2. Good(k - 1)
      BY <3>1
    <3>3. /\ Intact(left[k - 1]) /\ SameVehicle(t, left[k - 1])
          /\ Cardinality(left[k - 1].orders) = n - (k - 1)
          /\ \A wanted, fixed : Holding(t, wanted, fixed) => Holding(left[k - 1], wanted, fixed)
          /\ \A wanted : PicksUp(t, wanted) => PicksUp(left[k - 1], wanted)
      BY <3>2 DEF Good
    <3>4. n - (k - 1) # 0
      BY <1>2, <2>4, <2>6
    <3>5. left[k - 1].orders # {}
      BY <3>3, <3>4, FS_EmptySet
    <3>6. left[k] = EraseFirst(left[k - 1])
      BY <1>4, <2>4, <2>6
    <3>7. /\ Intact(left[k]) /\ SameVehicle(left[k - 1], left[k])
          /\ Cardinality(left[k].orders) = Cardinality(left[k - 1].orders) - 1
          /\ \A wanted, fixed :
               Holding(left[k - 1], wanted, fixed) => Holding(left[k], wanted, fixed)
          /\ \A wanted : PicksUp(left[k - 1], wanted) => PicksUp(left[k], wanted)
      BY <3>3, <3>5, <3>6, EraseFirstIntact
    <3>8. Cardinality(left[k].orders) = n - k
      BY <1>2, <2>4, <3>3, <3>7
    <3>9. SameVehicle(t, left[k])
      BY <3>3, <3>7 DEF SameVehicle
    <3>10. \A wanted, fixed : Holding(t, wanted, fixed) => Holding(left[k], wanted, fixed)
      BY <3>3, <3>7
    <3>11. \A wanted : PicksUp(t, wanted) => PicksUp(left[k], wanted)
      BY <3>3, <3>7
    <3>12. QED
      BY <2>4, <3>7, <3>8, <3>9, <3>10, <3>11 DEF Good
  <2>7. QED
    BY <2>4, <2>5, <2>6
<1>6. Good(n)
  <2>1. n \in 0..n
    BY <1>2
  <2> HIDE DEF Good
  <2>2. QED
    BY <1>5, <2>1
<1>7. /\ Cardinality(u.orders) = 0 /\ Intact(u) /\ SameVehicle(t, u)
      /\ \A wanted, fixed : Holding(t, wanted, fixed) => Holding(u, wanted, fixed)
      /\ \A wanted : PicksUp(t, wanted) => PicksUp(u, wanted)
  BY <1>1, <1>2, <1>6
<1>8. IsFiniteSet(u.orders)
  <2>1. u.orders \in SUBSET Order
    BY <1>7, VehicleFacts DEF Intact
  <2>2. QED
    BY <2>1, DataAssumption, FS_Subset
<1>9. QED
  BY <1>7, <1>8, FS_EmptySet

\* The vehicle tolerates the violations it has.
LEMMA ToleratedIntact ==
  ASSUME NEW t, Intact(t), NEW u, u = Tolerated(t)
  PROVE  Intact(u) /\ u.idx = t.idx /\ u.path = t.path /\ u.orders = t.orders
<1>1. t \in VehicleType /\ t.path \in Seq(Stop) /\ Len(t.path) >= 2
  BY VehicleFacts DEF Intact, FromStartToEnd
<1>2. Len(t.path) \in 1..Len(t.path)
  BY <1>1
<1>3. Last(t.path) \in Stop
  <2> HIDE DEF Stop
  <2>1. QED
    BY <1>1, <1>2 DEF Last
<1>4. twvTot(t) \in Nat /\ cvTot(t) \in Nat
  BY <1>3 DEF twvTot, cvTot, Stop
<1> DEFINE P == Seq(Stop)
           twv == twvTot(t)
           cv == cvTot(t)
<1>5. t \in [idx : Truck, path : P, orders : SUBSET Order, user_twv : Nat, user_cv : Nat]
  BY <1>1 DEF VehicleType
<1>6. u = [t EXCEPT !.user_twv = twv, !.user_cv = cv]
  BY DEF Tolerated
<1>7. twv \in Nat /\ cv \in Nat
  BY <1>4
<1> HIDE DEF P, twv, cv
<1>8. /\ u \in [idx : Truck, path : P, orders : SUBSET Order, user_twv : Nat, user_cv : Nat]
      /\ u.idx = t.idx /\ u.path = t.path /\ u.orders = t.orders
  BY <1>5, <1>6, <1>7
<1>9. u \in VehicleType
  BY <1>8 DEF VehicleType, P
<1>10. QED
  BY <1>8, <1>9 DEF Intact

\* set_initial_solution: whatever the stops and the execution date are.
LEMMA InitialSolutionIntact ==
  ASSUME NEW v \in Truck, NEW stops \in Seq(Order), AtMostTwice(stops), NEW date,
         NEW optimize, NEW t, t = set_initial_solution(v, stops, date, optimize)
  PROVE  /\ Intact(t) /\ t.idx = v
         /\ Holding(t, StopsPath(v, stops), unmovable(OrdersDelivered(StopsPath(v, stops)), date))
         /\ OrdersDelivered(t.path) \subseteq OrdersDelivered(StopsPath(v, stops))
         /\ PicksUp(t, StopsPath(v, stops))
<1> DEFINE wanted == StopsPath(v, stops)
           onboard == OrdersDelivered(wanted)
           fixed == unmovable(onboard, date)
           given == WithStops(v, stops, onboard, date)
           kept == IF optimize THEN EraseAll(given) ELSE given
<1>1. /\ Intact(given) /\ given.idx = v /\ Holding(given, wanted, fixed)
      /\ PicksUp(given, wanted)
  <2>1. given.path = wanted
    <3> DEFINE r == NewTruck(v)
               orders == onboard \ fixed
    <3>1. r \in VehicleType /\ wanted \in Seq(Stop) /\ orders \in SUBSET Order
      BY NewTruckIntact, StopsPathKeeps DEF Intact, OrdersDelivered
    <3>2. given = WithFields(r, wanted, orders)
      BY DEF WithStops, WithFields
    <3> HIDE DEF r, orders, wanted, given
    <3>3. QED
      BY <3>1, <3>2, VehicleFields
  <2>2. Intact(given) /\ given.idx = v /\ Holding(given, wanted, fixed)
    BY WithStopsIntact
  <2> HIDE DEF wanted, given
  <2>3. PicksUp(given, wanted)
    BY <2>1, <2>2, VehicleFacts, PicksUpItself DEF Intact
  <2>4. QED
    BY <2>2, <2>3
<1>2. t = IF stops = <<>> \/ is_feasible(given) THEN given ELSE Tolerated(kept)
  BY DEF set_initial_solution, Settled
<1> HIDE DEF given
<1>3. Intact(kept) /\ kept.idx = v /\ Holding(kept, wanted, fixed) /\ PicksUp(kept, wanted)
  BY <1>1, EraseAllIntact DEF SameVehicle
<1> HIDE DEF kept
<1>4. /\ Intact(Tolerated(kept)) /\ Tolerated(kept).idx = v
      /\ Tolerated(kept).orders = kept.orders /\ Tolerated(kept).path = kept.path
  BY <1>3, ToleratedIntact
<1>5. Holding(Tolerated(kept), wanted, fixed) /\ PicksUp(Tolerated(kept), wanted)
  BY <1>3, <1>4 DEF Holding, PicksUp
<1>6. Intact(t) /\ t.idx = v /\ Holding(t, wanted, fixed) /\ PicksUp(t, wanted)
  BY <1>1, <1>2, <1>3, <1>4, <1>5
<1>7. OrdersDelivered(t.path) \subseteq onboard
  BY <1>6 DEF PicksUp, OrdersDelivered
<1>8. QED
  BY <1>6, <1>7

-----------------------------------------------------------------------------

(***************************************************************************)
(* The nodes a vehicle visits after it was given an order.                 *)
(***************************************************************************)

\* The nodes of a path that has gained an order.
LEMMA HasOrderNodes ==
  ASSUME NEW path \in Seq(Stop), NEW o \in Order, NEW p \in 1..(Len(path) + 1),
         NEW q \in 1..(Len(path) + 2), p < q, NEW e, HasOrder(path, o, p, q, e)
  PROVE  Nodes(e) = Nodes(path) \cup {Pickup(o), Delivery(o)}
<1>1. PICK mid : HasInserted(path, p, Pickup(o), mid) /\ HasInserted(mid, q, Delivery(o), e)
  BY InsertionsOfOrder
<1>2. mid \in Seq(Stop) /\ Len(mid) = Len(path) + 1
  BY <1>1 DEF HasInserted
<1>3. Nodes(mid) = Nodes(path) \cup {Pickup(o)}
  BY <1>1, InsertKeeps
<1>4. q \in 1..(Len(mid) + 1)
  BY <1>2
<1>5. Nodes(e) = Nodes(mid) \cup {Delivery(o)}
  BY <1>1, <1>2, <1>4, InsertKeeps
<1>6. QED
  BY <1>3, <1>5

\* u is the vehicle t with the order o.
Took(t, o, u) ==
  /\ Intact(u) /\ SameVehicle(t, u) /\ u.orders = t.orders \cup {o}
  /\ Nodes(u.path) = Nodes(t.path) \cup {Pickup(o), Delivery(o)}

\* What push_back and push_front make of a vehicle.
LEMMA PushesTake ==
  ASSUME NEW t, Intact(t), NEW o \in Order, OffPath(t, o),
         NEW u, u \in {push_back(t, o), push_front(t, o)}
  PROVE  Took(t, o, u)
<1>1. /\ t \in VehicleType /\ t.path \in Seq(Stop) /\ Coherent(t.idx, t.path)
      /\ Len(t.path) \in Nat /\ Len(t.path) >= 2
  BY VehicleFacts DEF Intact, FromStartToEnd
<1>2. Intact(u) /\ SameVehicle(t, u) /\ u.orders = t.orders \cup {o}
  BY PushesIntact
<1>3. \/ HasOrder(t.path, o, Len(t.path), Len(t.path) + 1, u.path)
      \/ HasOrder(t.path, o, 2, 3, u.path)
  <2>1. CASE u = push_back(t, o)
    <3>1. Len(t.path) >= 1
      BY <1>1
    <3>2. QED
      BY <1>1, <2>1, <3>1, PushBackIs
  <2>2. CASE u = push_front(t, o)
    BY <1>1, <2>2, PushFrontIs
  <2>3. QED
    BY <2>1, <2>2
<1>4. \E p \in 1..(Len(t.path) + 1), q \in 1..(Len(t.path) + 2) :
        p < q /\ HasOrder(t.path, o, p, q, u.path)
  <2>1. /\ Len(t.path) \in 1..(Len(t.path) + 1) /\ Len(t.path) + 1 \in 1..(Len(t.path) + 2)
        /\ 2 \in 1..(Len(t.path) + 1) /\ 3 \in 1..(Len(t.path) + 2)
        /\ Len(t.path) < Len(t.path) + 1 /\ 2 < 3
    BY <1>1
  <2>2. QED
    BY <1>3, <2>1
<1>5. Nodes(u.path) = Nodes(t.path) \cup {Pickup(o), Delivery(o)}
  BY <1>1, <1>4, HasOrderNodes
<1>6. QED
  BY <1>2, <1>5 DEF Took

\* What semiLIFO makes of a vehicle, when it finds a place.
LEMMA SemiLIFOTakes ==
  ASSUME NEW t, Intact(t), t.user_cv = 0, NEW o \in Order, OffPath(t, o),
         NEW u, u = semiLIFO(t, o), u # t
  PROVE  Took(t, o, u)
<1>1. t.path \in Seq(Stop) /\ Len(t.path) \in Nat /\ Len(t.path) >= 2
  BY VehicleFacts DEF Intact, FromStartToEnd
<1>2. Intact(u) /\ SameVehicle(t, u) /\ u.orders = t.orders \cup {o}
  BY SemiLIFOIs
<1>3. PICK q \in 3..(Len(t.path) + 1) : HasOrder(t.path, o, 2, q, u.path)
  BY SemiLIFOIs
<1>4. 2 \in 1..(Len(t.path) + 1) /\ q \in 1..(Len(t.path) + 2) /\ 2 < q
  BY <1>1
<1>5. Nodes(u.path) = Nodes(t.path) \cup {Pickup(o), Delivery(o)}
  BY <1>1, <1>3, <1>4, HasOrderNodes
<1>6. QED
  BY <1>2, <1>5 DEF Took

\* What hillClimb makes of a vehicle, when it finds a place.
LEMMA HillClimbTakes ==
  ASSUME NEW t, Intact(t), NEW o \in Order, OffPath(t, o),
         NEW u, u = hillClimb(t, o), u # t
  PROVE  Took(t, o, u)
<1>1. /\ t \in VehicleType /\ t.path \in Seq(Stop) /\ Coherent(t.idx, t.path)
      /\ Len(t.path) \in Nat
  BY VehicleFacts DEF Intact
<1>2. Intact(u) /\ SameVehicle(t, u) /\ u.orders = t.orders \cup {o}
  BY HillClimbIs
<1>3. PICK pq \in FeasiblePositions(t, o) : u = WithOrderAtPair(t, o, pq)
  BY HillClimbIs
<1>4. pq \in HillClimbPositions(t, o)
  BY DEF FeasiblePositions
<1>5. pq[1] \in 2..Len(t.path) /\ pq[2] \in 2..(Len(t.path) + 1) /\ pq[1] < pq[2]
  BY <1>4, IntactTravels, PairsInside
<1>6. pq[1] \in 1..(Len(t.path) + 1) /\ pq[2] \in 1..(Len(t.path) + 2)
  BY <1>1, <1>5
<1>7. u = WithOrderAt(t, o, pq[1], pq[2])
  BY <1>3 DEF WithOrderAtPair
<1>8. HasOrder(t.path, o, pq[1], pq[2], u.path)
  BY <1>1, <1>5, <1>6, <1>7, OrderIsAt
<1>9. Nodes(u.path) = Nodes(t.path) \cup {Pickup(o), Delivery(o)}
  BY <1>1, <1>5, <1>6, <1>8, HasOrderNodes
<1>10. QED
  BY <1>2, <1>9 DEF Took


-----------------------------------------------------------------------------

(***************************************************************************)
(* Vehicles that travel, and the phony one.                                *)
(***************************************************************************)

\* A node of an order, taken off a path or not on it.
LEMMA NodeOff ==
  ASSUME NEW v \in Truck, NEW path \in Seq(Stop), Coherent(v, path),
         FromStartToEnd(v, path), NEW n \in OrderNode, NEW e, e = EraseNode(v, path, n)
  PROVE  e \in Seq(Stop) /\ Coherent(v, e) /\ FromStartToEnd(v, e)
<1>1. /\ e \in Seq(Stop) /\ Coherent(v, e)
      /\ n \notin Nodes(path) => e = path
      /\ n \in Nodes(path) =>
           \E pos \in 1..Len(path) : path[pos].node = n /\ HasErased(path, pos, e)
  BY EraseNodeIs
<1>2. CASE n \notin Nodes(path)
  BY <1>1, <1>2
<1>3. CASE n \in Nodes(path)
  <2>1. PICK pos \in 1..Len(path) : path[pos].node = n /\ HasErased(path, pos, e)
    BY <1>1, <1>3
  <2>2. QED
    BY <1>1, <2>1, EraseKeeps
<1>4. QED
  BY <1>2, <1>3

\* erase leaves a vehicle that travels, whatever is on its path.
LEMMA EraseTravels ==
  ASSUME NEW t, Travels(t), NEW o \in Order, NEW u, u = erase(t, o)
  PROVE  Travels(u) /\ SameVehicle(t, u) /\ u.orders = t.orders \ {o}
<1> DEFINE mid == EraseNode(t.idx, t.path, Pickup(o))
           e == EraseNode(t.idx, mid, Delivery(o))
<1>1. /\ t \in VehicleType /\ t.idx \in Truck /\ t.path \in Seq(Stop)
      /\ t.orders \ {o} \in SUBSET Order
      /\ Coherent(t.idx, t.path) /\ FromStartToEnd(t.idx, t.path)
  BY VehicleFacts DEF Travels
<1>2. u = WithFields(t, e, t.orders \ {o})
  BY DEF erase, WithFields
<1>3. Pickup(o) \in OrderNode /\ Delivery(o) \in OrderNode
  BY OrderNodes
<1>4. mid \in Seq(Stop) /\ Coherent(t.idx, mid) /\ FromStartToEnd(t.idx, mid)
  BY <1>1, <1>3, NodeOff
<1> HIDE DEF mid
<1>5. e \in Seq(Stop) /\ Coherent(t.idx, e) /\ FromStartToEnd(t.idx, e)
  BY <1>1, <1>3, <1>4, NodeOff
<1> HIDE DEF e
<1>6. /\ u \in VehicleType /\ u.idx = t.idx /\ u.path = e /\ u.orders = t.orders \ {o}
      /\ u.user_twv = t.user_twv /\ u.user_cv = t.user_cv
  BY <1>1, <1>2, <1>5, VehicleFields
<1>7. QED
  BY <1>5, <1>6 DEF Travels, SameVehicle

\* The empty vehicle with an order pushed back is the empty vehicle again once
\* the order is erased.
LEMMA PushedAndErased ==
  ASSUME NEW v \in Truck, NEW o \in Order, NEW t, t = push_back(NewTruck(v), o)
  PROVE  /\ Travels(t) /\ t.idx = v /\ t.orders = {o}
         /\ Nodes(t.path) = {StartSite(v), EndSite(v), Pickup(o), Delivery(o)}
         /\ erase(t, o) = NewTruck(v)
<1> DEFINE new == NewTruck(v)
           u == erase(t, o)
<1>1. /\ Intact(new) /\ new.idx = v /\ new.orders = {} /\ new.user_twv = 0
      /\ new.user_cv = 0 /\ Nodes(new.path) = {StartSite(v), EndSite(v)}
      /\ new.path = NewPath(v)
  BY NewTruckIntact
<1>2. OffPath(new, o)
  BY <1>1, KindsDiffer DEF OffPath
<1> HIDE DEF new
<1>3. Intact(t) /\ SameVehicle(new, t) /\ t.orders = {o}
      /\ Nodes(t.path) = {StartSite(v), EndSite(v), Pickup(o), Delivery(o)}
  <2>1. t = push_back(new, o)
    BY DEF new
  <2>2. Took(new, o, t)
    BY <1>1, <1>2, <2>1, PushesTake
  <2>3. QED
    BY <1>1, <2>2 DEF Took
<1>4. /\ Intact(u) /\ SameVehicle(t, u) /\ u.orders = {}
      /\ Nodes(u.path) = {StartSite(v), EndSite(v)}
  <2>1. /\ Intact(u) /\ SameVehicle(t, u) /\ u.orders = t.orders \ {o}
        /\ Nodes(u.path) = Nodes(t.path) \ {Pickup(o), Delivery(o)}
    BY <1>3, EraseIntact, SMTT(60)
  <2>2. QED
    BY <1>3, <2>1, KindsDiffer
<1> HIDE DEF u
<1>5. /\ u.idx = v /\ u.user_twv = 0 /\ u.user_cv = 0 /\ t.idx = v
      /\ u \in VehicleType /\ u.path \in Seq(Stop) /\ Coherent(v, u.path)
      /\ FromStartToEnd(v, u.path) /\ Once(u.path)
  BY <1>1, <1>3, <1>4, VehicleFacts DEF SameVehicle, Intact
<1>6. /\ new \in VehicleType /\ new.path \in Seq(Stop) /\ Coherent(v, new.path)
      /\ Len(new.path) = 2 /\ new.path[1].node = StartSite(v)
      /\ new.path[2].node = EndSite(v)
  BY <1>1, NewPathIs DEF Intact
<1>7. Len(u.path) = 2
  <2> DEFINE n == Len(u.path)
  <2>1. n \in Nat /\ n >= 2
    BY <1>5 DEF FromStartToEnd
  <2>2. \A p, q \in 1..n : u.path[p].node = u.path[q].node => p = q
    BY <1>5 DEF Once
  <2>3. u.path[1].node = StartSite(v) /\ u.path[n].node = EndSite(v)
    BY <1>5 DEF FromStartToEnd
  <2>4. \A p \in 1..n : u.path[p].node \in {StartSite(v), EndSite(v)}
    BY <1>4, <1>5, VisitedNodes
  <2> HIDE DEF n
  <2>5. 1 \in 1..n /\ 2 \in 1..n /\ n \in 1..n
    BY <2>1
  <2>6. u.path[2].node \in {u.path[1].node, u.path[n].node}
    BY <2>3, <2>4, <2>5
  <2>7. 2 = 1 \/ 2 = n
    BY <2>2, <2>5, <2>6
  <2>8. QED
    BY <2>7 DEF n
<1>8. SameNodes(u.path, new.path)
  <2>1. u.path[1].node = StartSite(v) /\ u.path[2].node = EndSite(v)
    BY <1>5, <1>7 DEF FromStartToEnd
  <2>2. QED
    BY <1>6, <1>7, <2>1 DEF SameNodes
<1>9. u.path = new.path
  BY <1>5, <1>6, <1>8, CoherentOnce
<1>10. u = new
  <2> DEFINE P == Seq(Stop)
  <2>1. u \in [idx : Truck, path : P, orders : SUBSET Order, user_twv : Nat, user_cv : Nat]
    BY <1>5 DEF VehicleType
  <2>2. new \in [idx : Truck, path : P, orders : SUBSET Order, user_twv : Nat, user_cv : Nat]
    BY <1>6 DEF VehicleType
  <2>3. u.idx = new.idx /\ u.path = new.path /\ u.orders = new.orders
        /\ u.user_twv = new.user_twv /\ u.user_cv = new.user_cv
    BY <1>1, <1>4, <1>5, <1>9
  <2> HIDE DEF P
  <2>4. \A a, b \in [idx : Truck, path : P, orders : SUBSET Order, user_twv : Nat, user_cv : Nat] :
          a.idx = b.idx /\ a.path = b.path /\ a.orders = b.orders
          /\ a.user_twv = b.user_twv /\ a.user_cv = b.user_cv => a = b
    OBVIOUS
  <2>5. QED
    BY <2>1, <2>2, <2>3, <2>4
<1>11. QED
  BY <1>3, <1>5, <1>10, IntactTravels DEF u, new

\* What is fixed stays when hillClimb takes an order that is not delivered yet.
LEMMA HillClimbHolds ==
  ASSUME NEW t, Travels(t), NEW wanted, NEW fixed, Holding(t, wanted, fixed),
         NEW o \in Order, o \notin fixed, o \notin t.orders,
         NEW u, u = hillClimb(t, o)
  PROVE  Holding(u, wanted, fixed)
<1>1. CASE u = t
  BY <1>1
<1>2. CASE u # t
  <2>1. PICK pq \in FeasiblePositions(t, o) : u = WithOrderAtPair(t, o, pq)
    BY <1>2, HillClimbTravels
  <2>2. pq \in HillClimbPositions(t, o)
    BY <2>1 DEF FeasiblePositions
  <2> DEFINE p == pq[1]
             q == pq[2]
  <2>3. p \in 2..Len(t.path) /\ q \in 2..(Len(t.path) + 1)
    BY <2>2, PairsInside
  <2>4. u = WithOrderAt(t, o, p, q)
    BY <2>1 DEF WithOrderAtPair
  <2> HIDE DEF p, q
  <2>5. t \in VehicleType /\ Coherent(t.idx, t.path) /\ Len(t.path) \in Nat
    BY VehicleFacts DEF Travels
  <2>6. p \in 1..(Len(t.path) + 1) /\ q \in 1..(Len(t.path) + 2)
    BY <2>3, <2>5
  <2>7. /\ Gained(t, o, u)
        /\ \E mid : /\ HasInserted(t.path, p, Pickup(o), mid)
                    /\ HasInserted(mid, q, Delivery(o), u.path)
    BY <2>4, <2>5, <2>6, WithOrderAtIs
  <2>8. u.orders = t.orders \cup {o}
    BY <2>7 DEF Gained
  <2>9. QED
    BY <2>5, <2>6, <2>7, <2>8, GainHolds
<1>3. QED
  BY <1>1, <1>2

-----------------------------------------------------------------------------

(***************************************************************************)
(* What the limits on the positions leave out, when travel times are       *)
(* ordinary.                                                               *)
(***************************************************************************)

\* Travel times as one expects them: no vehicle overtakes another one by leaving
\* later, no detour is shorter, and no vehicle is faster than the default speed.
OrdinaryTimes ==
  \A v \in Truck, a, b \in Node, t \in Nat :
    /\ TravelTime(a, b, t, SpeedUnit) <= TravelTime(a, b, t, SpeedOf(v))
    /\ \A u \in Nat :
         t <= u => t + TravelTime(a, b, t, SpeedOf(v)) <= u + TravelTime(a, b, u, SpeedOf(v))
    /\ \A c \in Node :
         LET leg == TravelTime(a, b, t, SpeedOf(v))
         IN  TravelTime(a, c, t, SpeedOf(v)) <= leg + TravelTime(b, c, t + leg, SpeedOf(v))

\* They are, when there is one multiplier, the matrix obeys the triangle
\* inequality and every vehicle has the default speed.
LEMMA PlainTimesAreOrdinary ==
  ASSUME Len(Multipliers) = 1, \A v \in Truck : SpeedOf(v) = SpeedUnit,
         \A i, j, k \in Site : Dist[i][k] <= Dist[i][j] + Dist[j][k]
  PROVE  OrdinaryTimes
<1>1. ASSUME NEW a \in Node, NEW b \in Node, NEW t \in Nat
      PROVE  /\ TravelTime(a, b, t, SpeedUnit) = Dist[Tw_node[a].id][Tw_node[b].id]
             /\ TravelTime(a, b, t, SpeedUnit) \in Nat
  <2> DEFINE d == Dist[Tw_node[a].id][Tw_node[b].id]
  <2>1. d \in Nat
    BY NodeData, MatrixAssumption
  <2>2. TravelTime(a, b, t, SpeedUnit) = (d * SpeedUnit) \div SpeedUnit
    BY DEF TravelTime, travel_time_to, travel_time
  <2>3. SpeedUnit \in Nat \ {0}
    BY MatrixAssumption
  <2> HIDE DEF d
  <2>4. (d * SpeedUnit) \div SpeedUnit = d
    BY <2>1, <2>3
  <2>5. QED
    BY <2>1, <2>2, <2>4 DEF d
<1>2. \A a \in Node : Tw_node[a].id \in Site
  BY NodeData
<1>3. SUFFICES ASSUME NEW v \in Truck, NEW a \in Node, NEW b \in Node, NEW t \in Nat
               PROVE  /\ TravelTime(a, b, t, SpeedUnit) <= TravelTime(a, b, t, SpeedOf(v))
                      /\ \A u \in Nat : t <= u =>
                           t + TravelTime(a, b, t, SpeedOf(v)) <= u + TravelTime(a, b, u, SpeedOf(v))
                      /\ \A c \in Node :
                           TravelTime(a, c, t, SpeedOf(v))
                             <= TravelTime(a, b, t, SpeedOf(v))
                                  + TravelTime(b, c, t + TravelTime(a, b, t, SpeedOf(v)), SpeedOf(v))
  BY DEF OrdinaryTimes
<1>4. SpeedOf(v) = SpeedUnit
  OBVIOUS
<1>5. TravelTime(a, b, t, SpeedUnit) <= TravelTime(a, b, t, SpeedOf(v))
  BY <1>1, <1>4
<1>6. ASSUME NEW u \in Nat, t <= u
      PROVE  t + TravelTime(a, b, t, SpeedOf(v)) <= u + TravelTime(a, b, u, SpeedOf(v))
  <2>1. /\ TravelTime(a, b, t, SpeedOf(v)) = TravelTime(a, b, u, SpeedOf(v))
        /\ TravelTime(a, b, t, SpeedOf(v)) \in Nat
    BY <1>1, <1>4
  <2>2. QED
    BY <1>6, <2>1
<1>7. ASSUME NEW c \in Node
      PROVE  TravelTime(a, c, t, SpeedOf(v))
               <= TravelTime(a, b, t, SpeedOf(v))
                    + TravelTime(b, c, t + TravelTime(a, b, t, SpeedOf(v)), SpeedOf(v))
  <2> DEFINE leg == TravelTime(a, b, t, SpeedOf(v))
  <2>1. leg \in Nat /\ leg = Dist[Tw_node[a].id][Tw_node[b].id]
    BY <1>1, <1>4
  <2> HIDE DEF leg
  <2>2. t + leg \in Nat
    BY <2>1
  <2>3. TravelTime(b, c, t + leg, SpeedOf(v)) = Dist[Tw_node[b].id][Tw_node[c].id]
    BY <1>1, <1>4, <2>2
  <2>4. TravelTime(a, c, t, SpeedOf(v)) = Dist[Tw_node[a].id][Tw_node[c].id]
    BY <1>1, <1>4
  <2>5. TravelTime(a, c, t, SpeedOf(v)) <= leg + TravelTime(b, c, t + leg, SpeedOf(v))
    BY <1>2, <2>1, <2>3, <2>4
  <2>6. QED
    BY <2>5 DEF leg
<1>8. QED
  BY <1>5, <1>6, <1>7

\* When a vehicle arrives at a stop, and when it leaves it.
LEMMA StopTimes ==
  ASSUME NEW v \in Truck, NEW path \in Seq(Stop), Coherent(v, path), NEW p \in 1..Len(path)
  PROVE  /\ path[p].node \in Node /\ path[p].arrival \in Nat /\ path[p].departure \in Nat
         /\ Tw_node[path[p].node].opens + Tw_node[path[p].node].service_time \in Nat
         /\ path[p].departure >= Tw_node[path[p].node].opens + Tw_node[path[p].node].service_time
         /\ path[p].departure >= path[p].arrival
         /\ p > 1 => path[p].arrival =
              path[p - 1].departure
                + TravelTime(path[p - 1].node, path[p].node, path[p - 1].departure, SpeedOf(v))
<1> DEFINE n == path[p].node
           tw == Tw_node[n]
<1>1. path[p] \in Stop
  OBVIOUS
<1>2. n \in Node /\ path[p].arrival \in Nat /\ path[p].departure \in Nat
  BY <1>1 DEF Stop
<1>3. tw.opens \in Nat /\ tw.service_time \in Nat
  BY <1>2, NodeData
<1>4. path[p] = StopAt(v, path, 1, path, p)
  BY DEF Coherent, Right
<1>5. CASE p = 1
  <2>1. path[p] = EvaluateStart(v, n)
    BY <1>4, <1>5 DEF StopAt
  <2>2. path[p].arrival = tw.opens /\ path[p].departure = tw.opens + tw.service_time
    BY <2>1 DEF EvaluateStart
  <2> HIDE DEF tw
  <2>3. path[p].departure >= tw.opens + tw.service_time /\ path[p].departure >= path[p].arrival
    BY <1>3, <2>2
  <2>4. QED
    BY <1>2, <1>3, <1>5, <2>3 DEF tw
<1>6. CASE p > 1
  <2> DEFINE pred == path[p - 1]
             leg == TravelTime(pred.node, n, pred.departure, SpeedOf(v))
             wait == IF is_early_arrival(n, path[p].arrival) THEN tw.opens - path[p].arrival ELSE 0
  <2>1. path[p] = StopAfter(v, pred, n, tw, leg)
    BY <1>4, <1>6 DEF StopAt, EvaluateAfter
  <2>2. path[p].arrival = pred.departure + leg
    BY <2>1 DEF StopAfter
  <2>3. path[p].departure = path[p].arrival + wait + tw.service_time
    BY <2>1 DEF StopAfter
  <2>4. wait = IF path[p].arrival < tw.opens THEN tw.opens - path[p].arrival ELSE 0
    BY DEF is_early_arrival
  <2> HIDE DEF tw, wait
  <2>5. path[p].departure >= tw.opens + tw.service_time /\ path[p].departure >= path[p].arrival
    BY <1>2, <1>3, <2>3, <2>4, SMTT(60)
  <2>6. QED
    BY <1>2, <1>3, <2>2, <2>5, SMTT(60) DEF tw
<1>7. QED
  BY <1>5, <1>6

\* What the nodes and the speed of a vehicle are for TravelTime.
LEMMA TripIsNatural ==
  ASSUME NEW v \in Truck, NEW a \in Node, NEW b \in Node, NEW t \in Nat
  PROVE  /\ TravelTime(a, b, t, SpeedOf(v)) \in Nat
         /\ TravelTime(a, b, t, SpeedUnit) \in Nat
<1>1. Tw_node[a].id \in Site /\ Tw_node[b].id \in Site
  BY NodeData
<1>2. SpeedOf(v) \in Nat \ {0} /\ SpeedUnit \in Nat \ {0}
  BY DataAssumption, MatrixAssumption DEF SpeedOf, TruckFields
<1>3. QED
  BY <1>1, <1>2, TravelTimeIsNatural DEF TravelTime

\* With ordinary times, leaving a later, or going from a to c by b, is no way
\* to arrive earlier.
LEMMA NoShortcut ==
  ASSUME OrdinaryTimes, NEW v \in Truck, NEW a \in Node, NEW b \in Node, NEW c \in Node,
         NEW t \in Nat, NEW arrived \in Nat, NEW left \in Nat, left >= arrived,
         arrived >= t + TravelTime(a, b, t, SpeedOf(v))
  PROVE  left + TravelTime(b, c, left, SpeedOf(v)) >= t + TravelTime(a, c, t, SpeedOf(v))
<1> DEFINE T(x, y, s) == TravelTime(x, y, s, SpeedOf(v))
           s == t + T(a, b, t)
<1>1. T(a, b, t) \in Nat /\ T(a, c, t) \in Nat /\ T(b, c, left) \in Nat
  BY TripIsNatural
<1>2. s \in Nat /\ s <= left
  BY <1>1
<1>3. s + T(b, c, s) <= left + T(b, c, left)
  <2>1. \A x, y \in Nat : x <= y => x + T(b, c, x) <= y + T(b, c, y)
    BY DEF OrdinaryTimes
  <2> HIDE DEF s, T
  <2>2. QED
    BY <1>2, <2>1
<1>4. T(a, c, t) <= T(a, b, t) + T(b, c, s)
  BY DEF OrdinaryTimes
<1>5. T(b, c, s) \in Nat
  <2> HIDE DEF s
  <2>1. QED
    BY <1>2, TripIsNatural
<1>6. left + T(b, c, left) >= t + T(a, c, t)
  <2>1. s = t + T(a, b, t)
    OBVIOUS
  <2> HIDE DEF s, T
  <2>2. QED
    BY <1>1, <1>2, <1>3, <1>4, <1>5, <2>1
<1>7. QED
  BY <1>6

\* Along a path nobody arrives earlier than straight from an earlier stop.
LEMMA StraightIsFirst ==
  ASSUME OrdinaryTimes, NEW v \in Truck, NEW path \in Seq(Stop), Coherent(v, path),
         NEW p \in 1..Len(path)
  PROVE  \A q \in (p + 1)..Len(path) :
           path[q].arrival >= path[p].departure
             + TravelTime(path[p].node, path[q].node, path[p].departure, SpeedOf(v))
<1> DEFINE a == path[p].node
           t == path[p].departure
           Straight(q) == t + TravelTime(a, path[q].node, t, SpeedOf(v))
           n == Len(path) - p
           Good == {k \in 0..n : k > 0 => path[p + k].arrival >= Straight(p + k)}
<1>1. Len(path) \in Nat /\ p \in Nat /\ n \in Nat
  OBVIOUS
<1>2. a \in Node /\ t \in Nat
  BY StopTimes
<1>3. 0 \in Good
  BY <1>1
<1>4. ASSUME NEW k \in 1..n, k - 1 \in Good
      PROVE  k \in Good
  <2> DEFINE q == p + k
  <2>1. q \in 2..Len(path) /\ q - 1 \in 1..Len(path) /\ q > 1 /\ p + (k - 1) = q - 1
    BY <1>1
  <2> HIDE DEF q
  <2>2. /\ path[q].node \in Node /\ path[q].arrival \in Nat
        /\ path[q].arrival = path[q - 1].departure
             + TravelTime(path[q - 1].node, path[q].node, path[q - 1].departure, SpeedOf(v))
    BY <2>1, StopTimes
  <2>3. /\ path[q - 1].node \in Node /\ path[q - 1].arrival \in Nat
        /\ path[q - 1].departure \in Nat /\ path[q - 1].departure >= path[q - 1].arrival
    BY <2>1, StopTimes
  <2>4. path[q].arrival >= Straight(q)
    <3>1. CASE k = 1
      <4>1. q - 1 = p
        BY <1>1, <3>1 DEF q
      <4>2. path[q].arrival = Straight(q)
        BY <2>2, <4>1
      <4> HIDE DEF Straight
      <4>3. QED
        BY <2>2, <4>2
    <3>2. CASE k > 1
      <4>1. path[q - 1].arrival >= Straight(q - 1)
        BY <1>4, <2>1, <3>2
      <4> HIDE DEF a, t
      <4>2. path[q - 1].departure
              + TravelTime(path[q - 1].node, path[q].node, path[q - 1].departure, SpeedOf(v))
              >= t + TravelTime(a, path[q].node, t, SpeedOf(v))
        BY <1>2, <2>2, <2>3, <4>1, NoShortcut
      <4>3. QED
        BY <2>2, <4>2
    <3>3. QED
      BY <1>1, <3>1, <3>2
  <2>5. path[p + k].arrival >= Straight(p + k)
    BY <2>4 DEF q
  <2> HIDE DEF Straight, n
  <2>6. k \in 0..n
    BY <1>1
  <2>7. QED
    BY <2>5, <2>6
<1>5. \A k \in 0..n : k \in Good
  <2> HIDE DEF Good, n
  <2>1. QED
    BY <1>1, <1>3, <1>4, Upward
<1>6. ASSUME NEW q \in (p + 1)..Len(path)
      PROVE  path[q].arrival >= Straight(q)
  <2> DEFINE k == q - p
  <2>1. k \in 0..n /\ k > 0 /\ p + k = q
    BY <1>1
  <2> HIDE DEF k, n
  <2>2. k \in Good
    BY <1>5, <2>1
  <2>3. path[p + k].arrival >= Straight(p + k)
    BY <2>1, <2>2
  <2>4. QED
    BY <2>1, <2>3
<1>7. QED
  BY <1>6

\* On a path without lateness every two nodes are compatible, the earlier one
\* with the later one.
LEMMA StopsAreCompatible ==
  ASSUME OrdinaryTimes, NEW v \in Truck, NEW path \in Seq(Stop), Coherent(v, path),
         FromStartToEnd(v, path), path[Len(path)].twvTot <= 0,
         NEW p \in 1..Len(path), NEW q \in 1..Len(path), p < q
  PROVE  /\ is_compatible_IJ(path[p].node, path[q].node, SpeedOf(v))
         /\ is_compatible_IJ(path[p].node, path[q].node, SpeedUnit)
<1> DEFINE a == path[p].node
           b == path[q].node
           opened == Tw_node[a].opens + Tw_node[a].service_time
           T(t, s) == TravelTime(a, b, t, s)
<1>1. Len(path) \in Nat /\ Len(path) >= 2
  BY DEF FromStartToEnd
<1>2. /\ a \in Node /\ b \in Node /\ path[p].departure \in Nat /\ opened \in Nat
      /\ path[p].departure >= opened /\ path[q].arrival \in Nat
  BY StopTimes
<1>3. path[q].arrival >= path[p].departure + T(path[p].departure, SpeedOf(v))
  BY StraightIsFirst
<1>4. Tw_node[b].closes \in Nat
  BY <1>2, NodeData
<1>5. path[q].arrival <= Tw_node[b].closes
  <2>1. path[q] \in Stop /\ path[q - 1] \in Stop /\ q > 1
    BY <1>1
  <2>2. path[q].twvTot \in Nat /\ path[q - 1].twvTot \in Nat /\ path[Len(path)].twvTot \in Nat
    <3>1. path[Len(path)] \in Stop
      BY <1>1
    <3>2. QED
      BY <2>1, <3>1 DEF Stop
  <2>3. path[q].twvTot <= 0
    <3>1. path[q].twvTot <= path[Len(path)].twvTot
      BY <1>1, ViolationsGrow
    <3>2. QED
      BY <2>2, <3>1
  <2>4. path[q].twvTot = path[q - 1].twvTot + Count(is_late_arrival(b, path[q].arrival))
    <3>1. path[q] = EvaluateAfter(v, path[q - 1], b)
      BY <2>1 DEF Coherent, Right, StopAt
    <3>2. QED
      BY <3>1 DEF EvaluateAfter, StopAfter
  <2>5. ~is_late_arrival(b, path[q].arrival)
    <3>1. ASSUME is_late_arrival(b, path[q].arrival)
          PROVE  FALSE
      <4>1. path[q].twvTot = path[q - 1].twvTot + 1
        BY <2>4, <3>1 DEF Count
      <4>2. QED
        BY <2>2, <2>3, <4>1
    <3>2. QED
      BY <3>1
  <2>6. QED
    BY <1>2, <1>4, <2>5 DEF is_late_arrival
<1>6. ~IsStart(b) /\ ~IsEnd(a)
  <2>1. b \in OrderNode \/ b = EndSite(v)
    BY <1>1 DEF FromStartToEnd
  <2>2. a \in OrderNode \/ a = StartSite(v)
    BY <1>1 DEF FromStartToEnd
  <2>3. \A x \in OrderNode : ~IsStart(x) /\ ~IsEnd(x)
    BY DEF OrderNode, IsStart, IsEnd, Pickup, Delivery
  <2>4. ~IsStart(EndSite(v)) /\ ~IsEnd(StartSite(v))
    BY DEF IsStart, IsEnd, StartSite, EndSite
  <2>5. QED
    BY <2>1, <2>2, <2>3, <2>4
<1>7. /\ opened + T(opened, SpeedOf(v)) <= path[p].departure + T(path[p].departure, SpeedOf(v))
      /\ T(opened, SpeedUnit) <= T(opened, SpeedOf(v))
  <2> HIDE DEF a, b, opened
  <2>1. QED
    BY <1>2 DEF OrdinaryTimes
<1>8. /\ T(opened, SpeedUnit) \in Nat /\ T(opened, SpeedOf(v)) \in Nat
      /\ T(path[p].departure, SpeedOf(v)) \in Nat
  BY <1>2, TripIsNatural
<1>9. /\ ~(opened + T(opened, SpeedOf(v)) > Tw_node[b].closes)
      /\ ~(opened + T(opened, SpeedUnit) > Tw_node[b].closes)
  <2>1. \A o, d, arrived, c, x, y, z \in Nat :
          arrived >= d + z /\ arrived <= c /\ o + x <= d + z /\ y <= x
            => ~(o + x > c) /\ ~(o + y > c)
    OBVIOUS
  <2> HIDE DEF a, b, opened, T
  <2>2. QED
    BY <1>2, <1>3, <1>4, <1>5, <1>7, <1>8, <2>1
<1>10. \A speed : is_compatible_IJ(a, b, speed) <=> ~(opened + T(opened, speed) > Tw_node[b].closes)
  BY <1>6 DEF is_compatible_IJ, is_late_arrival, arrival_j_opens_i
<1>11. QED
  BY <1>9, <1>10


\* Every node of the path is on the longer path e, on the same side of the
\* nodes at p and q.
SidesKept(path, p, q, e) ==
  \A r \in 1..Len(path) :
    \E k \in 1..Len(e) :
      /\ e[k].node = path[r].node
      /\ (r < p => k < p) /\ (r >= p => k > p)
      /\ (r < q - 1 => k < q) /\ (r >= q - 1 => k > q)

\* The nodes of a path in one that has an order in addition.
LEMMA WhereNodesGo ==
  ASSUME NEW path \in Seq(Stop), NEW o, NEW p \in 1..(Len(path) + 1),
         NEW q \in 1..(Len(path) + 2), p < q, NEW e, HasOrder(path, o, p, q, e)
  PROVE  /\ e[p].node = Pickup(o) /\ p \in 1..Len(e)
         /\ e[q].node = Delivery(o) /\ q \in 1..Len(e)
         /\ SidesKept(path, p, q, e)
<1>1. /\ Len(path) \in Nat /\ Len(e) = Len(path) + 2
      /\ \A j \in 1..Len(e) : e[j].node = OrderedNode(path, o, p, q, j)
  BY DEF HasOrder
<1>2. p \in 1..Len(e) /\ q \in 1..Len(e)
  BY <1>1
<1>3. e[p].node = Pickup(o) /\ e[q].node = Delivery(o)
  BY <1>1, <1>2 DEF OrderedNode
<1>4. ASSUME NEW r \in 1..Len(path)
      PROVE  \E k \in 1..Len(e) :
                /\ e[k].node = path[r].node
                /\ (r < p => k < p) /\ (r >= p => k > p)
                /\ (r < q - 1 => k < q) /\ (r >= q - 1 => k > q)
  <2> DEFINE k == IF r < p THEN r ELSE IF r < q - 1 THEN r + 1 ELSE r + 2
  <2>1. /\ k \in 1..Len(e)
        /\ (r < p => k < p) /\ (r >= p => k > p)
        /\ (r < q - 1 => k < q) /\ (r >= q - 1 => k > q)
    BY <1>1
  <2>2. OrderedNode(path, o, p, q, k) = path[r].node
    <3>1. CASE r < p
      BY <3>1 DEF OrderedNode
    <3>2. CASE r >= p /\ r < q - 1
      <4>1. k = r + 1 /\ k > p /\ k < q /\ k - 1 = r
        BY <3>2
      <4> HIDE DEF k
      <4>2. QED
        BY <4>1 DEF OrderedNode
    <3>3. CASE r >= p /\ r >= q - 1
      <4>1. k = r + 2 /\ k > p /\ k > q /\ k - 2 = r
        BY <3>3
      <4> HIDE DEF k
      <4>2. QED
        BY <4>1 DEF OrderedNode
    <3>4. QED
      BY <3>1, <3>2, <3>3
  <2> HIDE DEF k
  <2>3. QED
    BY <1>1, <2>1, <2>2
<1>5. QED
  BY <1>2, <1>3, <1>4 DEF SidesKept

\* Where an order would not make a vehicle late that travels, the positions
\* are between the limits.
LEMMA OnTimeIsWithinLimits ==
  ASSUME OrdinaryTimes, NEW t, Travels(t), NEW o \in Order,
         NEW p \in 2..Len(t.path), NEW q \in 2..(Len(t.path) + 1), p < q,
         NEW u, u = WithOrderAt(t, o, p, q), twvTot(u) <= 0
  PROVE  <<p, q>> \in HillClimbPositions(t, o)
<1> DEFINE n == Len(t.path)
           P == Pickup(o)
           D == Delivery(o)
           v == t.idx
<1>1. /\ t \in VehicleType /\ Coherent(v, t.path) /\ t.path \in Seq(Stop)
      /\ n \in Nat /\ v \in Truck
  BY VehicleFacts DEF Travels
<1>2. p \in 1..(n + 1) /\ q \in 1..(n + 2) /\ p \in Nat /\ q - 1 \in 1..(n + 1)
  BY <1>1
<1>3. Gained(t, o, u) /\ HasOrder(t.path, o, p, q, u.path)
  <2> HIDE DEF n
  <2>1. Len(t.path) = n
    BY DEF n
  <2>2. QED
    BY <1>1, <1>2, <2>1, OrderIsAt
<1>4. Travels(u) /\ u.idx = v
  BY WithOrderAtTravels DEF SameVehicle
<1>5. u.path \in Seq(Stop) /\ Coherent(v, u.path) /\ FromStartToEnd(v, u.path)
  BY <1>4, VehicleFacts DEF Travels
<1>6. u.path[Len(u.path)].twvTot <= 0
  BY DEF twvTot, Last
<1>7. \A a, b \in 1..Len(u.path) : a < b =>
        /\ is_compatible_IJ(u.path[a].node, u.path[b].node, SpeedOf(v))
        /\ is_compatible_IJ(u.path[a].node, u.path[b].node, SpeedUnit)
  BY <1>1, <1>5, <1>6, StopsAreCompatible
<1>8. /\ u.path[p].node = P /\ p \in 1..Len(u.path)
      /\ u.path[q].node = D /\ q \in 1..Len(u.path)
      /\ SidesKept(t.path, p, q, u.path)
  BY <1>1, <1>2, <1>3, WhereNodesGo
<1>9. ASSUME NEW r \in 1..n
      PROVE  /\ r < p => is_compatible_IJ(t.path[r].node, P, SpeedOf(v))
             /\ r >= p => is_compatible_IJ(P, t.path[r].node, SpeedUnit)
             /\ r < q - 1 => is_compatible_IJ(t.path[r].node, D, SpeedOf(v))
             /\ r >= q - 1 => is_compatible_IJ(D, t.path[r].node, SpeedUnit)
  <2>1. PICK k \in 1..Len(u.path) :
             /\ u.path[k].node = t.path[r].node
             /\ (r < p => k < p) /\ (r >= p => k > p)
             /\ (r < q - 1 => k < q) /\ (r >= q - 1 => k > q)
    BY <1>8 DEF SidesKept
  <2>2. p > k \/ k > p \/ k = p
    BY <1>2
  <2> HIDE DEF P, D, n, v
  <2>3. (k > p => p < k) /\ (k > q => q < k)
    BY <1>2
  <2>4. QED
    BY <1>7, <1>8, <2>1, <2>3
<1>10. getPosLowLimit(t.path, P) \in Nat /\ getPosLowLimit(t.path, P) <= p
  <2> DEFINE S == {x \in 1..(n + 1) :
                     \A r \in x..n : is_compatible_IJ(P, t.path[r].node, SpeedUnit)}
  <2>1. S \in SUBSET Nat
    OBVIOUS
  <2>2. p \in S
    BY <1>1, <1>2, <1>9
  <2>3. getPosLowLimit(t.path, P) = Min(S)
    BY DEF getPosLowLimit
  <2> HIDE DEF S
  <2>4. Min(S) \in S /\ \A x \in S : Min(S) <= x
    BY <2>1, <2>2, MinIsMember
  <2>5. Min(S) \in Nat /\ Min(S) <= p
    BY <2>1, <2>2, <2>4
  <2>6. QED
    BY <2>3, <2>5
<1>11. getPosLowLimit(t.path, D) \in Nat /\ getPosLowLimit(t.path, D) <= q - 1
  <2> DEFINE S == {x \in 1..(n + 1) :
                     \A r \in x..n : is_compatible_IJ(D, t.path[r].node, SpeedUnit)}
  <2>1. S \in SUBSET Nat
    OBVIOUS
  <2>2. q - 1 \in S
    BY <1>1, <1>2, <1>9
  <2>3. getPosLowLimit(t.path, D) = Min(S)
    BY DEF getPosLowLimit
  <2> HIDE DEF S
  <2>4. Min(S) \in S /\ \A x \in S : Min(S) <= x
    BY <2>1, <2>2, MinIsMember
  <2>5. Min(S) \in Nat /\ Min(S) <= q - 1
    BY <2>1, <2>2, <2>4
  <2>6. QED
    BY <2>3, <2>5
<1>12. getPosHighLimit(v, t.path, P) \in Nat /\ getPosHighLimit(v, t.path, P) >= p
  <2> DEFINE S == {x \in 1..(n + 1) :
                     \A r \in 1..(x - 1) : is_compatible_IJ(t.path[r].node, P, SpeedOf(v))}
  <2>1. S \in SUBSET Nat /\ \A x \in S : x <= n + 1
    BY <1>1
  <2>2. p \in S
    BY <1>1, <1>2, <1>9
  <2>3. getPosHighLimit(v, t.path, P) = Max(S)
    BY DEF getPosHighLimit
  <2>4. n + 1 \in Nat
    BY <1>1
  <2>5. S # {}
    BY <2>2
  <2> HIDE DEF S
  <2>6. Max(S) \in S /\ \A x \in S : x <= Max(S)
    BY <2>1, <2>4, <2>5, MaxIsMember
  <2>7. Max(S) \in Nat /\ p <= Max(S)
    BY <2>1, <2>2, <2>6
  <2>8. QED
    BY <1>2, <2>3, <2>7
<1>13. getPosHighLimit(v, t.path, D) \in Nat /\ getPosHighLimit(v, t.path, D) >= q - 1
  <2> DEFINE S == {x \in 1..(n + 1) :
                     \A r \in 1..(x - 1) : is_compatible_IJ(t.path[r].node, D, SpeedOf(v))}
  <2>1. S \in SUBSET Nat /\ \A x \in S : x <= n + 1
    BY <1>1
  <2>2. q - 1 \in S
    <3> DEFINE x == q - 1
    <3>1. \A r \in 1..(x - 1) : r \in 1..n /\ r < x
      BY <1>1, <1>2
    <3>2. \A r \in 1..(x - 1) : is_compatible_IJ(t.path[r].node, D, SpeedOf(v))
      BY <1>9, <3>1
    <3>3. x \in 1..(n + 1)
      BY <1>2
    <3> HIDE DEF x
    <3>4. x \in S
      BY <3>2, <3>3
    <3>5. QED
      BY <3>4 DEF x
  <2>3. getPosHighLimit(v, t.path, D) = Max(S)
    BY DEF getPosHighLimit
  <2>4. n + 1 \in Nat
    BY <1>1
  <2>5. S # {}
    BY <2>2
  <2> HIDE DEF S
  <2>6. Max(S) \in S /\ \A x \in S : x <= Max(S)
    BY <2>1, <2>4, <2>5, MaxIsMember
  <2>7. Max(S) \in Nat /\ q - 1 <= Max(S)
    BY <2>1, <2>2, <2>6
  <2>8. QED
    BY <1>2, <2>3, <2>7
<1>14. /\ p \in getPosLowLimit(t.path, P)..getPosHighLimit(v, t.path, P)
       /\ q \in (getPosLowLimit(t.path, D) + 1)..(getPosHighLimit(v, t.path, D) + 1)
  <2> HIDE DEF P, D, v, n
  <2>1. QED
    BY <1>2, <1>10, <1>11, <1>12, <1>13
<1>15. QED
  BY <1>14 DEF HillClimbPositions


\* hillClimb takes the order when some two positions leave the vehicle
\* feasible, and is then no longer under way than with those.
LEMMA HillClimbLosesNothing ==
  ASSUME OrdinaryTimes, NEW t, Travels(t), NEW o \in Order, t.user_twv = 0,
         NEW p \in 2..(Len(t.path) + 1), NEW q \in 2..(Len(t.path) + 1), p < q,
         is_feasible(WithOrderAt(t, o, p, q)),
         NEW u, u = hillClimb(t, o)
  PROVE  has_order(u, o) /\ objective(u) <= objective(WithOrderAt(t, o, p, q))
<1> DEFINE w == WithOrderAt(t, o, p, q)
           S == FeasiblePositions(t, o)
           pq == FirstPair(Cheapest(t, o, S))
<1>1. Len(t.path) \in Nat
  BY VehicleFacts DEF Travels
<1>2. p \in 2..Len(t.path)
  BY <1>1
<1>3. w.user_twv = 0
  <2>1. SameVehicle(t, w)
    BY <1>2, WithOrderAtTravels
  <2>2. QED
    BY <2>1 DEF SameVehicle
<1>4. twvTot(w) <= 0
  <2> HIDE DEF w
  <2>1. twvTot(w) <= w.user_twv
    BY DEF w, is_feasible
  <2>2. QED
    BY <1>3, <2>1
<1>5. <<p, q>> \in HillClimbPositions(t, o)
  <2> HIDE DEF w
  <2>1. w = WithOrderAt(t, o, p, q)
    BY DEF w
  <2>2. QED
    BY <1>2, <1>4, <2>1, OnTimeIsWithinLimits
<1>6. WithOrderAtPair(t, o, <<p, q>>) = w
  BY DEF WithOrderAtPair
<1>7. <<p, q>> \in S
  BY <1>5, <1>6 DEF FeasiblePositions
<1>8. S \in SUBSET HillClimbPositions(t, o) /\ S # {}
  BY <1>7 DEF FeasiblePositions
<1> HIDE DEF S
<1>9. pq \in Cheapest(t, o, S) /\ pq \in S
  BY <1>8, ChosenPair
<1>10. u = WithOrderAtPair(t, o, pq)
  BY <1>8 DEF S, hillClimb, BestOf
<1> HIDE DEF pq
<1>11. ObjectiveAt(t, o, pq) <= ObjectiveAt(t, o, <<p, q>>)
  BY <1>7, <1>9 DEF Cheapest
<1>12. objective(u) <= objective(w)
  BY <1>6, <1>10, <1>11 DEF ObjectiveAt
<1>13. has_order(u, o)
  <2>1. /\ pq[1] \in 2..Len(t.path) /\ pq[2] \in 2..(Len(t.path) + 1)
    BY <1>8, <1>9, PairsInside
  <2>2. u = WithOrderAt(t, o, pq[1], pq[2])
    BY <1>10 DEF WithOrderAtPair
  <2>3. u.orders = t.orders \cup {o}
    BY <2>1, <2>2, WithOrderAtTravels
  <2>4. QED
    BY <2>3 DEF has_order
<1>14. QED
  BY <1>12, <1>13


\* An order that an empty vehicle can serve on its own: the path with it.
LEMMA AloneOnPath ==
  ASSUME NEW v \in Truck, NEW o \in Order, is_order_feasible(v, o),
         NEW t, t = NewTruck(v), NEW u, u = WithOrderAt(t, o, 2, 3)
  PROVE  /\ Travels(u) /\ u.idx = v /\ is_feasible(u) /\ u.user_twv = 0
         /\ Len(u.path) = 4
         /\ u.path[1].node = StartSite(v) /\ u.path[2].node = Pickup(o)
         /\ u.path[3].node = Delivery(o) /\ u.path[4].node = EndSite(v)
<1> DEFINE w == push_back(t, o)
<1>1. /\ Intact(t) /\ t.idx = v /\ t.user_twv = 0 /\ t.path = NewPath(v)
      /\ Len(t.path) = 2 /\ t.path \in Seq(Stop)
      /\ t.path[1].node = StartSite(v) /\ t.path[2].node = EndSite(v)
  BY NewTruckIntact, NewPathIs
<1>2. t \in VehicleType /\ Coherent(t.idx, t.path) /\ Travels(t)
  BY <1>1, IntactTravels DEF Intact
<1>3. Gained(t, o, w) /\ HasOrder(t.path, o, 2, 3, w.path)
  <2> HIDE DEF w
  <2>1. w = push_back(t, o) /\ Len(t.path) >= 1
    BY <1>1 DEF w
  <2>2. Gained(t, o, w) /\ HasOrder(t.path, o, Len(t.path), Len(t.path) + 1, w.path)
    BY <1>2, <2>1, PushBackIs
  <2>3. QED
    BY <1>1, <2>2
<1>4. is_feasible(w)
  BY DEF is_order_feasible
<1> HIDE DEF w
<1>5. 2 \in 1..(Len(t.path) + 1) /\ 3 \in 1..(Len(t.path) + 2)
  BY <1>1
<1>6. Gained(t, o, u) /\ HasOrder(t.path, o, 2, 3, u.path)
  BY <1>2, <1>5, OrderIsAt
<1>7. Travels(u) /\ SameVehicle(t, u)
  <2>1. 2 \in 2..Len(t.path) /\ 3 \in 2..(Len(t.path) + 1)
    BY <1>1
  <2>2. QED
    BY <1>2, <2>1, WithOrderAtTravels
<1>8. u.path = w.path
  <2>1. SameNodes(u.path, w.path) /\ u.path \in Seq(Stop) /\ w.path \in Seq(Stop)
    BY <1>3, <1>6 DEF HasOrder, SameNodes
  <2>2. Coherent(v, u.path) /\ Coherent(v, w.path)
    BY <1>1, <1>3, <1>6 DEF Gained
  <2>3. QED
    BY <2>1, <2>2, CoherentOnce
<1>9. is_feasible(u)
  BY <1>3, <1>4, <1>6, <1>8 DEF Gained, is_feasible, twvTot, cvTot
<1>10. /\ Len(u.path) = 4 /\ \A j \in 1..4 : u.path[j].node = OrderedNode(t.path, o, 2, 3, j)
  BY <1>1, <1>6 DEF HasOrder
<1>11. /\ OrderedNode(t.path, o, 2, 3, 1) = t.path[1].node
       /\ OrderedNode(t.path, o, 2, 3, 2) = Pickup(o)
       /\ OrderedNode(t.path, o, 2, 3, 3) = Delivery(o)
       /\ OrderedNode(t.path, o, 2, 3, 4) = t.path[2].node
  BY DEF OrderedNode
<1>12. QED
  BY <1>1, <1>7, <1>9, <1>10, <1>11 DEF SameVehicle

\* Whichever way an order is placed, an empty vehicle that can serve it on its
\* own takes it, also when a search looks for the place.
LEMMA EmptyVehicleTakes ==
  ASSUME OrdinaryTimes, NEW v \in Truck, NEW o \in Order, is_order_feasible(v, o),
         NEW t, t = NewTruck(v)
  PROVE  has_order(hillClimb(t, o), o) /\ has_order(semiLIFO(t, o), o)
<1> DEFINE w == WithOrderAt(t, o, 2, 3)
<1> HIDE DEF w
<1>1. /\ Travels(w) /\ w.idx = v /\ is_feasible(w) /\ w.user_twv = 0
      /\ Len(w.path) = 4
      /\ w.path[1].node = StartSite(v) /\ w.path[2].node = Pickup(o)
      /\ w.path[3].node = Delivery(o) /\ w.path[4].node = EndSite(v)
  BY AloneOnPath DEF w
<1>2. /\ Intact(t) /\ t.idx = v /\ t.user_twv = 0 /\ t.user_cv = 0 /\ t.orders = {}
      /\ Len(t.path) = 2 /\ t.path \in Seq(Stop)
      /\ t.path[1].node = StartSite(v) /\ t.path[2].node = EndSite(v)
      /\ Nodes(t.path) = {StartSite(v), EndSite(v)}
  BY NewTruckIntact, NewPathIs
<1>3. has_order(hillClimb(t, o), o)
  <2>1. Travels(t)
    BY <1>2, IntactTravels
  <2>2. 2 \in 2..(Len(t.path) + 1) /\ 3 \in 2..(Len(t.path) + 1) /\ 2 < 3
    BY <1>2
  <2>3. is_feasible(WithOrderAt(t, o, 2, 3))
    BY <1>1 DEF w
  <2>4. QED
    BY <1>2, <2>1, <2>2, <2>3, HillClimbLosesNothing
<1> DEFINE picked == Insert(v, t.path, 2, Pickup(o))
           D == Delivery(o)
<1>4. /\ picked \in Seq(Stop) /\ Len(picked) = 3
      /\ picked[1].node = StartSite(v) /\ picked[2].node = Pickup(o)
      /\ picked[3].node = EndSite(v)
  <2> HIDE DEF picked
  <2>1. picked = Insert(v, t.path, 2, Pickup(o))
    BY DEF picked
  <2>2. Coherent(v, t.path) /\ Pickup(o) \in Node /\ 2 \in 1..(Len(t.path) + 1)
    BY <1>2, OrderNodes DEF Intact
  <2>3. HasInserted(t.path, 2, Pickup(o), picked)
    BY <1>2, <2>1, <2>2, InsertIs
  <2>4. QED
    BY <1>2, <2>3 DEF HasInserted, InsertedNode
<1> HIDE DEF picked
<1>5. /\ is_compatible_IJ(StartSite(v), D, SpeedOf(v))
      /\ is_compatible_IJ(Pickup(o), D, SpeedOf(v))
      /\ is_compatible_IJ(D, EndSite(v), SpeedOf(v))
  <2>1. w.path \in Seq(Stop) /\ Coherent(v, w.path) /\ FromStartToEnd(v, w.path)
    BY <1>1, VehicleFacts DEF Travels
  <2>2. w.path[Len(w.path)].twvTot <= 0
    BY <1>1 DEF is_feasible, twvTot, Last
  <2>3. \A a, b \in 1..4 : a < b =>
          is_compatible_IJ(w.path[a].node, w.path[b].node, SpeedOf(v))
    BY <1>1, <2>1, <2>2, StopsAreCompatible
  <2>4. QED
    BY <1>1, <2>3
<1>6. getDropPosLowLimit(v, picked, D) \in Nat /\ getDropPosLowLimit(v, picked, D) <= 3
  <2> DEFINE S == {x \in 1..4 : \A r \in x..3 :
                     /\ is_compatible_IJ(D, picked[r].node, SpeedOf(v))
                     /\ ~IsPickup(picked[r].node)}
  <2>1. S \in SUBSET Nat
    OBVIOUS
  <2>2. 3 \in S
    <3>1. ~IsPickup(EndSite(v))
      BY DEF IsPickup, EndSite
    <3>2. \A r \in 3..3 : r = 3
      OBVIOUS
    <3>3. QED
      BY <1>4, <1>5, <3>1, <3>2
  <2>3. getDropPosLowLimit(v, picked, D) = Min(S)
    BY <1>4 DEF getDropPosLowLimit
  <2> HIDE DEF S
  <2>4. Min(S) \in S /\ \A x \in S : Min(S) <= x
    BY <2>1, <2>2, MinIsMember
  <2>5. QED
    BY <2>1, <2>2, <2>3, <2>4
<1>7. getPosHighLimit(v, picked, D) \in Nat /\ getPosHighLimit(v, picked, D) >= 3
  <2> DEFINE S == {x \in 1..4 :
                     \A r \in 1..(x - 1) : is_compatible_IJ(picked[r].node, D, SpeedOf(v))}
  <2>1. S \in SUBSET Nat /\ \A x \in S : x <= 4
    OBVIOUS
  <2>2. 3 \in S
    <3>1. \A r \in 1..(3 - 1) : r = 1 \/ r = 2
      OBVIOUS
    <3>2. QED
      BY <1>4, <1>5, <3>1
  <2>3. getPosHighLimit(v, picked, D) = Max(S)
    BY <1>4 DEF getPosHighLimit
  <2>4. S # {}
    BY <2>2
  <2> HIDE DEF S
  <2>5. Max(S) \in S /\ \A x \in S : x <= Max(S)
    BY <2>1, <2>4, MaxIsMember
  <2>6. Max(S) \in Nat /\ 3 <= Max(S)
    BY <2>1, <2>2, <2>5
  <2>7. QED
    BY <2>3, <2>6
<1>8. 3 \in Drops(t, o, picked)
  <2>1. 3 \in getDropPosLowLimit(v, picked, D)..getPosHighLimit(v, picked, D)
    BY <1>6, <1>7
  <2>2. ~IsPickup(w.path[3 + 1].node)
    BY <1>1 DEF IsPickup, EndSite
  <2>3. is_feasible(WithOrderAt(t, o, 2, 3)) /\ ~IsPickup(WithOrderAt(t, o, 2, 3).path[3 + 1].node)
    BY <1>1, <2>2 DEF w
  <2>4. QED
    BY <1>2, <2>1, <2>3 DEF Drops
<1>9. has_order(semiLIFO(t, o), o)
  <2>1. Drops(t, o, picked) # {}
    BY <1>8
  <2>2. semiLIFO(t, o) = WithOrderAt(t, o, 2, Max(Drops(t, o, picked)))
    BY <1>2, <2>1 DEF semiLIFO, LatestDrop, picked
  <2>3. \A x : o \in WithOrderAt(t, o, 2, x).orders
    BY DEF WithOrderAt, NewTruck
  <2>4. QED
    BY <2>2, <2>3 DEF has_order
<1>10. QED
  BY <1>3, <1>9


-----------------------------------------------------------------------------

(***************************************************************************)
(* A path with fewer stops, when travel times are ordinary.                *)
(***************************************************************************)

\* What a stop of a coherent path caches.
LEMMA StopFigures ==
  ASSUME NEW v \in Truck, NEW path \in Seq(Stop), Coherent(v, path), NEW p \in 1..Len(path),
         NEW s, s = path[p], NEW n, n = s.node
  PROVE  /\ s.arrival \in Nat /\ s.departure \in Nat /\ s.twvTot \in Nat /\ s.cvTot \in Nat
         /\ s.cargo \in Int /\ n \in Node
         /\ s.departure = (IF s.arrival < Tw_node[n].opens THEN Tw_node[n].opens ELSE s.arrival)
                            + Tw_node[n].service_time
         /\ p = 1 => s = EvaluateStart(v, n) /\ s.cargo = Tw_node[n].demand
         /\ p > 1 => /\ s.cargo = path[p - 1].cargo + Tw_node[n].demand
                     /\ s.twvTot = path[p - 1].twvTot + Count(is_late_arrival(n, s.arrival))
                     /\ s.cvTot = path[p - 1].cvTot + Count(has_cv(v, n, s.cargo))
<1>1. /\ s.arrival \in Nat /\ s.departure \in Nat /\ s.twvTot \in Nat /\ s.cvTot \in Nat
      /\ s.cargo \in Int /\ n \in Node
  <2>1. s \in Stop
    OBVIOUS
  <2>2. QED
    BY <2>1 DEF Stop
<1>2. Tw_node[n].opens \in Nat /\ Tw_node[n].service_time \in Nat
  BY <1>1, NodeData
<1>3. s = StopAt(v, path, 1, path, p)
  BY DEF Coherent, Right
<1>4. CASE p = 1
  <2>1. s = EvaluateStart(v, n)
    BY <1>3, <1>4 DEF StopAt
  <2>2. /\ s.arrival = Tw_node[n].opens /\ s.cargo = Tw_node[n].demand
        /\ s.departure = Tw_node[n].opens + Tw_node[n].service_time
    BY <2>1 DEF EvaluateStart
  <2>3. QED
    BY <1>1, <1>2, <1>4, <2>1, <2>2
<1>5. CASE p > 1
  <2> DEFINE wait == IF is_early_arrival(n, s.arrival) THEN Tw_node[n].opens - s.arrival ELSE 0
             late == Count(is_late_arrival(n, s.arrival))
             over == Count(has_cv(v, n, s.cargo))
  <2>1. s = EvaluateAfter(v, path[p - 1], n)
    BY <1>3, <1>5 DEF StopAt
  <2>2. /\ s.departure = s.arrival + wait + Tw_node[n].service_time
        /\ s.cargo = path[p - 1].cargo + Tw_node[n].demand
        /\ s.twvTot = path[p - 1].twvTot + late
        /\ s.cvTot = path[p - 1].cvTot + over
    BY <2>1 DEF EvaluateAfter, StopAfter
  <2>3. wait = IF s.arrival < Tw_node[n].opens THEN Tw_node[n].opens - s.arrival ELSE 0
    BY DEF is_early_arrival
  <2> HIDE DEF wait
  <2>4. s.departure = (IF s.arrival < Tw_node[n].opens THEN Tw_node[n].opens ELSE s.arrival)
                        + Tw_node[n].service_time
    BY <1>1, <1>2, <2>2, <2>3, SMTT(60)
  <2> HIDE DEF late, over
  <2>5. QED
    BY <1>1, <1>5, <2>2, <2>4 DEF late, over
<1>6. QED
  BY <1>4, <1>5

\* The path e visits some stops of the path, in their order: its position r is
\* the position f[r] of the path.
Sparser(path, e, f) ==
  /\ f \in [1..Len(e) -> 1..Len(path)]
  /\ \A r \in 1..Len(e) : e[r].node = path[f[r]].node /\ (r = 1 <=> f[r] = 1)
  /\ \A r \in 2..Len(e) : f[r - 1] < f[r]

\* A vehicle that leaves out stops is at none of the others later.
NotLater(a, b) ==
  a.arrival <= b.arrival /\ a.departure <= b.departure /\ a.twvTot <= b.twvTot

\* From one stop of the sparser path to the next one.
LEMMA NextNotLater ==
  ASSUME OrdinaryTimes, NEW v \in Truck,
         NEW path \in Seq(Stop), Coherent(v, path), NEW e \in Seq(Stop), Coherent(v, e),
         NEW r \in 2..Len(e), NEW h \in 1..Len(path), NEW g \in 1..Len(path), h < g,
         e[r - 1].node = path[h].node, e[r].node = path[g].node, NotLater(e[r - 1], path[h])
  PROVE  NotLater(e[r], path[g])
<1> DEFINE a == path[h].node
           b == path[g].node
           T(t) == TravelTime(a, b, t, SpeedOf(v))
           s == e[r]
           x == path[g]
           before == e[r - 1]
           left == path[h]
           last == path[g - 1]
<1>1. /\ Len(e) \in Nat /\ Len(path) \in Nat /\ r \in 1..Len(e) /\ r - 1 \in 1..Len(e) /\ r > 1
      /\ g > 1 /\ g - 1 \in 1..Len(path) /\ g \in (h + 1)..Len(path) /\ g - 1 \in h..Len(path)
  OBVIOUS
<1>2. /\ s.arrival \in Nat /\ s.departure \in Nat /\ s.twvTot \in Nat
      /\ s.departure = (IF s.arrival < Tw_node[b].opens THEN Tw_node[b].opens ELSE s.arrival)
                         + Tw_node[b].service_time
      /\ s.twvTot = before.twvTot + Count(is_late_arrival(b, s.arrival))
  BY <1>1, StopFigures, SMTT(60)
<1>3. /\ x.arrival \in Nat /\ x.departure \in Nat /\ x.twvTot \in Nat
      /\ x.departure = (IF x.arrival < Tw_node[b].opens THEN Tw_node[b].opens ELSE x.arrival)
                         + Tw_node[b].service_time
      /\ x.twvTot = last.twvTot + Count(is_late_arrival(b, x.arrival))
  BY <1>1, StopFigures, SMTT(60)
<1>4. before.departure \in Nat /\ before.twvTot \in Nat
  BY <1>1, StopFigures
<1>5. left.departure \in Nat /\ left.twvTot \in Nat /\ a \in Node
  BY StopFigures
<1>6. last.twvTot \in Nat /\ left.twvTot <= last.twvTot
  BY <1>1, StopFigures, ViolationsGrow
<1>7. b \in Node /\ Tw_node[b].opens \in Nat /\ Tw_node[b].closes \in Nat
      /\ Tw_node[b].service_time \in Nat
  BY StopFigures, NodeData
<1>8. s.arrival <= x.arrival
  <2>1. s.arrival = before.departure + T(before.departure)
    BY <1>1, StopTimes, SMTT(60)
  <2>2. x.arrival >= left.departure + T(left.departure)
    BY <1>1, StraightIsFirst
  <2>3. before.departure + T(before.departure) <= left.departure + T(left.departure)
    <3>1. before.departure <= left.departure
      BY DEF NotLater
    <3>2. \A t, u \in Nat : t <= u => t + T(t) <= u + T(u)
      <4> HIDE DEF a, b
      <4>1. QED
        BY <1>5, <1>7 DEF OrdinaryTimes
    <3> HIDE DEF T
    <3>3. QED
      BY <1>4, <1>5, <3>1, <3>2
  <2>4. T(left.departure) \in Nat /\ T(before.departure) \in Nat
    BY <1>4, <1>5, <1>7, TripIsNatural
  <2> HIDE DEF T, s, x, before, left
  <2>5. \A k, l, m, n, y, z \in Nat :
          k = m + y /\ l >= n + z /\ m + y <= n + z => k <= l
    OBVIOUS
  <2>6. QED
    BY <1>2, <1>3, <1>4, <1>5, <2>1, <2>2, <2>3, <2>4, <2>5, ZenonT(60)
<1>9. Count(is_late_arrival(b, s.arrival)) <= Count(is_late_arrival(b, x.arrival))
  <2>1. is_late_arrival(b, s.arrival) => is_late_arrival(b, x.arrival)
    <3> HIDE DEF a, b, s, x, before, left, last
    <3>1. QED
      BY <1>2, <1>3, <1>7, <1>8, SMTT(60) DEF is_late_arrival
  <2>2. QED
    BY <2>1 DEF Count
<1>10. s.departure <= x.departure
  <2> DEFINE opens == Tw_node[b].opens
             service == Tw_node[b].service_time
             Left(t) == (IF t < opens THEN opens ELSE t) + service
  <2>1. s.departure = Left(s.arrival) /\ x.departure = Left(x.arrival)
    BY <1>2, <1>3
  <2>2. \A t, u \in Nat : t <= u => Left(t) <= Left(u)
    <3>1. opens \in Nat /\ service \in Nat
      BY <1>7
    <3> HIDE DEF opens, service
    <3>2. QED
      BY <3>1
  <2> HIDE DEF Left, s, x
  <2>3. QED
    BY <1>2, <1>3, <1>8, <2>1, <2>2
<1>11. s.twvTot <= x.twvTot
  <2> DEFINE c == Count(is_late_arrival(b, s.arrival))
             d == Count(is_late_arrival(b, x.arrival))
  <2>1. c \in Nat /\ d \in Nat
    BY DEF Count
  <2>2. before.twvTot <= left.twvTot
    BY DEF NotLater
  <2>3. c <= d /\ s.twvTot = before.twvTot + c /\ x.twvTot = last.twvTot + d
    BY <1>2, <1>3, <1>9
  <2> HIDE DEF c, d, s, x, before, left, last
  <2>4. QED
    BY <1>4, <1>5, <1>6, <2>1, <2>2, <2>3, SMTT(60)
<1>12. QED
  BY <1>8, <1>10, <1>11 DEF NotLater

\* So it is at all of them.
LEMMA SparserIsEarlier ==
  ASSUME OrdinaryTimes, NEW v \in Truck,
         NEW path \in Seq(Stop), Coherent(v, path), NEW e \in Seq(Stop), Coherent(v, e),
         NEW f, Sparser(path, e, f)
  PROVE  \A r \in 1..Len(e) : NotLater(e[r], path[f[r]])
<1> DEFINE n == Len(e)
           Good == {k \in 0..n : k > 0 => NotLater(e[k], path[f[k]])}
<1>1. n \in Nat
  OBVIOUS
<1>2. 0 \in Good
  BY <1>1
<1>3. ASSUME NEW k \in 1..n, k - 1 \in Good
      PROVE  k \in Good
  <2>1. e[k].node = path[f[k]].node /\ f[k] \in 1..Len(path) /\ (k = 1 <=> f[k] = 1)
    BY DEF Sparser
  <2>2. CASE k = 1
    <3>1. f[1] = 1 /\ 1 \in 1..Len(path) /\ 1 \in 1..Len(e)
      BY <1>1, <2>1, <2>2
    <3>2. e[1] = EvaluateStart(v, e[1].node) /\ path[1] = EvaluateStart(v, path[1].node)
      BY <3>1, StopFigures
    <3>3. e[1] = path[1]
      BY <2>1, <2>2, <3>1, <3>2
    <3>4. e[1].arrival \in Nat /\ e[1].departure \in Nat /\ e[1].twvTot \in Nat
      BY <3>1, StopFigures
    <3>5. NotLater(e[k], path[f[k]])
      BY <2>2, <3>1, <3>3, <3>4 DEF NotLater
    <3>6. QED
      BY <1>1, <3>5
  <2>3. CASE k > 1
    <3>1. k \in 2..Len(e) /\ k - 1 \in 1..Len(e) /\ k - 1 > 0
      BY <1>1, <2>3
    <3>2. /\ f[k - 1] < f[k] /\ f[k - 1] \in 1..Len(path)
          /\ e[k - 1].node = path[f[k - 1]].node
      BY <3>1 DEF Sparser
    <3>3. NotLater(e[k - 1], path[f[k - 1]])
      BY <1>3, <3>1
    <3>4. NotLater(e[k], path[f[k]])
      BY <2>1, <3>1, <3>2, <3>3, NextNotLater
    <3>5. QED
      BY <1>1, <3>4
  <2>4. QED
    BY <1>1, <2>2, <2>3
<1>4. \A k \in 0..n : k \in Good
  <2> HIDE DEF Good, n
  <2>1. QED
    BY <1>1, <1>2, <1>3, Upward
<1>5. ASSUME NEW r \in 1..n
      PROVE  NotLater(e[r], path[f[r]])
  <2>1. r \in 0..n /\ r > 0
    BY <1>1
  <2>2. r \in Good
    BY <1>4, <2>1
  <2>3. QED
    BY <2>1, <2>2
<1>6. QED
  BY <1>5


\* Where it is nowhere overloaded unless it was, it violates the capacity at
\* most as often.
LEMMA SparserFits ==
  ASSUME NEW v \in Truck,
         NEW path \in Seq(Stop), Coherent(v, path), NEW e \in Seq(Stop), Coherent(v, e),
         NEW f, Sparser(path, e, f),
         \A r \in 1..Len(e) : has_cv(v, e[r].node, e[r].cargo)
                                => has_cv(v, path[f[r]].node, path[f[r]].cargo)
  PROVE  \A r \in 1..Len(e) : e[r].cvTot <= path[f[r]].cvTot
<1> DEFINE n == Len(e)
           Good == {k \in 0..n : k > 0 => e[k].cvTot <= path[f[k]].cvTot}
<1>1. n \in Nat /\ Len(path) \in Nat
  OBVIOUS
<1>2. 0 \in Good
  BY <1>1
<1>3. ASSUME NEW k \in 1..n, k - 1 \in Good
      PROVE  k \in Good
  <2> DEFINE g == f[k]
             over == Count(has_cv(v, e[k].node, e[k].cargo))
             more == Count(has_cv(v, path[g].node, path[g].cargo))
  <2>1. e[k].node = path[g].node /\ g \in 1..Len(path) /\ (k = 1 <=> g = 1)
    BY DEF Sparser
  <2>2. e[k].cvTot \in Nat /\ path[g].cvTot \in Nat
    BY <2>1, StopFigures
  <2>3. CASE k = 1
    <3>1. e[k] = EvaluateStart(v, e[k].node) /\ path[g] = EvaluateStart(v, path[g].node)
      BY <2>1, <2>3, StopFigures
    <3>2. e[k] = path[g]
      BY <2>1, <3>1
    <3>3. QED
      BY <1>1, <2>2, <3>2
  <2>4. CASE k > 1
    <3> DEFINE h == f[k - 1]
    <3>1. k \in 2..n /\ k - 1 \in 1..n /\ k - 1 > 0
      BY <1>1, <2>4
    <3>2. h < g /\ h \in 1..Len(path)
      BY <3>1 DEF Sparser
    <3>3. g - 1 \in h..Len(path) /\ g > 1 /\ g - 1 \in 1..Len(path)
      BY <1>1, <2>1, <3>2
    <3>4. e[k - 1].cvTot <= path[h].cvTot
      BY <1>3, <3>1
    <3>5. path[h].cvTot <= path[g - 1].cvTot
      BY <3>2, <3>3, ViolationsGrow
    <3>6. e[k].cvTot = e[k - 1].cvTot + over
      BY <3>1, StopFigures, SMTT(60)
    <3>7. path[g].cvTot = path[g - 1].cvTot + more
      BY <2>1, <3>3, StopFigures, SMTT(60)
    <3>8. over \in Nat /\ more \in Nat /\ over <= more
      BY DEF Count
    <3>9. e[k - 1].cvTot \in Nat /\ path[h].cvTot \in Nat /\ path[g - 1].cvTot \in Nat
      BY <3>1, <3>2, <3>3, StopFigures
    <3> HIDE DEF over, more, g, h
    <3>10. e[k].cvTot <= path[g].cvTot
      BY <3>4, <3>5, <3>6, <3>7, <3>8, <3>9, SMTT(60)
    <3>11. QED
      BY <1>1, <3>10 DEF g
  <2>5. QED
    BY <1>1, <2>3, <2>4
<1>4. \A k \in 0..n : k \in Good
  <2> HIDE DEF Good, n
  <2>1. QED
    BY <1>1, <1>2, <1>3, Upward
<1>5. ASSUME NEW r \in 1..n
      PROVE  e[r].cvTot <= path[f[r]].cvTot
  <2>1. r \in 0..n /\ r > 0
    BY <1>1
  <2>2. r \in Good
    BY <1>4, <2>1
  <2>3. QED
    BY <2>1, <2>2
<1>6. QED
  BY <1>5

\* A node more on the path: what it loads is on board from there on.
LEMMA InsertedLoads ==
  ASSUME NEW v \in Truck,
         NEW path \in Seq(Stop), Coherent(v, path), NEW e \in Seq(Stop), Coherent(v, e),
         NEW pos \in 2..(Len(path) + 1), NEW n, HasInserted(path, pos, n, e),
         NEW d, d = Tw_node[n].demand
  PROVE  /\ e[pos].cargo = path[pos - 1].cargo + d
         /\ \A r \in 1..Len(path) : /\ r < pos => e[r].cargo = path[r].cargo
                                    /\ r >= pos => e[r + 1].cargo = path[r].cargo + d
<1> DEFINE m == Len(path)
           Loads(k) == /\ k < pos => e[k].cargo = path[k].cargo
                       /\ k >= pos => e[k + 1].cargo = path[k].cargo + d
           Good == {k \in 0..m : k > 0 => Loads(k)}
           demand(k) == Tw_node[path[k].node].demand
<1>1. /\ m \in Nat /\ Len(e) = m + 1 /\ pos \in Nat /\ pos >= 2 /\ pos <= m + 1
      /\ \A j \in 1..(m + 1) : e[j].node = InsertedNode(path, pos, n, j)
  BY DEF HasInserted
<1>2. \A k \in 1..m : path[k].cargo \in Int /\ path[k].node \in Node
  BY StopFigures
<1>3. \A k \in 1..m : k > 1 => path[k].cargo = path[k - 1].cargo + demand(k)
  BY StopFigures, SMTT(60)
<1>4. \A k \in 1..(m + 1) : e[k].cargo \in Int /\ e[k].node \in Node
  BY <1>1, StopFigures
<1>5. \A k \in 1..(m + 1) : k > 1 => e[k].cargo = e[k - 1].cargo + Tw_node[e[k].node].demand
  <2>1. \A k \in 1..Len(e) : k > 1 => e[k].cargo = e[k - 1].cargo + Tw_node[e[k].node].demand
    BY StopFigures
  <2>2. QED
    BY <1>1, <2>1
<1>6. \A k \in 1..m : demand(k) \in Int
  BY <1>2, NodeData
<1>7. e[pos].node = n /\ d \in Int /\ pos \in 1..(m + 1) /\ pos > 1
  <2>1. pos \in 1..(m + 1) /\ pos > 1
    BY <1>1
  <2>2. e[pos].node = n
    BY <1>1, <2>1 DEF InsertedNode
  <2>3. QED
    BY <1>4, <2>1, <2>2, NodeData
<1>8. e[pos].cargo = e[pos - 1].cargo + d
  BY <1>5, <1>7
<1>9. 0 \in Good
  BY <1>1
<1>10. ASSUME NEW k \in 1..m, k - 1 \in Good
       PROVE  k \in Good
  <2>1. k \in 1..(m + 1) /\ k + 1 \in 1..(m + 1) /\ k + 1 > 1
    BY <1>1
  <2>2. ASSUME k < pos
        PROVE  e[k].cargo = path[k].cargo
    <3>1. e[k].node = path[k].node
      BY <1>1, <2>1, <2>2 DEF InsertedNode
    <3>2. CASE k = 1
      <4>1. e[1].cargo = Tw_node[e[1].node].demand /\ path[1].cargo = Tw_node[path[1].node].demand
        <5>1. 1 \in 1..Len(e) /\ 1 \in 1..Len(path)
          BY <1>1, <1>10, <3>2
        <5>2. e[1].cargo = Tw_node[e[1].node].demand
          BY <5>1, StopFigures
        <5>3. \A j \in 1..Len(path) : j = 1 => path[j].cargo = Tw_node[path[j].node].demand
          BY StopFigures
        <5>4. QED
          BY <5>1, <5>2, <5>3
      <4>2. QED
        BY <3>1, <3>2, <4>1
    <3>3. CASE k > 1
      <4>1. k - 1 > 0 /\ k - 1 < pos
        BY <1>1, <2>2, <3>3
      <4>2. e[k - 1].cargo = path[k - 1].cargo
        BY <1>10, <4>1
      <4>3. e[k].cargo = e[k - 1].cargo + demand(k)
        BY <1>5, <2>1, <3>1, <3>3
      <4>4. QED
        BY <1>3, <3>3, <4>2, <4>3
    <3>4. QED
      BY <1>1, <3>2, <3>3
  <2>3. ASSUME k >= pos
        PROVE  e[k + 1].cargo = path[k].cargo + d
    <3>1. k > 1 /\ k - 1 > 0 /\ k - 1 \in 1..m
      BY <1>1, <2>3
    <3>2. e[k + 1].node = path[k].node
      <4>1. ~(k + 1 < pos) /\ k + 1 # pos /\ (k + 1) - 1 = k
        BY <1>1, <2>3
      <4>2. InsertedNode(path, pos, n, k + 1) = path[k].node
        BY <4>1 DEF InsertedNode
      <4>3. QED
        BY <1>1, <2>1, <4>2
    <3>3. e[k + 1].cargo = e[k].cargo + demand(k)
      <4>1. (k + 1) - 1 = k
        OBVIOUS
      <4>2. QED
        BY <1>5, <2>1, <3>2, <4>1
    <3>4. e[k].cargo = path[k - 1].cargo + d
      <4>1. CASE k = pos
        <5>1. k - 1 < pos
          BY <1>1, <4>1
        <5>2. e[k - 1].cargo = path[k - 1].cargo
          BY <1>10, <3>1, <5>1
        <5>3. QED
          BY <1>8, <4>1, <5>2
      <4>2. CASE k > pos
        <5>1. k - 1 >= pos /\ (k - 1) + 1 = k
          BY <1>1, <4>2
        <5>2. QED
          BY <1>10, <3>1, <5>1
      <4>3. QED
        BY <1>1, <2>3, <4>1, <4>2
    <3>5. path[k].cargo = path[k - 1].cargo + demand(k)
      BY <1>3, <3>1
    <3>6. path[k - 1].cargo \in Int /\ demand(k) \in Int
      BY <1>2, <1>6, <3>1
    <3> HIDE DEF demand
    <3>7. QED
      BY <1>7, <3>3, <3>4, <3>5, <3>6, SMTT(60)
  <2>4. QED
    BY <1>1, <2>2, <2>3
<1>11. \A k \in 0..m : k \in Good
  <2> HIDE DEF Good, m
  <2>1. QED
    BY <1>1, <1>9, <1>10, Upward
<1>12. ASSUME NEW r \in 1..m
       PROVE  /\ r < pos => e[r].cargo = path[r].cargo
              /\ r >= pos => e[r + 1].cargo = path[r].cargo + d
  <2>1. r \in 0..m /\ r > 0
    BY <1>1
  <2>2. r \in Good
    BY <1>11, <2>1
  <2>3. QED
    BY <2>1, <2>2
<1>13. e[pos].cargo = path[pos - 1].cargo + d
  <2>1. pos - 1 \in 1..m /\ pos - 1 < pos
    BY <1>1
  <2>2. e[pos - 1].cargo = path[pos - 1].cargo
    BY <1>12, <2>1
  <2>3. QED
    BY <1>8, <2>2
<1>14. QED
  BY <1>12, <1>13

\* Where position r of a path was before two stops were erased, at p and then
\* at q.
KeptAt(p, q, r) == IF r < p THEN r ELSE IF r < q THEN r + 1 ELSE r + 2

\* The path e is the path without an order whose demand is d: it carries what
\* the path carries, but for the order, from its start to its end.
LessLoaded(path, e, d, f) ==
  /\ Sparser(path, e, f)
  /\ f[Len(e)] = Len(path) /\ path[Len(path)].cargo = e[Len(e)].cargo
  /\ \A r \in 1..Len(e) : path[f[r]].cargo \in {e[r].cargo, e[r].cargo + d}
  /\ \A k \in 1..Len(path) : \E r \in 1..Len(e) :
       path[k].cargo \in {e[r].cargo, e[r].cargo + d}

\* Where the stop at position r was before, and what it carried.
MovedStop(path, e, p, q, d, r) ==
  /\ r < p => path[r].cargo = e[r].cargo /\ path[r].node = e[r].node
  /\ r >= p /\ r < q => path[r + 1].cargo = e[r].cargo + d /\ path[r + 1].node = e[r].node
  /\ r >= q => path[r + 2].cargo = e[r].cargo /\ path[r + 2].node = e[r].node

\* What a path carries without its order.
LEMMA ErasedLoads ==
  ASSUME NEW v \in Truck, NEW o \in Order,
         NEW path \in Seq(Stop), Coherent(v, path), NEW mid \in Seq(Stop), Coherent(v, mid),
         NEW e \in Seq(Stop), Coherent(v, e),
         NEW p \in 2..(Len(path) - 1), path[p].node = Pickup(o), HasErased(path, p, mid),
         NEW q \in p..(Len(mid) - 1), mid[q].node = Delivery(o), HasErased(mid, q, e)
  PROVE  /\ Len(path) = Len(e) + 2 /\ Len(e) \in Nat /\ p \in Nat /\ q \in Nat
         /\ Tw_node[Pickup(o)].demand \in Int /\ p >= 2 /\ q <= Len(e)
         /\ path[p].cargo = e[p - 1].cargo + Tw_node[Pickup(o)].demand
         /\ path[q + 1].cargo = e[q - 1].cargo
         /\ \A r \in 1..Len(e) : MovedStop(path, e, p, q, Tw_node[Pickup(o)].demand, r)
<1> DEFINE d == Tw_node[Pickup(o)].demand
<1>1. /\ Len(path) \in Nat /\ Len(mid) = Len(path) - 1 /\ Len(e) = Len(mid) - 1
      /\ \A j \in 1..Len(mid) : mid[j].node = IF j < p THEN path[j].node ELSE path[j + 1].node
      /\ \A j \in 1..Len(e) : e[j].node = IF j < q THEN mid[j].node ELSE mid[j + 1].node
  <2>1. /\ Len(mid) = Len(path) - 1
        /\ \A j \in 1..Len(mid) : mid[j].node = IF j < p THEN path[j].node ELSE path[j + 1].node
    BY DEF HasErased
  <2>2. /\ Len(e) = Len(mid) - 1
        /\ \A j \in 1..Len(e) : e[j].node = IF j < q THEN mid[j].node ELSE mid[j + 1].node
    BY DEF HasErased
  <2>3. QED
    BY <2>1, <2>2
<1>2. /\ Len(e) \in Nat /\ Len(mid) = Len(e) + 1 /\ Len(path) = Len(e) + 2
      /\ p \in Nat /\ q \in Nat /\ p >= 2 /\ p <= q /\ q <= Len(e)
      /\ p \in 1..Len(path) /\ q \in 1..Len(mid) /\ p \in 2..(Len(mid) + 1)
      /\ q \in 2..(Len(e) + 1)
  BY <1>1
<1>3. d \in Int /\ Tw_node[Delivery(o)].demand = -d
  <2>1. Tw_node[Delivery(o)] = DeliveryNode(OrderRow[o])
    BY OrderNodes DEF Tw_node, Delivery
  <2>2. Tw_node[Pickup(o)] = PickupNode(OrderRow[o])
    BY OrderNodes DEF Tw_node, Pickup
  <2>3. Tw_node[Delivery(o)].demand = -OrderRow[o].demand /\ d = OrderRow[o].demand
    BY <2>1, <2>2 DEF DeliveryNode, PickupNode, TwNode
  <2>4. d \in Int
    BY OrderNodes, NodeData
  <2>5. QED
    BY <2>3, <2>4
<1>4. \A r \in 1..Len(e) : e[r].cargo \in Int
  BY StopFigures
<1>5. \A r \in 1..Len(mid) : mid[r].cargo \in Int
  BY StopFigures
<1> DEFINE c == -d
<1>6. /\ mid[q].cargo = e[q - 1].cargo + c
      /\ \A r \in 1..Len(e) : /\ r < q => mid[r].cargo = e[r].cargo
                              /\ r >= q => mid[r + 1].cargo = e[r].cargo + c
  <2>1. HasInserted(e, q, Delivery(o), mid)
    BY <1>2, ErasedIsInserted
  <2>2. c = Tw_node[Delivery(o)].demand
    BY <1>3
  <2>3. q \in 2..(Len(e) + 1)
    BY <1>2
  <2> HIDE DEF c
  <2>4. mid[q].cargo = e[q - 1].cargo + c
    BY <2>1, <2>2, <2>3, InsertedLoads
  <2>5. \A r \in 1..Len(e) : /\ r < q => mid[r].cargo = e[r].cargo
                             /\ r >= q => mid[r + 1].cargo = e[r].cargo + c
    BY <2>1, <2>2, <2>3, InsertedLoads, SMTT(60)
  <2>6. QED
    BY <2>4, <2>5
<1>7. /\ path[p].cargo = mid[p - 1].cargo + d
      /\ \A r \in 1..Len(mid) : /\ r < p => path[r].cargo = mid[r].cargo
                                /\ r >= p => path[r + 1].cargo = mid[r].cargo + d
  <2>1. HasInserted(mid, p, Pickup(o), path)
    BY <1>2, ErasedIsInserted
  <2>2. p \in 2..(Len(mid) + 1)
    BY <1>2
  <2>3. path[p].cargo = mid[p - 1].cargo + d
    BY <2>1, <2>2, InsertedLoads
  <2>4. \A r \in 1..Len(mid) : /\ r < p => path[r].cargo = mid[r].cargo
                               /\ r >= p => path[r + 1].cargo = mid[r].cargo + d
    BY <2>1, <2>2, InsertedLoads, SMTT(60)
  <2>5. QED
    BY <2>3, <2>4
<1>8. \A x \in Int : (x + c) + d = x
  BY <1>3
<1> HIDE DEF c
<1>9. path[p].cargo = e[p - 1].cargo + d
  <2>1. p - 1 \in 1..Len(e) /\ p - 1 < q
    BY <1>2
  <2>2. QED
    BY <1>6, <1>7, <2>1
<1>10. path[q + 1].cargo = e[q - 1].cargo
  <2>1. q \in 1..Len(mid) /\ q >= p /\ q - 1 \in 1..Len(e)
    BY <1>2
  <2>2. path[q + 1].cargo = (e[q - 1].cargo + c) + d
    BY <1>6, <1>7, <2>1
  <2>3. QED
    BY <1>4, <1>8, <2>1, <2>2
<1>11. ASSUME NEW r \in 1..Len(e)
       PROVE  MovedStop(path, e, p, q, d, r)
  <2>1. r \in 1..Len(mid) /\ r + 1 \in 1..Len(mid) /\ (r + 1) + 1 = r + 2
    BY <1>2
  <2>2. CASE r < p
    <3>1. r < q /\ ~(r >= p) /\ ~(r >= q)
      BY <1>2, <2>2
    <3>2. e[r].node = mid[r].node /\ mid[r].node = path[r].node
      BY <1>1, <2>1, <2>2, <3>1
    <3>3. path[r].cargo = mid[r].cargo /\ mid[r].cargo = e[r].cargo
      BY <1>6, <1>7, <2>1, <2>2, <3>1
    <3>4. QED
      BY <3>1, <3>2, <3>3 DEF MovedStop
  <2>3. CASE r >= p /\ r < q
    <3>1. ~(r < p) /\ ~(r >= q)
      BY <1>2, <2>3
    <3>2. e[r].node = mid[r].node /\ mid[r].node = path[r + 1].node
      BY <1>1, <2>1, <2>3, <3>1
    <3>3. path[r + 1].cargo = mid[r].cargo + d /\ mid[r].cargo = e[r].cargo
      BY <1>6, <1>7, <2>1, <2>3
    <3>4. QED
      BY <3>1, <3>2, <3>3 DEF MovedStop
  <2>4. CASE r >= q
    <3>1. ~(r < p) /\ ~(r < q) /\ ~(r + 1 < p) /\ r + 1 >= p
      BY <1>2, <2>4
    <3>2. e[r].node = mid[r + 1].node /\ mid[r + 1].node = path[r + 2].node
      BY <1>1, <2>1, <3>1
    <3>3. path[r + 2].cargo = (e[r].cargo + c) + d
      BY <1>6, <1>7, <2>1, <2>4, <3>1
    <3>4. path[r + 2].cargo = e[r].cargo
      BY <1>4, <1>8, <3>3
    <3>5. QED
      BY <3>1, <3>2, <3>4 DEF MovedStop
  <2>5. QED
    BY <1>2, <2>2, <2>3, <2>4
<1>12. QED
  BY <1>2, <1>3, <1>9, <1>10, <1>11

\* Its positions are those that are kept.
LEMMA ErasedIsSparser ==
  ASSUME NEW v \in Truck, NEW o \in Order,
         NEW path \in Seq(Stop), Coherent(v, path), NEW mid \in Seq(Stop), Coherent(v, mid),
         NEW e \in Seq(Stop), Coherent(v, e),
         NEW p \in 2..(Len(path) - 1), path[p].node = Pickup(o), HasErased(path, p, mid),
         NEW q \in p..(Len(mid) - 1), mid[q].node = Delivery(o), HasErased(mid, q, e)
  PROVE  \E f : LessLoaded(path, e, Tw_node[Pickup(o)].demand, f)
<1> DEFINE d == Tw_node[Pickup(o)].demand
           n == Len(e)
           f == [r \in 1..n |-> KeptAt(p, q, r)]
<1>1. /\ Len(path) = n + 2 /\ n \in Nat /\ p \in Nat /\ q \in Nat /\ d \in Int
      /\ p >= 2 /\ p <= q /\ q <= n
      /\ path[p].cargo = e[p - 1].cargo + d
      /\ path[q + 1].cargo = e[q - 1].cargo
  BY ErasedLoads
<1>2. \A r \in 1..n : MovedStop(path, e, p, q, d, r)
  BY ErasedLoads
<1> HIDE DEF d, n
<1>3. \A r \in 1..n : f[r] = KeptAt(p, q, r)
  OBVIOUS
<1>4. f \in [1..n -> 1..Len(path)]
  <2>1. \A r \in 1..n : KeptAt(p, q, r) \in 1..Len(path)
    BY <1>1 DEF KeptAt
  <2>2. QED
    BY <2>1
<1> HIDE DEF f
<1>5. \A r \in 1..n : /\ e[r].node = path[f[r]].node
                      /\ path[f[r]].cargo \in {e[r].cargo, e[r].cargo + d}
  <2>1. TAKE r \in 1..n
  <2>2. CASE r < p
    <3>1. f[r] = r
      BY <1>3, <2>2 DEF KeptAt
    <3>2. QED
      BY <1>2, <2>2, <3>1 DEF MovedStop
  <2>3. CASE r >= p /\ r < q
    <3>1. f[r] = r + 1
      BY <1>1, <1>3, <2>3 DEF KeptAt
    <3>2. QED
      BY <1>2, <2>3, <3>1 DEF MovedStop
  <2>4. CASE r >= q
    <3>1. f[r] = r + 2
      BY <1>1, <1>3, <2>4 DEF KeptAt
    <3>2. QED
      BY <1>2, <2>4, <3>1 DEF MovedStop
  <2>5. QED
    BY <1>1, <2>2, <2>3, <2>4
<1>6. \A r \in 1..n : r = 1 <=> f[r] = 1
  BY <1>1, <1>3, SMTT(60) DEF KeptAt
<1>7. \A r \in 2..n : f[r - 1] < f[r]
  <2>1. TAKE r \in 2..n
  <2>2. r - 1 \in 1..n /\ r \in 1..n
    BY <1>1
  <2>3. f[r - 1] = KeptAt(p, q, r - 1) /\ f[r] = KeptAt(p, q, r)
    BY <1>3, <2>2
  <2>4. KeptAt(p, q, r - 1) < KeptAt(p, q, r)
    BY <1>1, <2>2 DEF KeptAt
  <2>5. QED
    BY <2>3, <2>4
<1>8. f[n] = Len(path) /\ path[Len(path)].cargo = e[n].cargo
  <2>1. n \in 1..n /\ n >= q /\ ~(n < p) /\ ~(n < q)
    BY <1>1, SMTT(60)
  <2>2. f[n] = n + 2
    BY <1>3, <2>1 DEF KeptAt
  <2>3. QED
    BY <1>1, <1>2, <2>1, <2>2 DEF MovedStop
<1>9. \A k \in 1..Len(path) : \E r \in 1..n : path[k].cargo \in {e[r].cargo, e[r].cargo + d}
  <2>1. TAKE k \in 1..Len(path)
  <2>2. CASE k < p
    <3>1. k \in 1..n
      BY <1>1, <2>2
    <3>2. QED
      BY <1>2, <2>2, <3>1 DEF MovedStop
  <2>3. CASE k = p
    <3>1. p - 1 \in 1..n
      BY <1>1
    <3>2. QED
      BY <1>1, <2>3, <3>1
  <2>4. CASE k > p /\ k <= q
    <3>1. k - 1 \in 1..n /\ k - 1 >= p /\ k - 1 < q /\ (k - 1) + 1 = k
      BY <1>1, <2>4
    <3>2. path[k].cargo = e[k - 1].cargo + d
      BY <1>2, <3>1 DEF MovedStop
    <3>3. QED
      BY <3>1, <3>2
  <2>5. CASE k = q + 1
    <3>1. q - 1 \in 1..n
      BY <1>1, SMTT(60)
    <3>2. QED
      BY <1>1, <2>5, <3>1
  <2>6. CASE k > q + 1
    <3>1. k - 2 \in 1..n /\ k - 2 >= q /\ (k - 2) + 2 = k
      BY <1>1, <2>6
    <3>2. path[k].cargo = e[k - 2].cargo
      BY <1>2, <3>1 DEF MovedStop
    <3>3. QED
      BY <3>1, <3>2
  <2>7. QED
    BY <1>1, <2>2, <2>3, <2>4, <2>5, <2>6
<1>10. LessLoaded(path, e, d, f)
  BY <1>4, <1>5, <1>6, <1>7, <1>8, <1>9 DEF LessLoaded, Sparser, n
<1>11. QED
  BY <1>10 DEF d


\* Nowhere on the path has an order been delivered more often than picked up.
PickedUpFirst(path) ==
  \A o \in Order, k \in 0..Len(path) :
    Times(path, Delivery(o), k) <= Times(path, Pickup(o), k)

\* The vehicle goes from its start to its end with right caches, delivers its
\* orders, and nothing that it did not pick up.  An intact vehicle does, and so
\* does one that visits a node twice.
Balanced(t) ==
  /\ Travels(t)
  /\ PickedUpFirst(t.path)
  /\ \A o \in t.orders : Delivery(o) \in Nodes(t.path)

LEMMA IntactBalanced ==
  ASSUME NEW t, Intact(t)
  PROVE  Balanced(t)
<1> DEFINE path == t.path
<1>1. Travels(t) /\ Once(path) /\ Ordered(path, Order) /\ Len(path) \in Nat
  BY IntactTravels, VehicleFacts DEF Intact
<1>2. ASSUME NEW o \in Order, NEW k \in 0..Len(path)
      PROVE  Times(path, Delivery(o), k) <= Times(path, Pickup(o), k)
  <2>1. k \in Nat /\ \A p \in 1..k : p \in 1..Len(path)
    BY <1>1
  <2>2. \A p, r \in 1..k : path[p].node = path[r].node => p = r
    BY <1>1, <2>1 DEF Once
  <2> HIDE DEF path
  <2>3. /\ Times(path, Delivery(o), k) = IF \E p \in 1..k : path[p].node = Delivery(o) THEN 1 ELSE 0
        /\ Times(path, Pickup(o), k) = IF \E p \in 1..k : path[p].node = Pickup(o) THEN 1 ELSE 0
    BY <2>1, <2>2, TimesVisited
  <2>4. ASSUME NEW p \in 1..k, path[p].node = Delivery(o)
        PROVE  \E r \in 1..k : path[r].node = Pickup(o)
    <3>1. PICK r \in 1..(p - 1) : path[r].node = Pickup(o)
      BY <1>1, <2>1, <2>4 DEF Ordered
    <3>2. r \in 1..k
      BY <2>1
    <3>3. QED
      BY <3>1, <3>2
  <2>5. QED
    BY <2>3, <2>4
<1>3. QED
  BY <1>1, <1>2 DEF Balanced, PickedUpFirst, Intact

\* An order that comes to the path is picked up before it is delivered.
LEMMA OrderComes ==
  ASSUME NEW path \in Seq(Stop), PickedUpFirst(path), NEW o \in Order,
         NEW p \in 1..(Len(path) + 1), NEW q \in 1..(Len(path) + 2), p < q,
         NEW mid, HasInserted(path, p, Pickup(o), mid),
         NEW e, HasInserted(mid, q, Delivery(o), e)
  PROVE  PickedUpFirst(e)
<1>1. /\ mid \in Seq(Stop) /\ Len(mid) = Len(path) + 1 /\ Len(path) \in Nat
      /\ Len(e) = Len(path) + 2 /\ q \in 1..(Len(mid) + 1) /\ p \in Nat /\ q \in Nat
  BY DEF HasInserted
<1>2. SUFFICES ASSUME NEW a \in Order, NEW k \in 0..Len(e)
               PROVE  Times(e, Delivery(a), k) <= Times(e, Pickup(a), k)
  BY DEF PickedUpFirst
<1>3. /\ Delivery(a) # Pickup(o) /\ Pickup(a) # Delivery(o)
      /\ Delivery(a) = Delivery(o) <=> a = o
      /\ Pickup(a) = Pickup(o) <=> a = o
  BY KindsDiffer
<1> DEFINE one == IF a = o THEN 1 ELSE 0
           P(l) == Times(path, Pickup(a), l)
           D(l) == Times(path, Delivery(a), l)
           MP(l) == Times(mid, Pickup(a), l)
           MD(l) == Times(mid, Delivery(a), l)
<1>4. \A l \in Nat : P(l) \in Nat /\ D(l) \in Nat /\ MP(l) \in Nat /\ MD(l) \in Nat
  BY TimesIs
<1>5. \A l \in 0..Len(path) : D(l) <= P(l)
  BY DEF PickedUpFirst
<1>6. \A l \in 0..Len(mid) : /\ MP(l) = IF l < p THEN P(l) ELSE P(l - 1) + one
                             /\ MD(l) = IF l < p THEN D(l) ELSE D(l - 1)
  <2>1. \A l \in 0..Len(mid) : MP(l) = IF l < p THEN P(l) ELSE P(l - 1) + one
    BY <1>3, InsertTimes
  <2>2. \A l \in 0..Len(mid) : MD(l) = IF l < p THEN D(l) ELSE D(l - 1) + 0
    BY <1>3, InsertTimes
  <2> HIDE DEF P, D, MP, MD, one
  <2>3. ASSUME NEW l \in 0..Len(mid), ~(l < p)
        PROVE  D(l - 1) + 0 = D(l - 1)
    <3>1. l - 1 \in Nat
      BY <1>1, <2>3
    <3>2. QED
      BY <1>4, <3>1
  <2>4. QED
    BY <2>1, <2>2, <2>3
<1>7. /\ Times(e, Pickup(a), k) = IF k < q THEN MP(k) ELSE MP(k - 1) + 0
      /\ Times(e, Delivery(a), k) = IF k < q THEN MD(k) ELSE MD(k - 1) + one
  BY <1>1, <1>3, InsertTimes
<1>8. one \in {0, 1}
  OBVIOUS
<1> HIDE DEF P, D, MP, MD, one
<1>9. ASSUME NEW l \in 0..Len(mid)
      PROVE  MD(l) <= MP(l) /\ (l >= p => MD(l) + one <= MP(l))
  <2>1. CASE l < p
    <3>1. l \in 0..Len(path)
      BY <1>1, <2>1
    <3>2. QED
      BY <1>1, <1>5, <1>6, <2>1, <3>1
  <2>2. CASE ~(l < p)
    <3>1. l - 1 \in 0..Len(path) /\ l - 1 \in Nat
      BY <1>1, <2>2
    <3>2. D(l - 1) <= P(l - 1) /\ D(l - 1) \in Nat /\ P(l - 1) \in Nat
      BY <1>4, <1>5, <3>1
    <3>3. QED
      BY <1>6, <1>8, <2>2, <3>2
  <2>3. QED
    BY <2>1, <2>2
<1>10. CASE k < q
  <2>1. k \in 0..Len(mid)
    BY <1>1, <1>10
  <2>2. QED
    BY <1>7, <1>9, <1>10, <2>1
<1>11. CASE ~(k < q)
  <2>1. k - 1 \in 0..Len(mid) /\ k - 1 >= p /\ k - 1 \in Nat
    BY <1>1, <1>11
  <2>2. MD(k - 1) + one <= MP(k - 1) /\ MP(k - 1) \in Nat
    BY <1>4, <1>9, <2>1
  <2>3. QED
    BY <1>7, <1>11, <2>2
<1>12. QED
  BY <1>10, <1>11

\* The first pickup and the first delivery that is left, erased at p and q.
ErasedAt(v, o, path, p, mid, q, e) ==
  /\ p \in 2..(Len(path) - 1) /\ path[p].node = Pickup(o) /\ HasErased(path, p, mid)
  /\ mid \in Seq(Stop) /\ Coherent(v, mid)
  /\ q \in p..(Len(mid) - 1) /\ mid[q].node = Delivery(o) /\ HasErased(mid, q, e)
  /\ \A j \in 1..(q - 1) : mid[j].node # Delivery(o)
  /\ e \in Seq(Stop) /\ Coherent(v, e)

\* So erase takes them off, pickup in front of delivery.
LEMMA ErasedStops ==
  ASSUME NEW t, Balanced(t), NEW o \in Order, Delivery(o) \in Nodes(t.path),
         NEW u, u = erase(t, o)
  PROVE  \E p, q, mid : ErasedAt(t.idx, o, t.path, p, mid, q, u.path)
<1> DEFINE v == t.idx
           path == t.path
           mid == EraseNode(v, path, Pickup(o))
           e == EraseNode(v, mid, Delivery(o))
<1>1. /\ t \in VehicleType /\ v \in Truck /\ path \in Seq(Stop)
      /\ t.orders \ {o} \in SUBSET Order
      /\ Coherent(v, path) /\ FromStartToEnd(v, path) /\ PickedUpFirst(path)
  BY VehicleFacts DEF Balanced, Travels
<1>2. u = WithFields(t, e, t.orders \ {o})
  BY DEF erase, WithFields
<1>3. /\ Pickup(o) \in OrderNode /\ Delivery(o) \in OrderNode /\ Pickup(o) # Delivery(o)
      /\ StartSite(v) \notin {Pickup(o), Delivery(o)}
      /\ EndSite(v) \notin {Pickup(o), Delivery(o)}
  BY OrderNodes, KindsDiffer
<1> HIDE DEF path, v
<1>4. PICK y \in 1..Len(path) : path[y].node = Delivery(o)
  BY <1>1, VisitedNodes DEF path
<1>5. \A k \in 1..Len(path) :
        (\A j \in 1..k : path[j].node # Pickup(o)) => \A j \in 1..k : path[j].node # Delivery(o)
  <2>1. TAKE k \in 1..Len(path)
  <2>2. k \in Nat /\ k \in 0..Len(path)
    OBVIOUS
  <2>3. Times(path, Delivery(o), k) <= Times(path, Pickup(o), k)
    BY <1>1, <2>2 DEF PickedUpFirst
  <2>4. Times(path, Delivery(o), k) \in Nat
    BY <2>2, TimesIs
  <2>5. Times(path, Pickup(o), k) = 0 => Times(path, Delivery(o), k) = 0
    BY <2>3, <2>4
  <2>6. QED
    BY <2>2, <2>5, TimesVisited
<1>6. Len(path) \in Nat
  BY <1>1
<1>7. Pickup(o) \in Nodes(path)
  <2>1. y \in 1..y /\ \A j \in 1..y : j \in 1..Len(path)
    BY <1>6
  <2>2. PICK x \in 1..y : path[x].node = Pickup(o)
    BY <1>4, <1>5, <2>1
  <2>3. QED
    BY <1>1, <2>1, <2>2, VisitedNodes
<1>8. mid \in Seq(Stop) /\ Coherent(v, mid)
  BY <1>1, EraseNodeIs
<1>9. PICK p \in 1..Len(path) : /\ path[p].node = Pickup(o) /\ HasErased(path, p, mid)
                               /\ \A j \in 1..(p - 1) : path[j].node # Pickup(o)
  BY <1>1, <1>7, EraseNodeIs
<1>10. FromStartToEnd(v, mid)
  BY <1>1, <1>3, NodeOff
<1>11. Delivery(o) \in Nodes(mid)
  <2>1. Nodes(path) \subseteq Nodes(mid) \cup {Pickup(o)}
    BY <1>1, <1>9, EraseKeeps
  <2>2. QED
    BY <1>3, <2>1 DEF path
<1> HIDE DEF mid
<1>12. e \in Seq(Stop) /\ Coherent(v, e)
  BY <1>1, <1>8, EraseNodeIs
<1>13. PICK q \in 1..Len(mid) : /\ mid[q].node = Delivery(o) /\ HasErased(mid, q, e)
                               /\ \A j \in 1..(q - 1) : mid[j].node # Delivery(o)
  BY <1>1, <1>8, <1>11, EraseNodeIs
<1> HIDE DEF e
<1>14. /\ Len(mid) = Len(path) - 1 /\ Len(e) = Len(mid) - 1
       /\ \A j \in 1..Len(mid) : mid[j].node = IF j < p THEN path[j].node ELSE path[j + 1].node
  BY <1>9, <1>13 DEF HasErased
<1>15. p \in 2..(Len(path) - 1)
  <2>1. p # 1 /\ p # Len(path)
    BY <1>1, <1>3, <1>9 DEF FromStartToEnd
  <2>2. QED
    BY <1>6, <2>1
<1>16. q < Len(mid)
  <2>1. q # Len(mid)
    BY <1>3, <1>10, <1>13 DEF FromStartToEnd
  <2>2. QED
    BY <1>6, <1>14, <2>1
<1>17. q >= p
  <2>1. SUFFICES ASSUME q < p
                 PROVE  FALSE
    BY <1>6, <1>14
  <2>2. path[q].node = Delivery(o) /\ q \in 1..Len(path)
    BY <1>6, <1>13, <1>14, <2>1
  <2>3. q \in 1..q /\ \A j \in 1..q : j \in 1..(p - 1)
    BY <1>6, <2>1
  <2>4. \A j \in 1..q : path[j].node # Pickup(o)
    BY <1>9, <2>3
  <2>5. QED
    BY <1>5, <2>2, <2>3, <2>4
<1>18. q \in p..(Len(mid) - 1)
  BY <1>6, <1>14, <1>16, <1>17
<1>19. u.path = e
  BY <1>1, <1>2, <1>12, VehicleFields
<1>20. ErasedAt(v, o, path, p, mid, q, e)
  BY <1>8, <1>9, <1>12, <1>13, <1>15, <1>18 DEF ErasedAt
<1>21. QED
  BY <1>19, <1>20 DEF path, v

\* The vehicle keeps its balance without the order, although the path may have
\* other stops at the same nodes.
LEMMA EraseBalanced ==
  ASSUME NEW t, Balanced(t), NEW o \in Order, Delivery(o) \in Nodes(t.path),
         NEW u, u = erase(t, o)
  PROVE  /\ Balanced(u) /\ SameVehicle(t, u) /\ u.orders = t.orders \ {o}
         /\ Len(u.path) < Len(t.path)
         /\ \A m : Times(u.path, m, Len(u.path))
                     = Times(t.path, m, Len(t.path)) - (IF m \in {Pickup(o), Delivery(o)} THEN 1 ELSE 0)
<1> DEFINE path == t.path
           e == u.path
           n == Len(e)
<1>1. /\ path \in Seq(Stop) /\ t.orders \in SUBSET Order /\ PickedUpFirst(path)
      /\ \A a \in t.orders : Delivery(a) \in Nodes(path)
  BY VehicleFacts DEF Balanced, Travels
<1>2. Travels(u) /\ SameVehicle(t, u) /\ u.orders = t.orders \ {o}
  BY EraseTravels DEF Balanced
<1>3. PICK p, q, mid : ErasedAt(t.idx, o, path, p, mid, q, e)
  BY ErasedStops
<1> HIDE DEF path, e
<1>4. /\ HasErased(path, p, mid) /\ HasErased(mid, q, e)
      /\ mid \in Seq(Stop) /\ path[p].node = Pickup(o) /\ mid[q].node = Delivery(o)
      /\ p \in 1..Len(path) /\ q \in 1..Len(mid) /\ p \in Nat /\ q \in Nat /\ p <= q
      /\ \A j \in 1..(q - 1) : mid[j].node # Delivery(o)
  BY <1>1, <1>3 DEF ErasedAt
<1>5. /\ Len(mid) = n + 1 /\ Len(path) = n + 2 /\ n \in Nat
      /\ e \in Seq(Stop) /\ q \in 1..(n + 1) /\ p \in 1..(n + 2)
  BY <1>1, <1>4 DEF HasErased
<1>6. ASSUME NEW m
      PROVE  /\ \A k \in 0..(n + 1) :
                  Times(mid, m, k) = IF k < q THEN Times(e, m, k)
                                     ELSE Times(e, m, k - 1) + (IF m = Delivery(o) THEN 1 ELSE 0)
             /\ \A k \in 0..(n + 2) :
                  Times(path, m, k) = IF k < p THEN Times(mid, m, k)
                                      ELSE Times(mid, m, k - 1) + (IF m = Pickup(o) THEN 1 ELSE 0)
  <2>1. HasInserted(e, q, Delivery(o), mid) /\ q \in 1..(Len(e) + 1)
    BY <1>4, <1>5, ErasedIsInserted
  <2>2. HasInserted(mid, p, Pickup(o), path) /\ p \in 1..(Len(mid) + 1)
    BY <1>1, <1>4, <1>5, ErasedIsInserted
  <2>3. QED
    BY <1>4, <1>5, <2>1, <2>2, InsertTimes
<1> HIDE DEF n
<1>7. \A s, m, k : k \in Nat => Times(s, m, k) \in Nat
  BY TimesIs
<1>8. ASSUME NEW a \in Order, NEW k \in 0..n
      PROVE  Times(e, Delivery(a), k) <= Times(e, Pickup(a), k)
  <2>1. /\ Delivery(a) # Pickup(o) /\ Pickup(a) # Delivery(o)
        /\ Delivery(a) = Delivery(o) <=> a = o
        /\ Pickup(a) = Pickup(o) <=> a = o
    BY KindsDiffer
  <2> DEFINE one == IF a = o THEN 1 ELSE 0
             P(l) == Times(path, Pickup(a), l)
             D(l) == Times(path, Delivery(a), l)
             MP(l) == Times(mid, Pickup(a), l)
             MD(l) == Times(mid, Delivery(a), l)
             EP(l) == Times(e, Pickup(a), l)
             ED(l) == Times(e, Delivery(a), l)
  <2>2. \A l \in Nat : /\ P(l) \in Nat /\ D(l) \in Nat /\ MP(l) \in Nat /\ MD(l) \in Nat
                       /\ EP(l) \in Nat /\ ED(l) \in Nat
    BY <1>7
  <2>3. \A l \in 0..(n + 2) : D(l) <= P(l)
    BY <1>1, <1>5 DEF PickedUpFirst
  <2>4. \A l \in 0..(n + 1) : /\ MP(l) = IF l < q THEN EP(l) ELSE EP(l - 1) + 0
                              /\ MD(l) = IF l < q THEN ED(l) ELSE ED(l - 1) + one
    BY <1>6, <2>1
  <2>5. \A l \in 0..(n + 2) : /\ P(l) = IF l < p THEN MP(l) ELSE MP(l - 1) + one
                              /\ D(l) = IF l < p THEN MD(l) ELSE MD(l - 1) + 0
    BY <1>6, <2>1
  <2>6. \A l \in Nat : l < q /\ a = o => MD(l) = 0
    <3>1. SUFFICES ASSUME NEW l \in Nat, l < q, a = o
                   PROVE  Times(mid, Delivery(o), l) = 0
      OBVIOUS
    <3>2. \A j \in 1..l : mid[j].node # Delivery(o)
      BY <1>4, <3>1
    <3>3. QED
      BY <3>2, TimesVisited
  <2>7. one \in {0, 1} /\ (a # o => one = 0)
    OBVIOUS
  <2> HIDE DEF one, P, D, MP, MD, EP, ED
  <2>8. ASSUME NEW l \in 0..(n + 1)
        PROVE  MD(l) <= MP(l) + one
    <3>1. CASE l < p
      <4>1. l \in 0..(n + 2) /\ l \in Nat
        BY <1>5
      <4>2. MD(l) <= MP(l) /\ MD(l) \in Nat /\ MP(l) \in Nat
        BY <2>2, <2>3, <2>5, <3>1, <4>1
      <4>3. QED
        BY <2>7, <4>2
    <3>2. CASE ~(l < p)
      <4>1. l + 1 \in 0..(n + 2) /\ ~(l + 1 < p) /\ (l + 1) - 1 = l /\ l \in Nat
        BY <1>4, <1>5, <3>2
      <4>2. D(l + 1) = MD(l) + 0 /\ P(l + 1) = MP(l) + one /\ D(l + 1) <= P(l + 1)
        BY <2>3, <2>5, <4>1
      <4>3. MD(l) \in Nat
        BY <2>2, <4>1
      <4>4. QED
        BY <4>2, <4>3
    <3>3. QED
      BY <3>1, <3>2
  <2>9. CASE k < q
    <3>1. k \in 0..(n + 1) /\ k \in Nat
      BY <1>5
    <3>2. MP(k) = EP(k) /\ MD(k) = ED(k) /\ MD(k) <= MP(k) + one /\ MP(k) \in Nat
      BY <2>2, <2>4, <2>8, <2>9, <3>1
    <3>3. MD(k) <= MP(k)
      <4>1. CASE a = o
        BY <2>6, <2>9, <3>1, <3>2, <4>1
      <4>2. CASE a # o
        BY <2>7, <3>2, <4>2
      <4>3. QED
        BY <4>1, <4>2
    <3>4. QED
      BY <3>2, <3>3 DEF ED, EP
  <2>10. CASE ~(k < q)
    <3>1. k + 1 \in 0..(n + 1) /\ ~(k + 1 < q) /\ (k + 1) - 1 = k /\ k \in Nat
      BY <1>4, <1>5, <2>10
    <3>2. MP(k + 1) = EP(k) + 0 /\ MD(k + 1) = ED(k) + one /\ MD(k + 1) <= MP(k + 1) + one
      BY <2>4, <2>8, <3>1
    <3>3. EP(k) \in Nat /\ ED(k) \in Nat
      BY <2>2, <3>1
    <3>4. ED(k) <= EP(k)
      BY <2>7, <3>2, <3>3
    <3>5. QED
      BY <3>4 DEF ED, EP
  <2>11. QED
    BY <2>9, <2>10
<1>9. ASSUME NEW a \in u.orders
       PROVE  Delivery(a) \in Nodes(e)
  <2>1. Delivery(a) \in Nodes(path) /\ Delivery(a) # Pickup(o) /\ Delivery(a) # Delivery(o)
    BY <1>1, <1>2, KindsDiffer
  <2>2. Nodes(path) \subseteq Nodes(mid) \cup {Pickup(o)}
    BY <1>1, <1>4, EraseKeeps
  <2>3. Nodes(mid) \subseteq Nodes(e) \cup {Delivery(o)}
    BY <1>4, EraseKeeps
  <2>4. QED
    BY <2>1, <2>2, <2>3
<1>10. ASSUME NEW m
       PROVE  Times(e, m, n) = Times(path, m, n + 2) - (IF m \in {Pickup(o), Delivery(o)} THEN 1 ELSE 0)
  <2>1. /\ n + 1 \in 0..(n + 1) /\ ~(n + 1 < q) /\ (n + 1) - 1 = n
        /\ n + 2 \in 0..(n + 2) /\ ~(n + 2 < p) /\ (n + 2) - 1 = n + 1
    BY <1>5
  <2>2. /\ Times(mid, m, n + 1) = Times(e, m, n) + (IF m = Delivery(o) THEN 1 ELSE 0)
        /\ Times(path, m, n + 2) = Times(mid, m, n + 1) + (IF m = Pickup(o) THEN 1 ELSE 0)
    BY <1>6, <2>1
  <2>3. Times(e, m, n) \in Nat /\ Pickup(o) # Delivery(o)
    BY <1>5, <1>7, KindsDiffer
  <2>4. QED
    BY <2>2, <2>3
<1>11. PickedUpFirst(e)
  BY <1>8 DEF PickedUpFirst, n
<1>12. n < n + 2
  BY <1>5
<1>13. QED
  BY <1>2, <1>5, <1>9, <1>10, <1>11, <1>12 DEF Balanced, path, e, n

\* Its path is the path without the order, and less loaded.
LEMMA ErasedIsLessLoaded ==
  ASSUME NEW t, Balanced(t), NEW o \in Order, Delivery(o) \in Nodes(t.path),
         NEW u, u = erase(t, o)
  PROVE  \E f : LessLoaded(t.path, u.path, Tw_node[Pickup(o)].demand, f)
<1>1. t.idx \in Truck /\ t.path \in Seq(Stop) /\ Coherent(t.idx, t.path)
  BY VehicleFacts DEF Balanced, Travels
<1>2. PICK p, q, mid : ErasedAt(t.idx, o, t.path, p, mid, q, u.path)
  BY ErasedStops
<1>3. QED
  BY <1>1, <1>2, ErasedIsSparser DEF ErasedAt

\* A node of a path carries something away only if it is a delivery.
LEMMA OnlyDeliveriesUnload ==
  ASSUME NEW n \in Node, \A o \in Order : n # Delivery(o)
  PROVE  Tw_node[n].demand \in Nat
<1>1. CASE \E o \in Order : n = Pickup(o)
  <2>1. PICK o \in Order : n = Pickup(o)
    BY <1>1
  <2>2. Tw_node[n] = PickupNode(OrderRow[o])
    BY <2>1 DEF Tw_node, Pickup
  <2>3. OrderRow[o].demand \in Nat
    BY DataAssumption DEF OrderFields
  <2>4. QED
    BY <2>2, <2>3 DEF PickupNode, TwNode
<1>2. CASE \E v \in Truck : n = StartSite(v)
  <2>1. PICK v \in Truck : n = StartSite(v)
    BY <1>2
  <2>2. Tw_node[n] = StartNode(TruckRow[v])
    BY <2>1 DEF Tw_node, StartSite
  <2>3. QED
    BY <2>2 DEF StartNode, TwNode
<1>3. CASE \E v \in Truck : n = EndSite(v)
  <2>1. PICK v \in Truck : n = EndSite(v)
    BY <1>3
  <2>2. Tw_node[n] = EndNode(TruckRow[v])
    BY <2>1 DEF Tw_node, EndSite
  <2>3. QED
    BY <2>2 DEF EndNode, TwNode
<1>4. QED
  BY <1>1, <1>2, <1>3 DEF Node

\* A path without deliveries carries what it picked up.
LEMMA LoadsGrow ==
  ASSUME NEW v \in Truck, NEW path \in Seq(Stop), Coherent(v, path),
         \A o \in Order : Delivery(o) \notin Nodes(path)
  PROVE  \A k \in 1..Len(path) : path[k].cargo \in Nat
<1> DEFINE n == Len(path)
           Good == {k \in 0..n : k > 0 => path[k].cargo \in Nat}
<1>1. n \in Nat
  OBVIOUS
<1>2. 0 \in Good
  BY <1>1
<1>3. ASSUME NEW k \in 1..n, k - 1 \in Good
      PROVE  k \in Good
  <2> DEFINE d == Tw_node[path[k].node].demand
  <2>1. d \in Nat
    <3>1. path[k].node \in Node
      BY StopFigures
    <3>2. \A o \in Order : path[k].node # Delivery(o)
      BY VisitedNodes
    <3>3. QED
      BY <3>1, <3>2, OnlyDeliveriesUnload
  <2>2. CASE k = 1
    <3>1. path[k].cargo = d
      BY <2>2, StopFigures
    <3>2. QED
      BY <1>1, <2>1, <3>1
  <2>3. CASE k > 1
    <3>1. path[k].cargo = path[k - 1].cargo + d
      BY <2>3, StopFigures, SMTT(60)
    <3>2. path[k - 1].cargo \in Nat
      BY <1>3, <2>3
    <3> HIDE DEF d
    <3>3. QED
      BY <1>1, <2>1, <3>1, <3>2
  <2>4. QED
    BY <1>1, <2>2, <2>3
<1>4. \A k \in 0..n : k \in Good
  <2> HIDE DEF Good, n
  <2>1. QED
    BY <1>1, <1>2, <1>3, Upward
<1>5. ASSUME NEW r \in 1..n
      PROVE  path[r].cargo \in Nat
  <2>1. r \in 0..n /\ r > 0
    BY <1>1
  <2>2. r \in Good
    BY <1>4, <2>1
  <2>3. QED
    BY <2>1, <2>2
<1>6. QED
  BY <1>5

\* Somewhere a balanced vehicle with a path of length n carries less than nothing.
Underloaded(n) ==
  \E t : Balanced(t) /\ Len(t.path) = n /\ \E k \in 1..n : t.path[k].cargo \notin Nat

\* A vehicle never carries less than nothing: on a shortest path where one does,
\* an order is delivered, and without this order the path is shorter.
LEMMA LoadIsNatural ==
  ASSUME NEW t, Balanced(t)
  PROVE  \A k \in 1..Len(t.path) : t.path[k].cargo \in Nat
<1> DEFINE Lengths == {n \in Nat : Underloaded(n)}
<1>1. SUFFICES ASSUME NEW k \in 1..Len(t.path), t.path[k].cargo \notin Nat
               PROVE  FALSE
  OBVIOUS
<1>2. Len(t.path) \in Nat
  BY VehicleFacts DEF Balanced, Travels
<1>3. Len(t.path) \in Lengths
  BY <1>1, <1>2 DEF Underloaded
<1>4. Lengths \in SUBSET Nat /\ Lengths # {}
  BY <1>3
<1> HIDE DEF Lengths
<1>5. PICK n \in Lengths : \A m \in Lengths : n <= m
  BY <1>4, LeastNatural
<1>6. n \in Nat /\ Underloaded(n)
  BY <1>5 DEF Lengths
<1>7. PICK w : Balanced(w) /\ Len(w.path) = n /\ \E j \in 1..n : w.path[j].cargo \notin Nat
  BY <1>6 DEF Underloaded
<1>8. PICK j \in 1..n : w.path[j].cargo \notin Nat
  BY <1>7
<1>9. w.idx \in Truck /\ w.path \in Seq(Stop) /\ Coherent(w.idx, w.path)
  BY <1>7, VehicleFacts DEF Balanced, Travels
<1>10. PICK o \in Order : Delivery(o) \in Nodes(w.path)
  BY <1>7, <1>8, <1>9, LoadsGrow
<1> DEFINE u == erase(w, o)
           d == Tw_node[Pickup(o)].demand
<1>11. Balanced(u) /\ Len(u.path) < n
  BY <1>7, <1>10, EraseBalanced
<1>12. \E f : LessLoaded(w.path, u.path, d, f)
  BY <1>7, <1>10, ErasedIsLessLoaded
<1>13. d \in Nat
  BY OrderNodes, KindsDiffer, OnlyDeliveriesUnload
<1> HIDE DEF u, d
<1>14. Len(u.path) \in Nat
  BY <1>11, VehicleFacts DEF Balanced, Travels
<1>15. \A r \in 1..Len(u.path) : u.path[r].cargo \in Nat
  <2>1. Len(u.path) \notin Lengths
    BY <1>5, <1>6, <1>11, <1>14
  <2>2. QED
    BY <1>11, <1>14, <2>1 DEF Lengths, Underloaded
<1>16. PICK r \in 1..Len(u.path) : w.path[j].cargo \in {u.path[r].cargo, u.path[r].cargo + d}
  BY <1>7, <1>8, <1>12 DEF LessLoaded
<1>17. QED
  BY <1>8, <1>13, <1>15, <1>16, SMTT(60)


\* u violates the windows and the capacity at most as often as t.
ViolatesNoMore(t, u) ==
  /\ twvTot(u) \in Nat /\ twvTot(t) \in Nat /\ twvTot(u) <= twvTot(t)
  /\ cvTot(u) \in Nat /\ cvTot(t) \in Nat /\ cvTot(u) <= cvTot(t)

\* When travel times are ordinary, a vehicle that loses one of the orders it
\* delivers violates no more: it is nowhere later, and it is overloaded nowhere
\* else.
LEMMA ErasingAddsNothing ==
  ASSUME OrdinaryTimes, NEW t, Balanced(t), NEW o \in Order,
         Delivery(o) \in Nodes(t.path), NEW u, u = erase(t, o)
  PROVE  ViolatesNoMore(t, u)
<1> DEFINE v == t.idx
           path == t.path
           e == u.path
           n == Len(e)
           m == Len(path)
           d == Tw_node[Pickup(o)].demand
<1>1. /\ v \in Truck /\ path \in Seq(Stop) /\ Coherent(v, path) /\ FromStartToEnd(v, path)
  BY VehicleFacts DEF Balanced, Travels
<1>2. Balanced(u) /\ u.idx = v
  BY EraseBalanced DEF SameVehicle
<1>3. e \in Seq(Stop) /\ Coherent(v, e) /\ FromStartToEnd(v, e)
  BY <1>2, VehicleFacts DEF Balanced, Travels
<1>4. PICK f : LessLoaded(path, e, d, f)
  BY ErasedIsLessLoaded
<1>5. \A r \in 1..n : e[r].cargo \in Nat
  BY <1>2, LoadIsNatural
<1>6. d \in Nat
  BY OrderNodes, KindsDiffer, OnlyDeliveriesUnload
<1>8. twvTot(t) = path[m].twvTot /\ cvTot(t) = path[m].cvTot
  BY DEF twvTot, cvTot, Last
<1>9. twvTot(u) = e[n].twvTot /\ cvTot(u) = e[n].cvTot
  BY DEF twvTot, cvTot, Last
<1> HIDE DEF v, path, e, d
<1>10. n \in Nat /\ n >= 2 /\ m \in Nat /\ m >= 2
  BY <1>1, <1>3 DEF FromStartToEnd
<1>11. /\ Sparser(path, e, f) /\ f[n] = m /\ path[m].cargo = e[n].cargo
       /\ \A r \in 1..n : path[f[r]].cargo \in {e[r].cargo, e[r].cargo + d}
  BY <1>4 DEF LessLoaded
<1>12. ASSUME NEW r \in 1..n, has_cv(v, e[r].node, e[r].cargo)
       PROVE  has_cv(v, path[f[r]].node, path[f[r]].cargo)
  <2>1. e[r].node = path[f[r]].node /\ (r = 1 <=> f[r] = 1)
    BY <1>11 DEF Sparser
  <2>2. CASE r = 1
    <3>1. f[1] = 1 /\ 1 \in 1..n /\ 1 \in 1..m
      BY <1>10, <2>1, <2>2
    <3>2. e[1].cargo = Tw_node[e[1].node].demand
      BY <1>1, <1>3, <3>1, StopFigures
    <3>3. \A j \in 1..m : j = 1 => path[j].cargo = Tw_node[path[j].node].demand
      BY <1>1, StopFigures
    <3>4. QED
      BY <1>12, <2>1, <2>2, <3>1, <3>2, <3>3
  <2>3. CASE r = n
    BY <1>11, <1>12, <2>1, <2>3
  <2>4. CASE r \in 2..(n - 1)
    <3>1. e[r].node \in OrderNode
      BY <1>3, <2>4 DEF FromStartToEnd
    <3>2. ~IsStart(e[r].node) /\ ~IsEnd(e[r].node)
      BY <3>1 DEF OrderNode, IsStart, IsEnd, Pickup, Delivery
    <3>3. CapacityOf(v) \in Nat
      <4>1. TruckRow[v] \in TruckFields
        BY <1>1, DataAssumption
      <4>2. QED
        BY <4>1 DEF TruckFields, CapacityOf
    <3> DEFINE c == e[r].cargo
               x == path[f[r]].cargo
    <3>4. c \in Nat /\ x \in {c, c + d}
      BY <1>5, <1>11
    <3>5. c > CapacityOf(v)
      <4>1. c > CapacityOf(v) \/ c < 0
        BY <1>12, <3>2 DEF has_cv
      <4> HIDE DEF c, x
      <4>2. QED
        BY <3>4, <4>1
    <3>6. x > CapacityOf(v)
      <4> HIDE DEF c, x
      <4>1. QED
        BY <1>6, <3>3, <3>4, <3>5
    <3>7. QED
      BY <2>1, <3>2, <3>6 DEF has_cv
  <2>5. QED
    BY <1>10, <2>2, <2>3, <2>4
<1>13. n \in 1..n
  BY <1>10
<1>14. e[n].twvTot <= path[m].twvTot
  <2>1. NotLater(e[n], path[f[n]])
    BY <1>1, <1>3, <1>11, <1>13, SparserIsEarlier
  <2>2. QED
    BY <1>11, <2>1 DEF NotLater
<1>15. e[n].cvTot <= path[m].cvTot
  <2>1. e[n].cvTot <= path[f[n]].cvTot
    BY <1>1, <1>3, <1>11, <1>12, <1>13, SparserFits
  <2>2. QED
    BY <1>11, <2>1
<1>16. /\ e[n].twvTot \in Nat /\ e[n].cvTot \in Nat
       /\ path[m].twvTot \in Nat /\ path[m].cvTot \in Nat
  <2>1. m \in 1..m
    BY <1>10
  <2>2. e[n] \in Stop /\ path[m] \in Stop
    <3> HIDE DEF Stop
    <3>1. QED
      BY <1>1, <1>3, <1>13, <2>1
  <2>3. QED
    BY <2>2 DEF Stop
<1>17. QED
  BY <1>8, <1>9, <1>14, <1>15, <1>16 DEF ViolatesNoMore

\* A feasible vehicle stays feasible, if it tolerates as much.
LEMMA NoMoreIsFeasible ==
  ASSUME NEW t \in VehicleType, NEW u \in VehicleType, SameVehicle(t, u),
         ViolatesNoMore(t, u), is_feasible(t)
  PROVE  is_feasible(u)
<1>1. t.user_twv \in Nat /\ t.user_cv \in Nat
  BY VehicleFacts
<1>2. u.user_twv = t.user_twv /\ u.user_cv = t.user_cv
  BY DEF SameVehicle
<1>3. QED
  BY <1>1, <1>2 DEF ViolatesNoMore, is_feasible

\* So a feasible vehicle that loses one of the orders it delivers stays feasible.
LEMMA ErasingKeepsFeasible ==
  ASSUME OrdinaryTimes, NEW t, Balanced(t), is_feasible(t), NEW o \in Order,
         Delivery(o) \in Nodes(t.path), NEW u, u = erase(t, o)
  PROVE  is_feasible(u)
<1>1. Balanced(u) /\ SameVehicle(t, u)
  BY EraseBalanced
<1>2. t \in VehicleType /\ u \in VehicleType
  BY <1>1 DEF Balanced, Travels
<1>3. ViolatesNoMore(t, u)
  BY ErasingAddsNothing
<1>4. QED
  BY <1>1, <1>2, <1>3, NoMoreIsFeasible

\* u visits the two nodes of the order once more than t, and every other node as
\* often.
OnceMore(t, o, u) ==
  \A m : Times(u.path, m, Len(u.path))
           = Times(t.path, m, Len(t.path)) + (IF m \in {Pickup(o), Delivery(o)} THEN 1 ELSE 0)

\* A balanced vehicle is so with an order more, wherever its nodes are on the
\* path already.
LEMMA GainsBalanced ==
  ASSUME NEW t, Balanced(t), NEW o \in Order,
         NEW p \in 2..Len(t.path), NEW q \in 2..(Len(t.path) + 1), p < q,
         NEW u, Travels(u), u.orders = t.orders \cup {o}, HasOrder(t.path, o, p, q, u.path)
  PROVE  Balanced(u) /\ OnceMore(t, o, u)
<1> DEFINE path == t.path
           e == u.path
           n == Len(path)
<1>1. /\ path \in Seq(Stop) /\ n \in Nat /\ PickedUpFirst(path) /\ t.orders \in SUBSET Order
      /\ \A a \in t.orders : Delivery(a) \in Nodes(path)
  BY VehicleFacts DEF Balanced, Travels
<1>2. HasOrder(path, o, p, q, e) /\ p \in 1..(n + 1) /\ q \in 1..(n + 2) /\ p \in Nat /\ q \in Nat
  BY <1>1
<1> HIDE DEF path, e
<1>3. PICK mid : HasInserted(path, p, Pickup(o), mid) /\ HasInserted(mid, q, Delivery(o), e)
  BY <1>1, <1>2, InsertionsOfOrder
<1>4. /\ mid \in Seq(Stop) /\ Len(mid) = n + 1 /\ e \in Seq(Stop) /\ Len(e) = n + 2
      /\ q \in 1..(Len(mid) + 1)
  BY <1>1, <1>2, <1>3 DEF HasInserted
<1>5. PickedUpFirst(e)
  BY <1>1, <1>2, <1>3, OrderComes
<1>6. ASSUME NEW m
      PROVE  Times(e, m, n + 2) = Times(path, m, n) + (IF m \in {Pickup(o), Delivery(o)} THEN 1 ELSE 0)
  <2>1. /\ n + 1 \in 0..(n + 1) /\ ~(n + 1 < p) /\ (n + 1) - 1 = n
        /\ n + 2 \in 0..(n + 2) /\ ~(n + 2 < q) /\ (n + 2) - 1 = n + 1
    BY <1>1, <1>2, SMTT(60)
  <2>2. Times(mid, m, n + 1) = Times(path, m, n) + (IF m = Pickup(o) THEN 1 ELSE 0)
    <3>1. \A k \in 0..(n + 1) :
            Times(mid, m, k) = IF k < p THEN Times(path, m, k)
                               ELSE Times(path, m, k - 1) + (IF m = Pickup(o) THEN 1 ELSE 0)
      BY <1>1, <1>2, <1>3, <1>4, InsertTimes
    <3>2. QED
      BY <2>1, <3>1
  <2>3. Times(e, m, n + 2) = Times(mid, m, n + 1) + (IF m = Delivery(o) THEN 1 ELSE 0)
    <3>1. \A k \in 0..(n + 2) :
            Times(e, m, k) = IF k < q THEN Times(mid, m, k)
                             ELSE Times(mid, m, k - 1) + (IF m = Delivery(o) THEN 1 ELSE 0)
      BY <1>2, <1>3, <1>4, InsertTimes
    <3>2. QED
      BY <2>1, <3>1
  <2>4. Times(path, m, n) \in Nat /\ Pickup(o) # Delivery(o)
    BY <1>1, TimesIs, KindsDiffer
  <2>5. QED
    BY <2>2, <2>3, <2>4
<1>7. ASSUME NEW a \in u.orders
      PROVE  Delivery(a) \in Nodes(e)
  <2>1. Nodes(mid) = Nodes(path) \cup {Pickup(o)} /\ Nodes(e) = Nodes(mid) \cup {Delivery(o)}
    BY <1>1, <1>2, <1>3, <1>4, InsertKeeps
  <2>2. QED
    BY <1>1, <2>1
<1>8. QED
  BY <1>4, <1>5, <1>6, <1>7 DEF Balanced, OnceMore, path, e, n

\* push_back and push_front keep the balance.
LEMMA PushesBalanced ==
  ASSUME NEW t, Balanced(t), NEW o \in Order,
         NEW u, u \in {push_back(t, o), push_front(t, o)}
  PROVE  /\ Balanced(u) /\ SameVehicle(t, u) /\ u.orders = t.orders \cup {o}
         /\ OnceMore(t, o, u)
<1>1. /\ t \in VehicleType /\ Coherent(t.idx, t.path) /\ t.path \in Seq(Stop)
      /\ FromStartToEnd(t.idx, t.path) /\ Len(t.path) \in Nat /\ Len(t.path) >= 2
  BY VehicleFacts DEF Balanced, Travels, FromStartToEnd
<1>2. PICK p \in 2..Len(t.path), q \in 2..(Len(t.path) + 1) :
        p < q /\ Gained(t, o, u) /\ HasOrder(t.path, o, p, q, u.path)
  <2>1. CASE u = push_back(t, o)
    <3>1. Gained(t, o, u) /\ HasOrder(t.path, o, Len(t.path), Len(t.path) + 1, u.path)
      BY <1>1, <2>1, PushBackIs
    <3>2. /\ Len(t.path) \in 2..Len(t.path) /\ Len(t.path) + 1 \in 2..(Len(t.path) + 1)
          /\ Len(t.path) < Len(t.path) + 1
      BY <1>1
    <3>3. QED
      BY <3>1, <3>2
  <2>2. CASE u = push_front(t, o)
    <3>1. Gained(t, o, u) /\ HasOrder(t.path, o, 2, 3, u.path)
      BY <1>1, <2>2, PushFrontIs
    <3>2. 2 \in 2..Len(t.path) /\ 3 \in 2..(Len(t.path) + 1) /\ 2 < 3
      BY <1>1
    <3>3. QED
      BY <3>1, <3>2
  <2>3. QED
    BY <2>1, <2>2
<1>3. p \in 1..(Len(t.path) + 1) /\ q \in 1..(Len(t.path) + 2) /\ p \in Nat /\ q \in Nat
  BY <1>1
<1>4. FromStartToEnd(t.idx, u.path)
  <2>1. PICK mid : /\ HasInserted(t.path, p, Pickup(o), mid)
                   /\ HasInserted(mid, q, Delivery(o), u.path)
    BY <1>1, <1>2, <1>3, InsertionsOfOrder
  <2>2. mid \in Seq(Stop) /\ Len(mid) = Len(t.path) + 1
    BY <2>1 DEF HasInserted
  <2>3. FromStartToEnd(t.idx, mid)
    BY <1>1, <1>3, <2>1, OrderNodes, InsertKeeps
  <2>4. q \in 1..(Len(mid) + 1) /\ q \in 2..Len(mid)
    BY <1>1, <2>2
  <2>5. QED
    BY <2>1, <2>2, <2>3, <2>4, OrderNodes, InsertKeeps
<1>5. Travels(u) /\ SameVehicle(t, u) /\ u.orders = t.orders \cup {o}
  BY <1>2, <1>4 DEF Gained, Travels, SameVehicle
<1>6. QED
  BY <1>2, <1>5, GainsBalanced

\* semiLIFO and hillClimb leave the vehicle as it was or keep its balance.
LEMMA SearchesBalanced ==
  ASSUME NEW t, Balanced(t), NEW o \in Order, NEW u,
         u = hillClimb(t, o) \/ (u = semiLIFO(t, o) /\ t.user_cv = 0)
  PROVE  \/ u = t
         \/ /\ Balanced(u) /\ SameVehicle(t, u) /\ u.orders = t.orders \cup {o}
            /\ is_feasible(u) /\ OnceMore(t, o, u)
<1>1. /\ Travels(t) /\ t \in VehicleType /\ Coherent(t.idx, t.path)
      /\ Len(t.path) \in Nat /\ Len(t.path) >= 2
  BY VehicleFacts DEF Balanced, Travels, FromStartToEnd
<1>2. CASE u = t
  BY <1>2
<1>3. CASE u # t /\ u = hillClimb(t, o)
  <2>1. /\ Travels(u) /\ SameVehicle(t, u) /\ u.orders = t.orders \cup {o} /\ is_feasible(u)
        /\ \E pq \in FeasiblePositions(t, o) : u = WithOrderAtPair(t, o, pq)
    BY <1>1, <1>3, HillClimbTravels
  <2>2. PICK pq \in FeasiblePositions(t, o) : u = WithOrderAtPair(t, o, pq)
    BY <2>1
  <2>3. pq[1] \in 2..Len(t.path) /\ pq[2] \in 2..(Len(t.path) + 1) /\ pq[1] < pq[2]
    BY <1>1, PairsInside DEF FeasiblePositions
  <2>4. pq[1] \in 1..(Len(t.path) + 1) /\ pq[2] \in 1..(Len(t.path) + 2)
    BY <1>1, <2>3
  <2>5. HasOrder(t.path, o, pq[1], pq[2], u.path)
    BY <1>1, <2>2, <2>3, <2>4, OrderIsAt DEF WithOrderAtPair
  <2>6. QED
    BY <2>1, <2>3, <2>5, GainsBalanced
<1>4. CASE u # t /\ u = semiLIFO(t, o) /\ t.user_cv = 0
  <2>1. /\ Travels(u) /\ SameVehicle(t, u) /\ u.orders = t.orders \cup {o} /\ is_feasible(u)
        /\ \E q \in 3..(Len(t.path) + 1) : HasOrder(t.path, o, 2, q, u.path)
    BY <1>1, <1>4, SemiLIFOTravels
  <2>2. PICK q \in 3..(Len(t.path) + 1) : HasOrder(t.path, o, 2, q, u.path)
    BY <2>1
  <2>3. 2 \in 2..Len(t.path) /\ q \in 2..(Len(t.path) + 1) /\ 2 < q
    BY <1>1
  <2>4. QED
    BY <2>1, <2>2, <2>3, GainsBalanced
<1>5. QED
  BY <1>2, <1>3, <1>4

-----------------------------------------------------------------------------

(***************************************************************************)
(* Sequences of vehicles.                                                  *)
(***************************************************************************)

\* The vehicles of fleet at the positions S, in some order.
Selects(fleet, g, S) ==
  /\ g \in Seq(VehicleType)
  /\ \E p \in [1..Len(g) -> S] :
       /\ \A j, k \in 1..Len(g) : p[j] = p[k] => j = k
       /\ \A l \in S : \E k \in 1..Len(g) : p[k] = l
       /\ \A k \in 1..Len(g) : g[k] = fleet[p[k]]

\* The first m of n positions in some order.
Orderings(n, m) ==
  {p \in Seq(1..n) : Len(p) = m /\ \A j, k \in 1..m : p[j] = p[k] => j = k}

\* An ordering that one more position joins.
LEMMA OrderingGrows ==
  ASSUME NEW n \in Nat, NEW m \in 1..n, NEW p \in Orderings(n, m - 1),
         NEW k \in 1..n, \A j \in 1..(m - 1) : p[j] # k
  PROVE  Append(p, k) \in Orderings(n, m)
<1>1. p \in Seq(1..n) /\ Len(p) = m - 1 /\ \A h, j \in 1..(m - 1) : p[h] = p[j] => h = j
  BY DEF Orderings
<1>2. /\ Append(p, k) \in Seq(1..n) /\ Len(Append(p, k)) = m
      /\ \A j \in 1..(m - 1) : Append(p, k)[j] = p[j]
      /\ Append(p, k)[m] = k
  BY <1>1
<1> DEFINE q == Append(p, k)
<1> HIDE DEF q
<1>3. ASSUME NEW h \in 1..m, NEW j \in 1..m, q[h] = q[j]
      PROVE  h = j
  <2>1. (h \in 1..(m - 1) \/ h = m) /\ (j \in 1..(m - 1) \/ j = m)
    OBVIOUS
  <2>2. QED
    BY <1>1, <1>2, <1>3, <2>1 DEF q
<1>4. QED
  BY <1>2, <1>3 DEF q, Orderings

\* Sorting a fleet rearranges it.
LEMMA ArrangedIs ==
  ASSUME NEW fleet \in Seq(VehicleType), NEW before,
         NEW g \in {[k \in DOMAIN fleet |-> fleet[p[k]]] : p \in Arrangements(Len(fleet), before)}
  PROVE  Len(g) = Len(fleet) /\ Selects(fleet, g, 1..Len(fleet))
<1> DEFINE n == Len(fleet)
           Left(p) == (1..n) \ {p[j] : j \in DOMAIN p}
           Least(left) == {k \in left : \A l \in left : <<l, k>> \notin before}
           Step(ps, m) == UNION {{Append(p, k) : k \in Least(Left(p))} : p \in ps}
           Computes(f) == f = [k \in 0..n |-> IF k = 0 THEN {<<>>} ELSE Step(f[k - 1], k)]
           found == CHOOSE f : Computes(f)
<1>1. Arrangements(n, before) = found[n]
  BY DEF Arrangements, Iterated
<1>2. n \in Nat /\ DOMAIN fleet = 1..n
  OBVIOUS
<1> DEFINE G == [m \in 0..n |-> SUBSET Orderings(n, m)]
<1>3. \A m \in 0..n : G[m] = SUBSET Orderings(n, m)
  OBVIOUS
<1>4. \A m \in 1..n : m \in 0..n /\ m - 1 \in 0..n /\ m # 0
  BY <1>2
<1>5. {<<>>} \in G[0] /\ 0 \in 0..n
  <2>1. 0 \in 0..n
    BY <1>2
  <2>2. <<>> \in Orderings(n, 0)
    BY DEF Orderings
  <2> HIDE DEF G
  <2>3. QED
    BY <1>3, <2>1, <2>2
<1> HIDE DEF n
<1>6. ASSUME NEW m \in 1..n, NEW ps \in G[m - 1]
      PROVE  Step(ps, m) \in G[m]
  <2>1. ASSUME NEW p \in ps, NEW k \in Least(Left(p))
        PROVE  Append(p, k) \in Orderings(n, m)
    <3>1. k \in 1..n /\ \A j \in DOMAIN p : p[j] # k
      BY <1>2
    <3>2. p \in Orderings(n, m - 1)
      <4> HIDE DEF G
      <4>1. QED
        BY <1>3, <1>4, <1>6
    <3>3. DOMAIN p = 1..(m - 1)
      BY <3>2 DEF Orderings
    <3>4. QED
      BY <1>2, <3>1, <3>2, <3>3, OrderingGrows
  <2> HIDE DEF Least, Left
  <2>2. ASSUME NEW q \in Step(ps, m)
        PROVE  q \in Orderings(n, m)
    <3>1. PICK p \in ps : q \in {Append(p, k) : k \in Least(Left(p))}
      OBVIOUS
    <3>2. QED
      BY <2>1, <3>1
  <2> HIDE DEF G, Step
  <2>3. QED
    BY <1>3, <1>4, <2>2
<1> HIDE DEF Step, Least, Left
<1>7. \E f : Computes(f)
  <2> DEFINE X == SUBSET Seq(1..n)
             step == [x \in X \X (1..n) |-> Step(x[1], x[2])]
  <2>1. \A k \in 1..n : \A x \in X : step[<<x, k>>] = Step(x, k)
    OBVIOUS
  <2>2. \A k \in 0..n : G[k] \subseteq X
    BY <1>3 DEF Orderings
  <2> HIDE DEF X, G, step
  <2>3. \A k \in 1..n : \A x \in G[k - 1] : step[<<x, k>>] \in G[k]
    BY <1>4, <1>6, <2>1, <2>2, ZenonT(60)
  <2>4. PICK f : Computed(n, {<<>>}, step, f) /\ \A k \in 0..n : f[k] \in G[k]
    BY <1>2, <1>5, <2>3, StepsExist
  <2>5. \A k \in 0..n : k # 0 => k \in 1..n /\ f[k - 1] \in X
    BY <1>2, <2>2, <2>4
  <2>6. Computes(f)
    BY <2>1, <2>4, <2>5 DEF Computed
  <2>7. QED
    BY <2>6
<1>8. \A k \in 0..n : found[k] = IF k = 0 THEN {<<>>} ELSE Step(found[k - 1], k)
  BY <1>7
<1> HIDE DEF found
<1>9. found[n] \in G[n]
  <2> HIDE DEF G
  <2>1. found[0] \in G[0] /\ \A k \in 1..n : found[k - 1] \in G[k - 1] => found[k] \in G[k]
    BY <1>4, <1>5, <1>6, <1>8
  <2>2. \A k \in 0..n : found[k] \in G[k]
    BY <1>2, <2>1, StepsLead
  <2>3. QED
    BY <1>2, <2>2
<1>10. PICK p \in Orderings(n, n) : g = [k \in DOMAIN fleet |-> fleet[p[k]]]
  <2>1. n \in 0..n
    BY <1>2
  <2>2. PICK p \in Arrangements(n, before) : g = [k \in DOMAIN fleet |-> fleet[p[k]]]
    BY DEF n
  <2>3. p \in Orderings(n, n)
    <3> HIDE DEF G
    <3>1. QED
      BY <1>1, <1>3, <1>9, <2>1, <2>2
  <2>4. QED
    BY <2>2, <2>3
<1>11. /\ p \in [1..n -> 1..n] /\ \A j, k \in 1..n : p[j] = p[k] => j = k
  BY DEF Orderings
<1>12. \A l \in 1..n : \E k \in 1..n : p[k] = l
  <2>1. p \in Injection(1..n, 1..n)
    BY <1>11 DEF Injection, IsInjective
  <2>2. IsFiniteSet(1..n)
    BY <1>2, FS_Interval
  <2>3. p \in Surjection(1..n, 1..n)
    BY <2>1, <2>2, FS_Injection
  <2>4. QED
    BY <2>3 DEF Surjection
<1>13. \A k \in 1..n : fleet[p[k]] \in VehicleType
  <2>1. \A l \in 1..n : fleet[l] \in VehicleType
    BY DEF n
  <2>2. QED
    BY <1>11, <2>1
<1>14. g \in Seq(VehicleType) /\ Len(g) = n /\ \A k \in 1..n : g[k] = fleet[p[k]]
  BY <1>2, <1>10, <1>13
<1>15. n = Len(fleet)
  BY DEF n
<1>16. /\ p \in [1..Len(g) -> 1..Len(fleet)]
       /\ \A j, k \in 1..Len(g) : p[j] = p[k] => j = k
       /\ \A l \in 1..Len(fleet) : \E k \in 1..Len(g) : p[k] = l
       /\ \A k \in 1..Len(g) : g[k] = fleet[p[k]]
  BY <1>11, <1>12, <1>14, <1>15
<1>17. QED
  BY <1>14, <1>15, <1>16 DEF Selects

\* One vehicle more of a fleet.
LEMMA SelectionGrows ==
  ASSUME NEW fleet \in Seq(VehicleType), NEW g, NEW S \in SUBSET (1..Len(fleet)),
         Selects(fleet, g, S), NEW k \in 1..Len(fleet), k \notin S
  PROVE  Selects(fleet, Append(g, fleet[k]), S \cup {k})
<1> DEFINE T == S \cup {k}
           longer == Append(g, fleet[k])
<1>1. g \in Seq(VehicleType) /\ fleet[k] \in VehicleType
  BY DEF Selects
<1>2. PICK p \in [1..Len(g) -> S] :
        /\ \A l, j \in 1..Len(g) : p[l] = p[j] => l = j
        /\ \A l \in S : \E j \in 1..Len(g) : p[j] = l
        /\ \A j \in 1..Len(g) : g[j] = fleet[p[j]]
  BY DEF Selects
<1> DEFINE m == Len(g)
<1>3. m \in Nat /\ longer \in Seq(VehicleType) /\ Len(longer) = m + 1 /\ longer[m + 1] = fleet[k]
      /\ \A j \in 1..m : longer[j] = g[j]
  BY <1>1
<1> DEFINE q == [j \in 1..(m + 1) |-> IF j = m + 1 THEN k ELSE p[j]]
<1> HIDE DEF m, longer
<1>4. \A j \in 1..(m + 1) : j \in 1..m \/ j = m + 1
  BY <1>3
<1>5. m + 1 \in 1..(m + 1) /\ \A j \in 1..m : j \in 1..(m + 1) /\ j # m + 1
  BY <1>3
<1>6. q[m + 1] = k /\ \A j \in 1..m : q[j] = p[j] /\ q[j] \in S
  BY <1>2, <1>5 DEF m
<1>7. q \in [1..(m + 1) -> T]
  BY <1>2, <1>4 DEF m
<1> HIDE DEF q
<1>8. \A l, j \in 1..(m + 1) : q[l] = q[j] => l = j
  BY <1>2, <1>4, <1>6 DEF m
<1>9. \A l \in T : \E j \in 1..(m + 1) : q[j] = l
  BY <1>2, <1>5, <1>6 DEF m
<1>10. \A j \in 1..(m + 1) : longer[j] = fleet[q[j]]
  BY <1>2, <1>3, <1>4, <1>6 DEF m
<1>11. Selects(fleet, longer, T)
  <2> HIDE DEF T
  <2>1. /\ q \in [1..Len(longer) -> T]
        /\ \A l, j \in 1..Len(longer) : q[l] = q[j] => l = j
        /\ \A l \in T : \E j \in 1..Len(longer) : q[j] = l
        /\ \A j \in 1..Len(longer) : longer[j] = fleet[q[j]]
    BY <1>3, <1>7, <1>8, <1>9, <1>10
  <2>2. QED
    BY <1>3, <2>1 DEF Selects
<1>12. QED
  BY <1>11 DEF longer

\* The vehicles at the positions S of fleet are kept, one by one.
Keeping(fleet, S, f) ==
  f = [k \in 0..Len(fleet) |->
         IF k = 0 THEN <<>> ELSE IF k \in S THEN Append(f[k - 1], fleet[k]) ELSE f[k - 1]]

\* They can be kept.
LEMMA KeepingExists ==
  ASSUME NEW fleet \in Seq(VehicleType), NEW S \in SUBSET (1..Len(fleet))
  PROVE  \E f : Keeping(fleet, S, f)
<1> DEFINE n == Len(fleet)
           X == Seq(VehicleType)
           Step(x, k) == IF k \in S THEN Append(x, fleet[k]) ELSE x
           G == [k \in 0..n |-> X]
           step == [x \in X \X (1..n) |-> Step(x[1], x[2])]
<1>1. n \in Nat /\ \A k \in 1..n : fleet[k] \in VehicleType
  OBVIOUS
<1>2. \A k \in 1..n : \A x \in X : Step(x, k) \in X
  BY <1>1
<1>3. <<>> \in X
  OBVIOUS
<1> HIDE DEF n, X
<1>4. \A k \in 1..n : \A x \in X : step[<<x, k>>] = Step(x, k)
  OBVIOUS
<1>5. \A k \in 0..n : G[k] = X
  OBVIOUS
<1>6. 0 \in 0..n /\ \A k \in 1..n : k \in 0..n /\ k - 1 \in 0..n
  BY <1>1
<1> HIDE DEF G, step, Step
<1>7. <<>> \in G[0] /\ \A k \in 1..n : \A x \in G[k - 1] : step[<<x, k>>] \in G[k]
  <2>1. <<>> \in G[0]
    BY <1>3, <1>5, <1>6
  <2>2. ASSUME NEW k \in 1..n, NEW x \in G[k - 1]
        PROVE  step[<<x, k>>] \in G[k]
    <3>1. x \in X /\ G[k] = X
      BY <1>5, <1>6
    <3>2. step[<<x, k>>] \in X
      BY <1>2, <1>4, <3>1
    <3>3. QED
      BY <3>1, <3>2
  <2>3. QED
    BY <2>1, <2>2
<1>8. PICK f : Computed(n, <<>>, step, f) /\ \A k \in 0..n : f[k] \in G[k]
  BY <1>1, <1>7, StepsExist
<1>9. \A k \in 0..n : k # 0 => k \in 1..n /\ f[k - 1] \in X
  <2>1. \A k \in 0..n : k # 0 => k \in 1..n
    BY <1>1
  <2>2. \A k \in 1..n : f[k - 1] \in X
    BY <1>5, <1>6, <1>8
  <2>3. QED
    BY <2>1, <2>2
<1>10. f = [k \in 0..n |-> IF k = 0 THEN <<>> ELSE Step(f[k - 1], k)]
  BY <1>4, <1>8, <1>9 DEF Computed
<1>11. QED
  BY <1>10 DEF Keeping, Step, n

\* They are the ones that are selected.
LEMMA KeepingSelects ==
  ASSUME NEW fleet \in Seq(VehicleType), NEW S \in SUBSET (1..Len(fleet)),
         NEW f, Keeping(fleet, S, f)
  PROVE  Selects(fleet, f[Len(fleet)], S)
<1> DEFINE n == Len(fleet)
           Below(k) == S \cap (1..k)
           G == [k \in 0..n |-> {x \in Seq(VehicleType) : Selects(fleet, x, Below(k))}]
<1>1. n \in Nat /\ 0 \in 0..n /\ n \in 0..n
  OBVIOUS
<1>2. \A k \in 0..n : f[k] = IF k = 0 THEN <<>>
                             ELSE IF k \in S THEN Append(f[k - 1], fleet[k]) ELSE f[k - 1]
  BY DEF Keeping
<1>3. \A k \in 0..n : G[k] = {x \in Seq(VehicleType) : Selects(fleet, x, Below(k))}
  OBVIOUS
<1>4. f[0] \in G[0]
  <2>1. Below(0) = {}
    OBVIOUS
  <2>2. Selects(fleet, <<>>, {})
    <3>1. Len(<<>>) = 0 /\ <<>> \in Seq(VehicleType) /\ 1..0 = {}
      OBVIOUS
    <3>2. [l \in {} |-> l] \in [{} -> {}]
      OBVIOUS
    <3>3. QED
      BY <3>1, <3>2 DEF Selects
  <2>3. <<>> \in Seq(VehicleType)
    OBVIOUS
  <2> HIDE DEF G, Below
  <2>4. QED
    BY <1>1, <1>2, <1>3, <2>1, <2>2, <2>3, ZenonT(60)
<1>5. ASSUME NEW k \in 1..n, f[k - 1] \in G[k - 1]
      PROVE  f[k] \in G[k]
  <2>1. k \in 0..n /\ k - 1 \in 0..n /\ k # 0
    BY <1>1
  <2>2. /\ k \notin Below(k - 1) /\ Below(k - 1) \in SUBSET (1..n)
        /\ Below(k) = IF k \in S THEN Below(k - 1) \cup {k} ELSE Below(k - 1)
    BY <1>1
  <2> HIDE DEF G, Below
  <2>3. f[k - 1] \in Seq(VehicleType) /\ Selects(fleet, f[k - 1], Below(k - 1))
    BY <1>3, <1>5, <2>1
  <2>4. k \in S => Selects(fleet, Append(f[k - 1], fleet[k]), Below(k - 1) \cup {k})
    BY <2>2, <2>3, SelectionGrows
  <2>5. Selects(fleet, f[k], Below(k))
    BY <1>2, <2>1, <2>2, <2>3, <2>4
  <2>6. f[k] \in Seq(VehicleType)
    BY <2>5 DEF Selects
  <2>7. QED
    BY <1>3, <2>1, <2>5, <2>6
<1>6. f[n] \in G[n]
  <2> HIDE DEF G, n
  <2>1. \A k \in 0..n : f[k] \in G[k]
    BY <1>1, <1>4, <1>5, StepsLead
  <2>2. QED
    BY <1>1, <2>1
<1>7. Below(n) = S
  BY <1>1
<1>8. QED
  BY <1>1, <1>3, <1>6, <1>7

\* The vehicles at some positions are selected.
LEMMA VehiclesAtAre ==
  ASSUME NEW fleet \in Seq(VehicleType), NEW S \in SUBSET (1..Len(fleet))
  PROVE  Selects(fleet, VehiclesAt(fleet, S), S)
<1> DEFINE n == Len(fleet)
           Computes(f) == f = [k \in 0..n |->
                                 IF k = 0 THEN <<>>
                                 ELSE IF k \in S THEN Append(f[k - 1], fleet[k])
                                 ELSE f[k - 1]]
           kept == CHOOSE f : Computes(f)
<1>1. VehiclesAt(fleet, S) = kept[n]
  BY DEF VehiclesAt, Iterated
<1>2. \A f : Computes(f) <=> Keeping(fleet, S, f)
  BY DEF Keeping
<1> HIDE DEF Computes
<1>3. Computes(kept)
  BY <1>2, KeepingExists
<1> HIDE DEF kept
<1>4. QED
  BY <1>1, <1>2, <1>3, KeepingSelects

\* The operators that unite the orders of vehicles, by position.
LEMMA OrdersByPosition ==
  ASSUME NEW fleet \in Seq(VehicleType)
  PROVE  /\ \A o : o \in OrdersOn(fleet) <=> \E k \in 1..Len(fleet) : o \in fleet[k].orders
         /\ \A o : o \in PhonyOrders(fleet) <=>
              \E k \in 1..Len(fleet) : is_phony(fleet[k]) /\ o \in fleet[k].orders
         /\ OrdersApart(fleet) <=>
              \A k, l \in 1..Len(fleet) :
                k # l => fleet[k].orders \cap fleet[l].orders = {}
         /\ FleetFeasible(fleet) <=> \A k \in 1..Len(fleet) : is_feasible(fleet[k])
<1>1. DOMAIN fleet = 1..Len(fleet)
  OBVIOUS
<1>2. \A o : o \in OrdersOn(fleet) <=> \E k \in 1..Len(fleet) : o \in fleet[k].orders
  BY <1>1 DEF OrdersOn
<1>3. \A o : o \in PhonyOrders(fleet) <=>
        \E k \in 1..Len(fleet) : is_phony(fleet[k]) /\ o \in fleet[k].orders
  BY <1>1 DEF PhonyOrders
<1>4. OrdersApart(fleet) <=>
        \A k, l \in 1..Len(fleet) : k # l => fleet[k].orders \cap fleet[l].orders = {}
  BY <1>1 DEF OrdersApart
<1>5. FleetFeasible(fleet) <=> \A k \in 1..Len(fleet) : is_feasible(fleet[k])
  BY <1>1 DEF FleetFeasible
<1>6. QED
  BY <1>2, <1>3, <1>4, <1>5

\* A selection of vehicles whose orders are apart has them apart as well.
LEMMA SelectionApart ==
  ASSUME NEW fleet \in Seq(VehicleType), NEW S \in SUBSET (1..Len(fleet)), NEW g,
         Selects(fleet, g, S), OrdersApart(fleet)
  PROVE  OrdersApart(g)
<1>1. PICK p \in [1..Len(g) -> S] :
        /\ \A j, k \in 1..Len(g) : p[j] = p[k] => j = k
        /\ \A k \in 1..Len(g) : g[k] = fleet[p[k]]
  BY DEF Selects
<1>2. \A k \in 1..Len(g) : p[k] \in 1..Len(fleet)
  OBVIOUS
<1>3. \A j, k \in 1..Len(g) : j # k => g[j].orders \cap g[k].orders = {}
  <2>1. \A j, k \in 1..Len(fleet) : j # k => fleet[j].orders \cap fleet[k].orders = {}
    BY OrdersByPosition
  <2>2. \A j, k \in 1..Len(g) : j # k => p[j] # p[k]
    BY <1>1
  <2>3. QED
    BY <1>1, <1>2, <2>1, <2>2
<1>4. QED
  BY <1>3, OrdersByPosition DEF Selects

(***************************************************************************)
(* Loops over tuples.                                                      *)
(***************************************************************************)

\* Of some tuples of naturals, one has the least element at position pos.
LEMMA LeastAt ==
  ASSUME NEW d \in Nat, NEW S \in SUBSET [1..d -> Nat], S # {}, NEW pos \in 1..d
  PROVE  \E a \in S : \A b \in S : a[pos] <= b[pos]
<1> DEFINE Values == {a[pos] : a \in S}
<1>1. Values \in SUBSET Nat /\ Values # {}
  OBVIOUS
<1>2. PICK v \in Values : \A w \in Values : v <= w
  <2> HIDE DEF Values
  <2>1. QED
    BY <1>1, LeastNatural
<1>3. PICK a \in S : v = a[pos]
  OBVIOUS
<1>4. QED
  BY <1>2, <1>3

\* The tuples T of S agree on their first k positions and come before the others.
Foremost(S, T, k) ==
  /\ T \subseteq S /\ T # {}
  /\ \A a, b \in T : \A l \in 1..k : a[l] = b[l]
  /\ \A a \in T : \A b \in S : b \notin T =>
       \E j \in 1..k : a[j] < b[j] /\ \A l \in 1..(j - 1) : a[l] = b[l]

\* There is a foremost tuple.
LEMMA FirstOfIs ==
  ASSUME NEW d \in Nat, NEW S \in SUBSET [1..d -> Nat], S # {}
  PROVE  FirstOf(S) \in S
<1> DEFINE Splits == {k \in 0..d : \E T : Foremost(S, T, k)}
<1>1. 0 \in Splits
  <2>1. Foremost(S, S, 0) /\ 0 \in 0..d
    BY DEF Foremost
  <2>2. QED
    BY <2>1
<1>2. ASSUME NEW k \in 1..d, k - 1 \in Splits
      PROVE  k \in Splits
  <2>1. PICK T : Foremost(S, T, k - 1)
    BY <1>2
  <2>2. /\ T \subseteq S /\ T # {}
        /\ \A a, b \in T : \A l \in 1..(k - 1) : a[l] = b[l]
        /\ \A a \in T : \A b \in S : b \notin T =>
             \E j \in 1..(k - 1) : a[j] < b[j] /\ \A l \in 1..(j - 1) : a[l] = b[l]
    BY <2>1 DEF Foremost
  <2>3. PICK first \in T : \A b \in T : first[k] <= b[k]
    BY <2>2, LeastAt
  <2> DEFINE U == {a \in T : a[k] = first[k]}
  <2>4. U \subseteq S /\ first \in U /\ U # {}
    BY <2>2
  <2>5. \A a, b \in U : \A l \in 1..k : a[l] = b[l]
    <3>1. \A l \in 1..k : l = k \/ l \in 1..(k - 1)
      OBVIOUS
    <3>2. QED
      BY <2>2, <3>1
  <2>6. ASSUME NEW a \in U, NEW b \in S, b \notin U
        PROVE  \E j \in 1..k : a[j] < b[j] /\ \A l \in 1..(j - 1) : a[l] = b[l]
    <3>1. a \in T /\ a[k] = first[k] /\ k \in 1..k /\ \A j \in 1..(k - 1) : j \in 1..k
      OBVIOUS
    <3>2. CASE b \notin T
      BY <2>2, <3>1, <3>2
    <3>3. CASE b \in T
      <4>1. first[k] \in Nat /\ b[k] \in Nat /\ b[k] # first[k] /\ first[k] <= b[k]
        BY <2>2, <2>3, <2>6, <3>3
      <4>2. a[k] < b[k]
        BY <3>1, <4>1
      <4>3. QED
        BY <2>2, <3>1, <3>3, <4>2
    <3>4. QED
      BY <3>2, <3>3
  <2> HIDE DEF U
  <2>7. Foremost(S, U, k) /\ k \in 0..d
    BY <2>4, <2>5, <2>6 DEF Foremost
  <2>8. QED
    BY <2>7
<1>3. PICK T : Foremost(S, T, d)
  <2> HIDE DEF Splits
  <2>1. \A k \in 0..d : k \in Splits
    BY <1>1, <1>2, Upward
  <2>2. QED
    BY <2>1 DEF Splits
<1>4. PICK a \in T : a \in S
  BY <1>3 DEF Foremost
<1>5. \A b \in S : a = b \/ LexLess(a, b)
  <2>1. ASSUME NEW b \in T
        PROVE  a = b
    <3>1. a \in [1..d -> Nat] /\ b \in [1..d -> Nat] /\ \A l \in 1..d : a[l] = b[l]
      BY <1>3, <1>4 DEF Foremost
    <3>2. QED
      BY <3>1
  <2>2. ASSUME NEW b \in S, b \notin T
        PROVE  LexLess(a, b)
    <3>1. DOMAIN a = 1..d
      BY <1>4
    <3>2. \E j \in 1..d : a[j] < b[j] /\ \A l \in 1..(j - 1) : a[l] = b[l]
      BY <1>3, <1>4, <2>2 DEF Foremost
    <3>3. QED
      BY <3>1, <3>2 DEF LexLess
  <2>3. QED
    BY <2>1, <2>2
<1>6. QED
  BY <1>4, <1>5 DEF FirstOf

\* A sequence that visits some of the tuples, none of them twice.
Visits(seq, tuples, k) ==
  /\ seq \in Seq(tuples) /\ Len(seq) = k
  /\ \A h, j \in 1..k : seq[h] = seq[j] => h = j

\* The order of tuples visits all of them once.
LEMMA InOrderIs ==
  ASSUME NEW d \in Nat, NEW tuples \in SUBSET [1..d -> Nat], IsFiniteSet(tuples),
         NEW seq, seq = InOrder(tuples)
  PROVE  Visits(seq, tuples, Cardinality(tuples))
<1> DEFINE n == Cardinality(tuples)
           Step(s, k) == Append(s, FirstOf(tuples \ {s[j] : j \in DOMAIN s}))
           Computes(f) == f = [k \in 0..n |-> IF k = 0 THEN <<>> ELSE Step(f[k - 1], k)]
           found == CHOOSE f : Computes(f)
           X == Seq(tuples)
           G == [k \in 0..n |-> {s \in X : Visits(s, tuples, k)}]
<1>1. seq = found[n]
  BY DEF InOrder, Iterated
<1>2. n \in Nat
  BY FS_CardinalityType
<1>3. \A k \in 0..n : G[k] = {s \in X : Visits(s, tuples, k)}
  OBVIOUS
<1>4. <<>> \in {s \in X : Visits(s, tuples, 0)}
  BY DEF Visits
<1>5. ASSUME NEW k \in 1..n, NEW s \in X, Visits(s, tuples, k - 1)
      PROVE  Step(s, k) \in X /\ Visits(Step(s, k), tuples, k)
  <2> DEFINE Seen == {s[j] : j \in DOMAIN s}
             a == FirstOf(tuples \ Seen)
  <2>1. /\ s \in Seq(tuples) /\ Len(s) = k - 1 /\ DOMAIN s = 1..(k - 1)
        /\ \A h, j \in 1..(k - 1) : s[h] = s[j] => h = j
    BY <1>5 DEF Visits
  <2>2. tuples \ Seen # {}
    <3>1. SUFFICES ASSUME tuples \subseteq Seen
                   PROVE  FALSE
      OBVIOUS
    <3>2. s \in Surjection(1..(k - 1), tuples)
      BY <2>1, <3>1 DEF Surjection
    <3>3. IsFiniteSet(1..(k - 1)) /\ Cardinality(1..(k - 1)) = k - 1
      <4>1. /\ IsFiniteSet(1..(k - 1))
            /\ Cardinality(1..(k - 1)) = IF 1 > k - 1 THEN 0 ELSE k - 1 - 1 + 1
        <5>1. 1 \in Int /\ k - 1 \in Int
          OBVIOUS
        <5>2. QED
          BY <5>1, FS_Interval
      <4>2. QED
        BY <4>1
    <3>4. n <= k - 1
      <4> HIDE DEF n
      <4>1. Cardinality(tuples) <= Cardinality(1..(k - 1))
        BY <3>2, <3>3, FS_Surjection
      <4>2. QED
        BY <3>3, <4>1 DEF n
    <3>5. QED
      BY <1>2, <3>4
  <2>3. a \in tuples \ Seen
    <3> DEFINE S == tuples \ Seen
    <3>1. S \in SUBSET [1..d -> Nat] /\ S # {}
      BY <2>2
    <3> HIDE DEF S
    <3>2. FirstOf(S) \in S
      BY <3>1, FirstOfIs
    <3>3. QED
      BY <3>2 DEF S
  <2>4. a \in tuples /\ \A j \in 1..(k - 1) : s[j] # a
    BY <2>1, <2>3
  <2> DEFINE t == Append(s, a)
  <2> HIDE DEF a, Seen
  <2>5. /\ t \in Seq(tuples) /\ Len(t) = k /\ t[k] = a
        /\ \A j \in 1..(k - 1) : t[j] = s[j]
    BY <2>1, <2>4
  <2> HIDE DEF t
  <2>6. \A j \in 1..k : j = k \/ j \in 1..(k - 1)
    OBVIOUS
  <2>7. ASSUME NEW h \in 1..k, NEW j \in 1..k, t[h] = t[j]
        PROVE  h = j
    <3>1. CASE h = k /\ j \in 1..(k - 1)
      BY <2>4, <2>5, <2>7, <3>1
    <3>2. CASE j = k /\ h \in 1..(k - 1)
      BY <2>4, <2>5, <2>7, <3>2
    <3>3. CASE h \in 1..(k - 1) /\ j \in 1..(k - 1)
      BY <2>1, <2>5, <2>7, <3>3
    <3>4. QED
      BY <2>6, <3>1, <3>2, <3>3
  <2>8. t \in X /\ Visits(t, tuples, k)
    BY <2>5, <2>7 DEF Visits
  <2>9. QED
    BY <2>8 DEF t, a, Seen
<1> HIDE DEF n, X, Step
<1>6. 0 \in 0..n /\ n \in 0..n /\ \A k \in 1..n : k \in 0..n /\ k - 1 \in 0..n /\ k # 0
  BY <1>2
<1>7. <<>> \in G[0] /\ \A k \in 1..n : \A x \in G[k - 1] : Step(x, k) \in G[k]
  <2> HIDE DEF G
  <2>1. \A k \in 1..n : \A x \in X : Visits(x, tuples, k - 1) =>
          Step(x, k) \in X /\ Visits(Step(x, k), tuples, k)
    BY <1>5
  <2>2. QED
    BY <1>3, <1>4, <1>6, <2>1
<1>8. \E f : Computes(f)
  <2> DEFINE step == [x \in X \X (1..n) |-> Step(x[1], x[2])]
  <2>1. \A k \in 1..n : \A x \in X : step[<<x, k>>] = Step(x, k)
    OBVIOUS
  <2>2. \A k \in 0..n : G[k] \subseteq X
    BY <1>3
  <2> HIDE DEF G, step
  <2>3. \A k \in 1..n : \A x \in G[k - 1] : step[<<x, k>>] \in G[k]
    BY <1>6, <1>7, <2>1, <2>2
  <2>4. PICK f : Computed(n, <<>>, step, f) /\ \A k \in 0..n : f[k] \in G[k]
    BY <1>2, <1>7, <2>3, StepsExist
  <2>5. \A k \in 0..n : k # 0 => k \in 1..n /\ f[k - 1] \in X
    BY <1>2, <1>6, <2>2, <2>4
  <2>6. Computes(f)
    BY <2>1, <2>4, <2>5 DEF Computed
  <2>7. QED
    BY <2>6
<1>9. \A k \in 0..n : found[k] = IF k = 0 THEN <<>> ELSE Step(found[k - 1], k)
  BY <1>8
<1> HIDE DEF found
<1>10. found[n] \in G[n]
  <2> HIDE DEF G
  <2>1. found[0] \in G[0] /\ \A k \in 1..n : found[k - 1] \in G[k - 1] => found[k] \in G[k]
    BY <1>6, <1>7, <1>9
  <2>2. \A k \in 0..n : found[k] \in G[k]
    BY <1>2, <2>1, StepsLead
  <2>3. QED
    BY <1>6, <2>2
<1>11. QED
  BY <1>1, <1>3, <1>6, <1>10 DEF n

\* The fleet with two vehicles replaced.
Replaced(fleet, g, a, b, x, y) ==
  /\ g \in Seq(VehicleType) /\ Len(g) = Len(fleet)
  /\ g[a] = x /\ g[b] = y
  /\ \A k \in 1..Len(fleet) : k # a /\ k # b => g[k] = fleet[k]

(***************************************************************************)
(* Figures of a fleet.                                                     *)
(***************************************************************************)

\* The sums of the first numbers of w.
Summed(n, w, f) == f = [k \in 0..n |-> IF k = 0 THEN 0 ELSE f[k - 1] + w[k]]
SumOf(n, w) == (CHOOSE f : Summed(n, w, f))[n]

\* What the numbers of w count, one by one.
Units(n, w) == {x \in (1..n) \X Nat : 1 <= x[2] /\ x[2] <= w[x[1]]}

\* The sums exist, so SumOf is the last of them.
LEMMA SumsExist ==
  ASSUME NEW n \in Nat, NEW w \in [1..n -> Nat]
  PROVE  \E f : Summed(n, w, f)
<1> DEFINE G == [k \in 0..n |-> Nat]
           step == [x \in Nat \X (1..n) |-> x[1] + w[x[2]]]
<1>1. /\ \A k \in 1..n : \A x \in Nat : step[<<x, k>>] = x + w[k] /\ x + w[k] \in Nat
      /\ \A k \in 0..n : G[k] = Nat
      /\ 0 \in 0..n /\ \A k \in 1..n : k \in 0..n /\ k - 1 \in 0..n
  OBVIOUS
<1> HIDE DEF G, step
<1>2. 0 \in G[0] /\ \A k \in 1..n : \A x \in G[k - 1] : step[<<x, k>>] \in G[k]
  BY <1>1
<1>3. PICK f : Computed(n, 0, step, f) /\ \A k \in 0..n : f[k] \in G[k]
  BY <1>2, StepsExist
<1>4. \A k \in 0..n : k # 0 => k \in 1..n /\ f[k - 1] \in Nat
  BY <1>1, <1>3
<1>5. Summed(n, w, f)
  BY <1>1, <1>3, <1>4 DEF Computed, Summed
<1>6. QED
  BY <1>5

\* A sum is the number of the units it adds up.
LEMMA SumCounts ==
  ASSUME NEW n \in Nat, NEW w \in [1..n -> Nat]
  PROVE  IsFiniteSet(Units(n, w)) /\ SumOf(n, w) = Cardinality(Units(n, w))
<1> DEFINE f == CHOOSE g : Summed(n, w, g)
           Good == {k \in 0..n : /\ IsFiniteSet(Units(k, w))
                                 /\ f[k] = Cardinality(Units(k, w))}
<1>1. \A k \in 0..n : f[k] = IF k = 0 THEN 0 ELSE f[k - 1] + w[k]
  <2>1. Summed(n, w, f)
    BY SumsExist
  <2> HIDE DEF f
  <2>2. QED
    BY <2>1 DEF Summed
<1>2. SumOf(n, w) = f[n]
  BY DEF SumOf
<1> HIDE DEF f
<1>3. 0 \in Good
  <2>1. Units(0, w) = {} /\ 0 \in 0..n /\ f[0] = 0
    BY <1>1 DEF Units
  <2>2. QED
    BY <2>1, FS_EmptySet
<1>4. ASSUME NEW k \in 1..n, k - 1 \in Good
      PROVE  k \in Good
  <2> DEFINE A == Units(k - 1, w)
             B == {k} \X (1..w[k])
  <2>1. IsFiniteSet(A) /\ f[k - 1] = Cardinality(A) /\ w[k] \in Nat /\ k \in 0..n /\ k # 0
    BY <1>4
  <2>2. Units(k, w) = A \cup B /\ A \cap B = {}
    <3>1. \A j : j \in 1..k <=> j \in 1..(k - 1) \/ j = k
      OBVIOUS
    <3>2. k \notin 1..(k - 1)
      OBVIOUS
    <3>3. QED
      BY <2>1, <3>1, <3>2 DEF Units
  <2>3. IsFiniteSet(B) /\ Cardinality(B) = w[k]
    <3>1. IsFiniteSet(1..w[k]) /\ Cardinality(1..w[k]) = w[k]
      <4>1. 1 \in Int /\ w[k] \in Int
        BY <2>1
      <4>2. /\ IsFiniteSet(1..w[k])
            /\ Cardinality(1..w[k]) = IF 1 > w[k] THEN 0 ELSE w[k] - 1 + 1
        BY <4>1, FS_Interval
      <4>3. QED
        BY <2>1, <4>2
    <3>2. IsFiniteSet({k}) /\ Cardinality({k}) = 1
      BY FS_Singleton
    <3>3. IsFiniteSet(B) /\ Cardinality(B) = Cardinality({k}) * Cardinality(1..w[k])
      BY <3>1, <3>2, FS_Product
    <3> HIDE DEF B
    <3>4. QED
      BY <2>1, <3>1, <3>2, <3>3
  <2> HIDE DEF A, B
  <2>4. /\ IsFiniteSet(A \cup B)
        /\ Cardinality(A \cup B) = Cardinality(A) + Cardinality(B) - Cardinality({})
    BY <2>1, <2>2, <2>3, FS_Union
  <2>5. Cardinality({}) = 0 /\ Cardinality(A) \in Nat
    BY <2>1, FS_EmptySet, FS_CardinalityType
  <2>6. f[k] = f[k - 1] + w[k]
    BY <1>1, <2>1
  <2>7. IsFiniteSet(Units(k, w)) /\ f[k] = Cardinality(Units(k, w))
    BY <2>1, <2>2, <2>3, <2>4, <2>5, <2>6
  <2>8. QED
    BY <2>1, <2>7
<1>5. n \in Good
  <2> HIDE DEF Good
  <2>1. \A k \in 0..n : k \in Good
    BY <1>3, <1>4, Upward
  <2>2. QED
    BY <2>1
<1>6. QED
  BY <1>2, <1>5

\* A sum of some of the numbers, or of smaller ones, is not greater.
LEMMA SumsCompare ==
  ASSUME NEW n \in Nat, NEW w \in [1..n -> Nat], NEW m \in Nat, NEW u \in [1..m -> Nat],
         NEW p \in [1..m -> 1..n], \A j, k \in 1..m : p[j] = p[k] => j = k,
         \A k \in 1..m : u[k] <= w[p[k]]
  PROVE  SumOf(m, u) \in Nat /\ SumOf(n, w) \in Nat /\ SumOf(m, u) <= SumOf(n, w)
<1> DEFINE S == Units(m, u)
           T == Units(n, w)
           f == [x \in S |-> <<p[x[1]], x[2]>>]
<1>1. /\ IsFiniteSet(S) /\ SumOf(m, u) = Cardinality(S)
      /\ IsFiniteSet(T) /\ SumOf(n, w) = Cardinality(T)
  BY SumCounts
<1>2. f \in Injection(S, T)
  <2>1. ASSUME NEW x \in S
        PROVE  f[x] \in T
    <3>1. /\ x[1] \in 1..m /\ x[2] \in Nat /\ 1 <= x[2] /\ x[2] <= u[x[1]]
          /\ f[x] = <<p[x[1]], x[2]>>
      BY DEF Units
    <3>2. p[x[1]] \in 1..n /\ u[x[1]] <= w[p[x[1]]] /\ u[x[1]] \in Nat /\ w[p[x[1]]] \in Nat
      BY <3>1
    <3>3. x[2] <= w[p[x[1]]]
      BY <3>1, <3>2, SMTT(60)
    <3> HIDE DEF f
    <3>4. QED
      BY <3>1, <3>2, <3>3 DEF Units
  <2>2. ASSUME NEW x \in S, NEW y \in S, f[x] = f[y]
        PROVE  x = y
    <3>1. x \in (1..m) \X Nat /\ y \in (1..m) \X Nat
      BY DEF Units
    <3>2. p[x[1]] = p[y[1]] /\ x[2] = y[2]
      BY <2>2
    <3>3. x[1] = y[1]
      BY <3>1, <3>2
    <3>4. x = <<x[1], x[2]>> /\ y = <<y[1], y[2]>>
      BY <3>1
    <3>5. QED
      BY <3>2, <3>3, <3>4
  <2>3. f \in [S -> T]
    BY <2>1
  <2> HIDE DEF f, S, T
  <2>4. QED
    BY <2>2, <2>3 DEF Injection, IsInjective
<1> HIDE DEF S, T, f
<1>3. Cardinality(S) <= Cardinality(T)
  BY <1>1, <1>2, FS_Injection
<1>4. QED
  BY <1>1, <1>3, FS_CardinalityType

\* Vehicles that travel, real ones or phony.
Travelling(fleet) ==
  fleet \in Seq(VehicleType) /\ \A k \in 1..Len(fleet) : Travels(fleet[k])

\* What is added up over the vehicles of a fleet, as numbers by position.
Durations(fleet) == [k \in 1..Len(fleet) |-> duration(fleet[k])]
Waits(fleet) == [k \in 1..Len(fleet) |-> total_wait_time(fleet[k])]
TravelTimes(fleet) == [k \in 1..Len(fleet) |-> total_travel_time(fleet[k])]
Twvs(fleet) == [k \in 1..Len(fleet) |-> twvTot(fleet[k])]
Cvs(fleet) == [k \in 1..Len(fleet) |-> cvTot(fleet[k])]

\* The figures of a fleet are sums.
LEMMA FiguresAreSums ==
  ASSUME NEW fleet \in Seq(VehicleType)
  PROVE  /\ FleetDuration(fleet) = SumOf(Len(fleet), Durations(fleet))
         /\ FleetWait(fleet) = SumOf(Len(fleet), Waits(fleet))
         /\ FleetObjective(fleet) = SumOf(Len(fleet), TravelTimes(fleet))
         /\ FleetTwv(fleet) = SumOf(Len(fleet), Twvs(fleet))
         /\ FleetCv(fleet) = SumOf(Len(fleet), Cvs(fleet))
<1>1. Len(fleet) \in Nat
  OBVIOUS
<1>2. \A k \in 0..Len(fleet) : k # 0 =>
        /\ Durations(fleet)[k] = duration(fleet[k])
        /\ Waits(fleet)[k] = total_wait_time(fleet[k])
        /\ TravelTimes(fleet)[k] = total_travel_time(fleet[k])
        /\ Twvs(fleet)[k] = twvTot(fleet[k])
        /\ Cvs(fleet)[k] = cvTot(fleet[k])
  <2>1. \A k \in 0..Len(fleet) : k # 0 => k \in 1..Len(fleet)
    BY <1>1
  <2>2. QED
    BY <2>1 DEF Durations, Waits, TravelTimes, Twvs, Cvs
<1>3. FleetDuration(fleet) = SumOf(Len(fleet), Durations(fleet))
  BY <1>2, Zenon DEF FleetDuration, Total, Iterated, SumOf, Summed
<1>4. FleetWait(fleet) = SumOf(Len(fleet), Waits(fleet))
  BY <1>2, Zenon DEF FleetWait, Total, Iterated, SumOf, Summed
<1>5. FleetObjective(fleet) = SumOf(Len(fleet), TravelTimes(fleet))
  BY <1>2, Zenon DEF FleetObjective, Total, Iterated, SumOf, Summed
<1>6. FleetTwv(fleet) = SumOf(Len(fleet), Twvs(fleet))
  BY <1>2, Zenon DEF FleetTwv, Total, Iterated, SumOf, Summed
<1>7. FleetCv(fleet) = SumOf(Len(fleet), Cvs(fleet))
  BY <1>2, Zenon DEF FleetCv, Total, Iterated, SumOf, Summed
<1>8. QED
  BY <1>3, <1>4, <1>5, <1>6, <1>7

\* A vehicle does not leave a later stop earlier.
LEMMA DeparturesGrow ==
  ASSUME NEW v \in Truck, NEW path \in Seq(Stop), Coherent(v, path)
  PROVE  \A k \in 1..Len(path) : path[1].departure <= path[k].departure
<1> DEFINE n == Len(path)
           Good == {k \in 0..n : k > 0 => path[1].departure <= path[k].departure}
<1>1. /\ n \in Nat
      /\ \A k \in 1..n : path[k].departure \in Nat /\ path[k].arrival \in Nat
  BY StopFigures
<1>2. 0 \in Good
  BY <1>1
<1>3. ASSUME NEW k \in 1..n, k - 1 \in Good
      PROVE  k \in Good
  <2>1. CASE k = 1
    BY <1>1, <2>1
  <2>2. CASE k > 1
    <3>1. k - 1 \in 1..n /\ k \in 0..n /\ k - 1 > 0 /\ 1 \in 1..n
      BY <1>1, <2>2
    <3> DEFINE before == path[k - 1]
               leg == TravelTime(before.node, path[k].node, before.departure, SpeedOf(v))
    <3>2. path[1].departure <= before.departure
      BY <1>3, <3>1
    <3>3. before.node \in Node /\ path[k].node \in Node
      BY <3>1, StopTimes
    <3>4. leg \in Nat
      BY <1>1, <3>1, <3>3, TripIsNatural
    <3>5. path[k].arrival = before.departure + leg /\ path[k].departure >= path[k].arrival
      BY <2>2, StopTimes
    <3> HIDE DEF leg
    <3>6. path[1].departure <= path[k].departure
      BY <1>1, <3>1, <3>2, <3>4, <3>5, SMTT(60)
    <3>7. QED
      BY <3>1, <3>6
  <2>3. QED
    BY <1>1, <2>1, <2>2
<1>4. \A k \in 0..n : k \in Good
  <2> HIDE DEF Good, n
  <2>1. QED
    BY <1>1, <1>2, <1>3, Upward
<1>5. \A k \in 1..n : k \in 0..n /\ k > 0
  BY <1>1
<1>6. QED
  BY <1>4, <1>5

\* The figures of a vehicle are natural numbers.
LEMMA VehicleFigures ==
  ASSUME NEW t, Travels(t)
  PROVE  /\ duration(t) \in Nat /\ total_wait_time(t) \in Nat /\ total_travel_time(t) \in Nat
         /\ twvTot(t) \in Nat /\ cvTot(t) \in Nat
<1> DEFINE n == Len(t.path)
<1>1. /\ t.idx \in Truck /\ t.path \in Seq(Stop) /\ Coherent(t.idx, t.path)
      /\ n \in Nat /\ n >= 2
  BY VehicleFacts DEF Travels, FromStartToEnd
<1>2. n \in 1..n /\ n - 1 \in 1..n /\ n > 1 /\ 1 \in 1..n
  BY <1>1
<1>3. t.path[n] \in Stop
  <2> HIDE DEF Stop
  <2>1. QED
    BY <1>1, <1>2
<1>4. /\ t.path[n].wait \in Nat /\ t.path[n].travel \in Nat
      /\ t.path[n].twvTot \in Nat /\ t.path[n].cvTot \in Nat
  BY <1>3 DEF Stop
<1>5. Last(t.path) = t.path[n] /\ Head(t.path) = t.path[1]
  BY <1>1 DEF Last
<1>6. t.path[n].arrival - t.path[1].departure \in Nat
  <2> DEFINE before == t.path[n - 1]
             leg == TravelTime(before.node, t.path[n].node, before.departure, SpeedOf(t.idx))
  <2>1. before.departure \in Nat /\ t.path[1].departure \in Nat
    BY <1>1, <1>2, StopTimes
  <2>2. before.node \in Node /\ t.path[n].node \in Node
    BY <1>1, <1>2, StopTimes
  <2>3. t.path[n].arrival = before.departure + leg
    BY <1>1, <1>2, StopTimes
  <2>4. leg \in Nat
    BY <1>1, <2>1, <2>2, TripIsNatural
  <2>5. t.path[1].departure <= before.departure
    BY <1>1, <1>2, DeparturesGrow
  <2> HIDE DEF leg
  <2>6. QED
    BY <2>1, <2>3, <2>4, <2>5, SMTT(60)
<1>7. QED
  BY <1>4, <1>5, <1>6 DEF duration, total_wait_time, total_travel_time, twvTot, cvTot

\* So are the figures of a fleet.
LEMMA FiguresAreNatural ==
  ASSUME NEW fleet, Travelling(fleet)
  PROVE  /\ FleetDuration(fleet) \in Nat /\ FleetWait(fleet) \in Nat
         /\ FleetObjective(fleet) \in Nat
         /\ FleetTwv(fleet) \in Nat /\ FleetCv(fleet) \in Nat
<1>1. fleet \in Seq(VehicleType) /\ Len(fleet) \in Nat
  BY DEF Travelling
<1>2. /\ Durations(fleet) \in [1..Len(fleet) -> Nat]
      /\ Waits(fleet) \in [1..Len(fleet) -> Nat]
      /\ TravelTimes(fleet) \in [1..Len(fleet) -> Nat]
      /\ Twvs(fleet) \in [1..Len(fleet) -> Nat]
      /\ Cvs(fleet) \in [1..Len(fleet) -> Nat]
  BY VehicleFigures DEF Travelling, Durations, Waits, TravelTimes, Twvs, Cvs
<1>3. \A w \in [1..Len(fleet) -> Nat] : SumOf(Len(fleet), w) \in Nat
  BY <1>1, SumCounts, FS_CardinalityType
<1>4. QED
  BY <1>1, <1>2, <1>3, FiguresAreSums

\* The same vehicles in another order take as long.
LEMMA SameDuration ==
  ASSUME NEW fleet, Travelling(fleet), NEW g, Selects(fleet, g, 1..Len(fleet))
  PROVE  FleetDuration(g) = FleetDuration(fleet)
<1> DEFINE n == Len(fleet)
           m == Len(g)
           w == Durations(fleet)
           u == Durations(g)
<1>1. fleet \in Seq(VehicleType) /\ n \in Nat /\ \A k \in 1..n : Travels(fleet[k])
  BY DEF Travelling
<1>2. PICK p \in [1..m -> 1..n] :
        /\ \A j, k \in 1..m : p[j] = p[k] => j = k
        /\ \A l \in 1..n : \E k \in 1..m : p[k] = l
        /\ \A k \in 1..m : g[k] = fleet[p[k]]
  BY DEF Selects
<1>3. g \in Seq(VehicleType) /\ m \in Nat
  BY DEF Selects
<1> HIDE DEF n, m
<1>4. \A k \in 1..n : duration(fleet[k]) \in Nat
  BY <1>1, VehicleFigures
<1>5. /\ w \in [1..n -> Nat] /\ \A l \in 1..n : w[l] = duration(fleet[l])
      /\ u \in [1..m -> Nat] /\ \A k \in 1..m : u[k] = w[p[k]]
  BY <1>2, <1>4 DEF Durations, n, m
<1> HIDE DEF w, u
<1>6. SumOf(m, u) \in Nat /\ SumOf(n, w) \in Nat /\ SumOf(m, u) <= SumOf(n, w)
  <2>1. \A k \in 1..m : u[k] <= w[p[k]]
    BY <1>5
  <2>2. QED
    BY <1>1, <1>2, <1>3, <1>5, <2>1, SumsCompare
<1>7. SumOf(n, w) <= SumOf(m, u)
  <2> DEFINE q == [l \in 1..n |-> CHOOSE k \in 1..m : p[k] = l]
  <2>1. \A l \in 1..n : q[l] \in 1..m /\ p[q[l]] = l
    BY <1>2
  <2>2. q \in [1..n -> 1..m]
    BY <2>1
  <2> HIDE DEF q
  <2>3. \A j, k \in 1..n : q[j] = q[k] => j = k
    BY <2>1
  <2>4. \A l \in 1..n : w[l] <= u[q[l]]
    BY <1>5, <2>1
  <2>5. QED
    BY <1>1, <1>3, <1>5, <2>2, <2>3, <2>4, SumsCompare
<1>8. QED
  BY <1>1, <1>3, <1>6, <1>7, FiguresAreSums DEF n, m, w, u

===============================================================================
