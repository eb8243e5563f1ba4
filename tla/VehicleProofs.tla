---------------------------- MODULE VehicleProofs ----------------------------
(***************************************************************************)
(* The vehicle is as it should be after every operation, for every problem *)
(* and all the stops a user may give: its caches are right, its path and   *)
(* its orders agree, and the loops of hillClimb compute what the operator  *)
(* hillClimb states.                                                       *)
(*                                                                         *)
(* The inductive invariant says where the search stands.  The path of the  *)
(* vehicle is the path it started with and the pickup at pick, or the      *)
(* order at pick and drop; and best is the first of the cheapest pairs of  *)
(* positions among those the loops have been at.                           *)
(***************************************************************************)
EXTENDS Vehicle, VehicleRouteProofs

\* The feasible pairs of positions that the loops come to before <<p, d>>.
Tried(t, o, p, d) ==
  {pq \in FeasiblePositions(t, o) : pq[1] < p \/ (pq[1] = p /\ pq[2] < d)}

\* Of these pairs of positions, b is the first of the cheapest ones.
FirstOfCheapest(b, t, o, pairs, pq) ==
  /\ b = [pick |-> pq[1], drop |-> pq[2], objective |-> ObjectiveAt(t, o, pq)]
  /\ \A r \in pairs :
       \/ ObjectiveAt(t, o, pq) < ObjectiveAt(t, o, r)
       \/ /\ ObjectiveAt(t, o, pq) = ObjectiveAt(t, o, r)
          /\ pq[1] < r[1] \/ (pq[1] = r[1] /\ pq[2] <= r[2])

BestOfPairs(b, t, o, pairs) ==
  \/ b = NotFound /\ pairs = {}
  \/ \E pq \in pairs : FirstOfCheapest(b, t, o, pairs, pq)

-----------------------------------------------------------------------------

(***************************************************************************)
(* The inductive invariant.                                                *)
(***************************************************************************)

\* What a search was called with.
Called ==
  /\ order \in Order /\ Balanced(start)
  /\ pick \in 0..Len(start.path) /\ drop \in 0..(Len(start.path) + 1)

\* Until it inserts the order, a search changes only the path.
OnlyPathMoves ==
  truck \in VehicleType /\ SameVehicle(start, truck) /\ truck.orders = start.orders

\* The ranges are those of the path the search started with.
RangesOfStart ==
  /\ pick_high = getPosHighLimit(start.idx, start.path, Pickup(order))
  /\ drop_low = getPosLowLimit(start.path, Delivery(order)) + 1
  /\ drop_high = getPosHighLimit(start.idx, start.path, Delivery(order)) + 1
  /\ getPosLowLimit(start.path, Pickup(order)) <= pick
  /\ drop_low <= drop_high

AtLimits == truck = start /\ best = NotFound

AtPick ==
  /\ Coherent(truck.idx, truck.path)
  /\ HasInserted(start.path, pick, Pickup(order), truck.path)
  /\ BestOfPairs(best, start, order, Tried(start, order, pick, 0))

\* The order is on the path.
HasBoth ==
  /\ Coherent(truck.idx, truck.path)
  /\ HasOrder(start.path, order, pick, drop, truck.path)
  /\ pick <= pick_high /\ pick < drop

AtDrop ==
  /\ HasBoth /\ drop_low <= drop
  /\ BestOfPairs(best, start, order, Tried(start, order, pick, drop))

AtLift ==
  /\ HasBoth
  /\ BestOfPairs(best, start, order, Tried(start, order, pick + 1, 0))

\* The lift of the delivery left the caches behind it as they were.
AtInsert ==
  /\ \A p \in 1..Len(truck.path) : p < pick => Right(truck.idx, truck.path, p)
  /\ HasInserted(start.path, pick, Pickup(order), truck.path)
  /\ BestOfPairs(best, start, order, FeasiblePositions(start, order))

AtDone == truck = hillClimb(start, order)

SearchIsSound ==
  /\ pc \in {"idle", "limits", "pick", "drop", "lift", "insert", "done"}
  /\ pc = "idle" => Balanced(truck) /\ best = NotFound /\ pick = 0 /\ drop = 0
  /\ pc # "idle" => Called
  /\ pc \in {"limits", "pick", "drop", "lift", "insert"} => OnlyPathMoves
  /\ pc \in {"pick", "drop", "lift", "insert"} => RangesOfStart /\ pick >= 2
  /\ pc = "limits" => AtLimits
  /\ pc = "pick" => AtPick
  /\ pc = "drop" => AtDrop
  /\ pc = "lift" => AtLift
  /\ pc = "insert" => AtInsert
  /\ pc = "done" => AtDone

(***************************************************************************)
(* The pairs of positions and the best of them.                            *)
(***************************************************************************)

\* The pairs that are tried are in the ranges.
LEMMA PairsInRanges ==
  ASSUME NEW t, Balanced(t), NEW o, NEW pq \in FeasiblePositions(t, o)
  PROVE  /\ pq[1] \in getPosLowLimit(t.path, Pickup(o))
                        ..getPosHighLimit(t.idx, t.path, Pickup(o))
         /\ pq[2] \in (getPosLowLimit(t.path, Delivery(o)) + 1)
                        ..(getPosHighLimit(t.idx, t.path, Delivery(o)) + 1)
         /\ pq[1] < pq[2]
         /\ pq[1] \in 2..Len(t.path) /\ pq[2] \in 2..(Len(t.path) + 1)
         /\ pq = <<pq[1], pq[2]>>
<1>1. pq \in HillClimbPositions(t, o)
  BY DEF FeasiblePositions
<1>2. /\ pq[1] \in 2..Len(t.path) /\ pq[2] \in 2..(Len(t.path) + 1) /\ pq[1] < pq[2]
      /\ pq = <<pq[1], pq[2]>>
  BY <1>1, PairsInside DEF Balanced
<1> DEFINE A == getPosLowLimit(t.path, Pickup(o))..getPosHighLimit(t.idx, t.path, Pickup(o))
           B == (getPosLowLimit(t.path, Delivery(o)) + 1)
                  ..(getPosHighLimit(t.idx, t.path, Delivery(o)) + 1)
<1>3. pq \in A \X B
  BY <1>1 DEF HillClimbPositions
<1> HIDE DEF A, B
<1>4. pq[1] \in A /\ pq[2] \in B
  BY <1>3
<1>5. QED
  BY <1>2, <1>4 DEF A, B

\* A pair in the ranges is tried.
LEMMA PairIsTried ==
  ASSUME NEW t, NEW o, NEW p, NEW q,
         p \in getPosLowLimit(t.path, Pickup(o))..getPosHighLimit(t.idx, t.path, Pickup(o)),
         q \in (getPosLowLimit(t.path, Delivery(o)) + 1)
                 ..(getPosHighLimit(t.idx, t.path, Delivery(o)) + 1),
         p < q
  PROVE  <<p, q>> \in HillClimbPositions(t, o)
  BY DEF HillClimbPositions

\* A vehicle with the order at p and q is feasible if the one that is made by
\* inserting it there is, and costs the same.
LEMMA SameVerdict ==
  ASSUME NEW t, Balanced(t), NEW o \in Order,
         NEW p \in 2..Len(t.path), NEW q \in 2..(Len(t.path) + 1), p < q,
         NEW u \in VehicleType, SameVehicle(t, u), Coherent(u.idx, u.path),
         HasOrder(t.path, o, p, q, u.path)
  PROVE  /\ is_feasible(u) <=> is_feasible(WithOrderAtPair(t, o, <<p, q>>))
         /\ objective(u) = ObjectiveAt(t, o, <<p, q>>)
<1> DEFINE w == WithOrderAt(t, o, p, q)
<1>1. t \in VehicleType /\ Coherent(t.idx, t.path) /\ Len(t.path) \in Nat
  BY VehicleFacts DEF Balanced, Travels
<1>2. p \in 1..(Len(t.path) + 1) /\ q \in 1..(Len(t.path) + 2)
  BY <1>1
<1>3. Gained(t, o, w) /\ HasOrder(t.path, o, p, q, w.path)
  BY <1>1, <1>2, OrderIsAt
<1>4. w = WithOrderAtPair(t, o, <<p, q>>)
  BY DEF WithOrderAtPair
<1> HIDE DEF w
<1>5. SameNodes(u.path, w.path)
  BY <1>3 DEF HasOrder, SameNodes
<1>6. u.idx = t.idx /\ w.idx = t.idx /\ Coherent(w.idx, w.path)
  BY <1>3 DEF Gained, SameVehicle
<1>7. u.path \in Seq(Stop) /\ w.path \in Seq(Stop)
  BY <1>3 DEF HasOrder
<1>8. u.path = w.path
  BY <1>5, <1>6, <1>7, CoherentOnce
<1>9. u.user_twv = w.user_twv /\ u.user_cv = w.user_cv /\ u.idx = w.idx
  BY <1>3, <1>6 DEF Gained, SameVehicle
<1>10. is_feasible(u) <=> is_feasible(w)
  BY <1>8, <1>9 DEF is_feasible, twvTot, cvTot
<1>11. objective(u) = objective(w)
  BY <1>8, <1>9 DEF objective, total_travel_time, is_phony
<1>12. QED
  BY <1>4, <1>10, <1>11 DEF ObjectiveAt

\* The best of all pairs is what hillClimb chooses.
LEMMA BestIsChosen ==
  ASSUME NEW t, Balanced(t), NEW o \in Order, NEW b,
         BestOfPairs(b, t, o, FeasiblePositions(t, o))
  PROVE  /\ b = NotFound => hillClimb(t, o) = t
         /\ b # NotFound =>
              /\ hillClimb(t, o) = WithOrderAt(t, o, b.pick, b.drop)
              /\ b.pick \in 2..Len(t.path) /\ b.drop \in 2..(Len(t.path) + 1)
              /\ b.pick < b.drop
<1> DEFINE S == FeasiblePositions(t, o)
           C == Cheapest(t, o, S)
           first == FirstPair(C)
<1>1. CASE S = {}
  <2>1. b = NotFound
    BY <1>1 DEF BestOfPairs
  <2>2. hillClimb(t, o) = t
    BY <1>1 DEF hillClimb, BestOf
  <2>3. QED
    BY <2>1, <2>2
<1>2. CASE S # {}
  <2>1. PICK pq \in S : FirstOfCheapest(b, t, o, S, pq)
    BY <1>2 DEF BestOfPairs
  <2>2. /\ b.pick = pq[1] /\ b.drop = pq[2]
        /\ \A r \in S :
             \/ ObjectiveAt(t, o, pq) < ObjectiveAt(t, o, r)
             \/ /\ ObjectiveAt(t, o, pq) = ObjectiveAt(t, o, r)
                /\ pq[1] < r[1] \/ (pq[1] = r[1] /\ pq[2] <= r[2])
    BY <2>1 DEF FirstOfCheapest
  <2>3. /\ pq[1] \in 2..Len(t.path) /\ pq[2] \in 2..(Len(t.path) + 1) /\ pq[1] < pq[2]
        /\ pq = <<pq[1], pq[2]>>
    BY PairsInRanges
  <2>4. b # NotFound
    BY <2>2, <2>3 DEF NotFound
  <2>5. S \in SUBSET HillClimbPositions(t, o)
    BY DEF FeasiblePositions
  <2> HIDE DEF S
  <2>6. /\ C \in SUBSET (Nat \X Nat) /\ C # {} /\ first \in C /\ first \in S
    BY <1>2, <2>5, ChosenPair DEF Balanced
  <2>7. \A r \in C : \/ first[1] < r[1]
                     \/ first[1] = r[1] /\ first[2] <= r[2]
    <3> HIDE DEF C
    <3>1. QED
      BY <2>6, FirstPairIs
  <2>8. \A r \in S : ObjectiveAt(t, o, r) \in Nat
    <3>1. TAKE r \in S
    <3>2. r \in HillClimbPositions(t, o)
      BY <2>5
    <3>3. /\ r[1] \in 2..Len(t.path) /\ r[2] \in 2..(Len(t.path) + 1) /\ r[1] < r[2]
      BY <3>2, PairsInside DEF Balanced
    <3>4. Travels(WithOrderAt(t, o, r[1], r[2]))
      BY <3>3, WithOrderAtTravels DEF Balanced
    <3>5. objective(WithOrderAt(t, o, r[1], r[2])) \in Nat
      BY <3>4, ObjectiveIsNatural
    <3>6. QED
      BY <3>5 DEF ObjectiveAt, WithOrderAtPair
  <2>9. pq \in C
    BY <2>2, <2>8 DEF Cheapest
  <2>10. first \in S /\ ObjectiveAt(t, o, first) <= ObjectiveAt(t, o, pq)
    BY <2>6 DEF Cheapest
  <2>11. \/ pq[1] < first[1] \/ (pq[1] = first[1] /\ pq[2] <= first[2])
    <3>1. ObjectiveAt(t, o, first) \in Nat /\ ObjectiveAt(t, o, pq) \in Nat
      BY <2>8, <2>10
    <3>2. \/ ObjectiveAt(t, o, pq) < ObjectiveAt(t, o, first)
          \/ pq[1] < first[1] \/ (pq[1] = first[1] /\ pq[2] <= first[2])
      BY <2>2, <2>10
    <3> HIDE DEF first, C
    <3>3. ~(ObjectiveAt(t, o, pq) < ObjectiveAt(t, o, first))
      BY <2>10, <3>1
    <3>4. QED
      BY <3>2, <3>3
  <2>12. first = pq
    <3>1. first \in Nat \X Nat /\ pq \in Nat \X Nat
      BY <2>6, <2>9
    <3>2. first[1] < pq[1] \/ (first[1] = pq[1] /\ first[2] <= pq[2])
      BY <2>7, <2>9
    <3> HIDE DEF first, C
    <3>3. first[1] \in Nat /\ first[2] \in Nat /\ first = <<first[1], first[2]>>
      BY <3>1
    <3>4. first[1] = pq[1] /\ first[2] = pq[2]
      BY <2>3, <2>11, <3>2, <3>3
    <3>5. QED
      BY <2>3, <3>3, <3>4
  <2>13. hillClimb(t, o) = WithOrderAtPair(t, o, first)
    BY <1>2 DEF hillClimb, BestOf, S
  <2>14. QED
    BY <2>2, <2>3, <2>4, <2>12, <2>13 DEF WithOrderAtPair
<1>3. QED
  BY <1>1, <1>2

\* The pair <<p, d>> has been looked at.
LEMMA BestOfOneMore ==
  ASSUME NEW t, Balanced(t), NEW o \in Order, NEW p \in Nat, NEW d \in Nat,
         <<p, d>> \in HillClimbPositions(t, o),
         NEW b, BestOfPairs(b, t, o, Tried(t, o, p, d)),
         NEW u, is_feasible(u) <=> is_feasible(WithOrderAtPair(t, o, <<p, d>>)),
         objective(u) = ObjectiveAt(t, o, <<p, d>>),
         NEW c,
         c = IF is_feasible(u) /\ (b # NotFound => objective(u) < b.objective)
             THEN [pick |-> p, drop |-> d, objective |-> objective(u)]
             ELSE b
  PROVE  BestOfPairs(c, t, o, Tried(t, o, p, d + 1))
<1> DEFINE pq == <<p, d>>
           F == FeasiblePositions(t, o)
           S == Tried(t, o, p, d)
           T == Tried(t, o, p, d + 1)
<1>1. \A r \in F : /\ r[1] \in Nat /\ r[2] \in Nat /\ r = <<r[1], r[2]>>
                   /\ ObjectiveAt(t, o, r) \in Nat
  <2>1. TAKE r \in F
  <2>2. /\ r[1] \in 2..Len(t.path) /\ r[2] \in 2..(Len(t.path) + 1) /\ r[1] < r[2]
        /\ r = <<r[1], r[2]>>
    BY PairsInRanges
  <2>3. Travels(WithOrderAt(t, o, r[1], r[2]))
    BY <2>2, WithOrderAtTravels DEF Balanced
  <2>4. objective(WithOrderAt(t, o, r[1], r[2])) \in Nat
    BY <2>3, ObjectiveIsNatural
  <2>5. QED
    BY <2>2, <2>4 DEF ObjectiveAt, WithOrderAtPair
<1>2. pq \in F <=> is_feasible(u)
  BY DEF FeasiblePositions
<1>3. S \subseteq F /\ T \subseteq F /\ \A r \in S : r[1] < p \/ (r[1] = p /\ r[2] < d)
  BY DEF Tried
<1>4. \A r \in F : r \in T <=> r \in S \/ r = pq
  <2>1. TAKE r \in F
  <2>2. r[1] \in Nat /\ r[2] \in Nat /\ r = <<r[1], r[2]>>
    BY <1>1
  <2>3. r = pq <=> r[1] = p /\ r[2] = d
    BY <2>2
  <2>4. r \in T <=> r[1] < p \/ (r[1] = p /\ r[2] < d + 1)
    BY DEF Tried
  <2>5. r \in S <=> r[1] < p \/ (r[1] = p /\ r[2] < d)
    BY DEF Tried
  <2>6. QED
    BY <2>2, <2>3, <2>4, <2>5
<1> HIDE DEF S, T, F
<1>5. (b = NotFound /\ S = {}) \/ \E r \in S : FirstOfCheapest(b, t, o, S, r)
  BY DEF BestOfPairs, S
<1>6. CASE ~is_feasible(u)
  <2>1. T = S
    BY <1>2, <1>3, <1>4, <1>6
  <2>2. c = b
    BY <1>6
  <2>3. QED
    BY <1>5, <2>1, <2>2 DEF BestOfPairs, T
<1>7. CASE is_feasible(u) /\ b = NotFound
  <2>1. S = {}
    <3>1. ASSUME NEW r \in S, FirstOfCheapest(b, t, o, S, r)
          PROVE  FALSE
      <4>1. b.pick = r[1] /\ r \in F
        BY <1>3, <3>1 DEF FirstOfCheapest
      <4>2. r[1] \in 2..Len(t.path)
        BY <4>1, PairsInRanges DEF F
      <4>3. QED
        BY <1>7, <4>1, <4>2 DEF NotFound
    <3>2. QED
      BY <1>5, <3>1
  <2>2. T = {pq}
    BY <1>2, <1>3, <1>4, <1>7, <2>1
  <2>3. c = [pick |-> p, drop |-> d, objective |-> ObjectiveAt(t, o, pq)]
    BY <1>7
  <2>4. pq[1] = p /\ pq[2] = d
    OBVIOUS
  <2> HIDE DEF pq
  <2>5. FirstOfCheapest(c, t, o, T, pq)
    BY <2>2, <2>3, <2>4 DEF FirstOfCheapest
  <2>6. QED
    BY <2>2, <2>5 DEF BestOfPairs, T
<1>8. CASE is_feasible(u) /\ b # NotFound
  <2>1. PICK r \in S : FirstOfCheapest(b, t, o, S, r)
    BY <1>5, <1>8
  <2>2. /\ b.objective = ObjectiveAt(t, o, r)
        /\ \A s \in S :
             \/ ObjectiveAt(t, o, r) < ObjectiveAt(t, o, s)
             \/ /\ ObjectiveAt(t, o, r) = ObjectiveAt(t, o, s)
                /\ r[1] < s[1] \/ (r[1] = s[1] /\ r[2] <= s[2])
    BY <2>1 DEF FirstOfCheapest
  <2>3. pq \in T /\ pq \in F /\ S \subseteq T /\ \A s \in T : s \in S \/ s = pq
    BY <1>2, <1>3, <1>4, <1>8
  <2>4. pq[1] = p /\ pq[2] = d
    OBVIOUS
  <2> HIDE DEF pq
  <2>5. ObjectiveAt(t, o, r) \in Nat /\ ObjectiveAt(t, o, pq) \in Nat
    BY <1>1, <1>3, <2>3
  <2>6. CASE ObjectiveAt(t, o, pq) < ObjectiveAt(t, o, r)
    <3>1. c = [pick |-> pq[1], drop |-> pq[2], objective |-> ObjectiveAt(t, o, pq)]
      BY <1>8, <2>2, <2>4, <2>6 DEF pq
    <3>2. \A s \in T : \/ ObjectiveAt(t, o, pq) < ObjectiveAt(t, o, s)
                       \/ s = pq
      <4>1. TAKE s \in T
      <4>2. ObjectiveAt(t, o, s) \in Nat
        BY <1>1, <1>3
      <4>3. s \in S => ObjectiveAt(t, o, r) <= ObjectiveAt(t, o, s)
        BY <2>2, <2>5, <4>2
      <4>4. s \in S => ObjectiveAt(t, o, pq) < ObjectiveAt(t, o, s)
        BY <2>5, <2>6, <4>2, <4>3
      <4>5. QED
        BY <2>3, <4>4
    <3>3. FirstOfCheapest(c, t, o, T, pq)
      BY <2>4, <3>1, <3>2 DEF FirstOfCheapest
    <3>4. QED
      BY <2>3, <3>3 DEF BestOfPairs, T
  <2>7. CASE ~(ObjectiveAt(t, o, pq) < ObjectiveAt(t, o, r))
    <3>1. c = b
      BY <1>8, <2>2, <2>7 DEF pq
    <3>2. r[1] < pq[1] \/ (r[1] = pq[1] /\ r[2] <= pq[2])
      <4>1. r[1] < p \/ (r[1] = p /\ r[2] < d)
        BY <1>3
      <4>2. r[2] \in Nat
        BY <1>1, <1>3
      <4>3. QED
        BY <2>4, <4>1, <4>2
    <3>3. \/ ObjectiveAt(t, o, r) < ObjectiveAt(t, o, pq)
          \/ ObjectiveAt(t, o, r) = ObjectiveAt(t, o, pq)
      BY <2>5, <2>7
    <3>4. FirstOfCheapest(b, t, o, T, r)
      BY <2>1, <2>2, <2>3, <3>2, <3>3 DEF FirstOfCheapest
    <3>5. QED
      BY <2>3, <3>1, <3>4 DEF BestOfPairs, T
  <2>8. QED
    BY <2>6, <2>7
<1>9. QED
  BY <1>6, <1>7, <1>8

-----------------------------------------------------------------------------

(***************************************************************************)
(* The invariant is inductive.                                             *)
(***************************************************************************)

\* A search changes the path and nothing else of the vehicle.
LEMMA WithPathIs ==
  ASSUME NEW t \in VehicleType, NEW path \in Seq(Stop), NEW u, u = WithPath(t, path)
  PROVE  u \in VehicleType /\ SameVehicle(t, u) /\ u.path = path /\ u.orders = t.orders
<1> DEFINE P == Seq(Stop)
<1>1. t \in [idx : Truck, path : P, orders : SUBSET Order, user_twv : Nat, user_cv : Nat]
  BY DEF VehicleType
<1>2. path \in P
  OBVIOUS
<1>3. u = [t EXCEPT !.path = path]
  BY DEF WithPath
<1> HIDE DEF P
<1>4. /\ u \in [idx : Truck, path : P, orders : SUBSET Order, user_twv : Nat, user_cv : Nat]
      /\ u.idx = t.idx /\ u.path = path /\ u.orders = t.orders
      /\ u.user_twv = t.user_twv /\ u.user_cv = t.user_cv
  BY <1>1, <1>2, <1>3
<1>5. QED
  BY <1>4 DEF VehicleType, P, SameVehicle

\* A vehicle is its fields.
LEMMA VehicleIsItsFields ==
  ASSUME NEW t \in VehicleType, NEW u \in VehicleType, SameVehicle(t, u),
         u.path = t.path, u.orders = t.orders
  PROVE  u = t
<1> DEFINE P == Seq(Stop)
<1>1. /\ t \in [idx : Truck, path : P, orders : SUBSET Order, user_twv : Nat, user_cv : Nat]
      /\ u \in [idx : Truck, path : P, orders : SUBSET Order, user_twv : Nat, user_cv : Nat]
  BY DEF VehicleType
<1> HIDE DEF P
<1>2. QED
  BY <1>1 DEF SameVehicle

\* At the start the user's stops are on the vehicle.
LEMMA GivenIs ==
  ASSUME Init
  PROVE  \E v \in Truck, optimize \in BOOLEAN :
           /\ given.stops \in Seq(Order) /\ AtMostTwice(given.stops)
           /\ truck = set_initial_solution(v, given.stops, given.execution_date, optimize)
<1>1. PICK v \in Truck, optimize \in BOOLEAN :
        truck = set_initial_solution(v, given.stops, given.execution_date, optimize)
  BY DEF Init
<1>2. given.stops \in InitialStops
  BY DEF Init
<1>3. given.stops \in Seq(Order) /\ AtMostTwice(given.stops)
  BY <1>2, StopsAssumption DEF AtMostTwice
<1>4. QED
  BY <1>1, <1>3

\* No search is going on, and the vehicle is balanced.
LEMMA InitIsSound == Init => SearchIsSound
<1>1. SUFFICES ASSUME Init
               PROVE  SearchIsSound
  OBVIOUS
<1>2. PICK v \in Truck, optimize \in BOOLEAN :
        /\ given.stops \in Seq(Order) /\ AtMostTwice(given.stops)
        /\ truck = set_initial_solution(v, given.stops, given.execution_date, optimize)
  BY <1>1, GivenIs
<1>3. Balanced(truck)
  BY <1>2, InitialSolutionIntact, IntactBalanced
<1>4. pc = "idle" /\ best = NotFound /\ pick = 0 /\ drop = 0
  BY <1>1 DEF Init, Idle
<1>5. QED
  BY <1>3, <1>4 DEF SearchIsSound

\* The operations that are a step each.
LEMMA OperateKeepsSound == SearchIsSound /\ Operate => SearchIsSound'
<1>1. SUFFICES ASSUME SearchIsSound, Operate
               PROVE  SearchIsSound'
  OBVIOUS
<1>2. /\ pc = "idle" /\ pc' = "idle" /\ best' = best /\ pick' = pick /\ drop' = drop
  BY <1>1 DEF Operate, search
<1>3. Balanced(truck) /\ best = NotFound /\ pick = 0 /\ drop = 0
  BY <1>1, <1>2 DEF SearchIsSound
<1>4. PICK o \in Order : PushBack(o) \/ PushFront(o) \/ SemiLIFO(o) \/ Erase(o)
  BY <1>1 DEF Operate
<1>5. Balanced(truck')
  <2>1. CASE PushBack(o) \/ PushFront(o)
    BY <1>3, <2>1, PushesBalanced DEF PushBack, PushFront
  <2>2. CASE SemiLIFO(o)
    BY <1>3, <2>2, SearchesBalanced DEF SemiLIFO
  <2>3. CASE Erase(o)
    BY <1>3, <2>3, EraseBalanced DEF Erase, has_order, Balanced
  <2>4. QED
    BY <1>4, <2>1, <2>2, <2>3
<1>6. QED
  BY <1>2, <1>3, <1>5 DEF SearchIsSound

\* A call of the search keeps the vehicle as it is and remembers it.
LEMMA StartKeepsSound == SearchIsSound /\ StartSearch => SearchIsSound'
<1>1. SUFFICES ASSUME SearchIsSound, StartSearch
               PROVE  SearchIsSound'
  OBVIOUS
<1>2. PICK o \in Order : Call(o)
  BY <1>1 DEF StartSearch
<1>3. /\ pc = "idle" /\ pc' = "limits" /\ start' = truck /\ order' = o /\ truck' = truck
      /\ pick' = pick /\ drop' = drop /\ best' = best
  BY <1>2 DEF Call
<1>4. Balanced(truck) /\ best = NotFound /\ pick = 0 /\ drop = 0
  BY <1>1, <1>3 DEF SearchIsSound
<1>5. truck \in VehicleType /\ Len(truck.path) \in Nat
  BY <1>4, VehicleFacts DEF Balanced, Travels
<1>6. Called'
  BY <1>3, <1>4, <1>5 DEF Called
<1>7. OnlyPathMoves'
  BY <1>3, <1>5 DEF OnlyPathMoves, SameVehicle
<1>8. AtLimits'
  BY <1>3, <1>4 DEF AtLimits
<1>9. QED
  BY <1>3, <1>6, <1>7, <1>8 DEF SearchIsSound

\* A search that ends has the outcome that hillClimb states.
LEMMA ReturnKeepsSound == SearchIsSound /\ Return => SearchIsSound'
<1>1. SUFFICES ASSUME SearchIsSound, Return
               PROVE  SearchIsSound'
  OBVIOUS
<1>2. /\ pc = "done" /\ pc' = "idle" /\ truck' = truck
      /\ best' = NotFound /\ pick' = 0 /\ drop' = 0
  BY <1>1 DEF Return
<1>3. Called /\ truck = hillClimb(start, order)
  BY <1>1, <1>2 DEF SearchIsSound, AtDone
<1>4. Balanced(truck)
  BY <1>3, SearchesBalanced DEF Called
<1>5. QED
  BY <1>2, <1>4 DEF SearchIsSound

-----------------------------------------------------------------------------

\* The path of the vehicle while its search goes on.
LEMMA SearchedPath ==
  ASSUME Called, OnlyPathMoves
  PROVE  /\ truck.idx \in Truck /\ truck.idx = start.idx /\ truck.path \in Seq(Stop)
         /\ start.path \in Seq(Stop) /\ Len(start.path) \in Nat
         /\ start \in VehicleType /\ start.idx \in Truck
         /\ Coherent(start.idx, start.path) /\ FromStartToEnd(start.idx, start.path)
         /\ Len(start.path) >= 2
  BY VehicleFacts DEF Called, OnlyPathMoves, SameVehicle, Balanced, Travels, FromStartToEnd

\* The limits are positions of the path, and the pickup goes to the lowest one.
LEMMA SetLimitsKeepsSound == SearchIsSound /\ SetLimits => SearchIsSound'
<1>1. SUFFICES ASSUME SearchIsSound, SetLimits
               PROVE  SearchIsSound'
  OBVIOUS
<1> DEFINE low == getPosLowLimit(truck.path, Pickup(order))
           high == getPosHighLimit(truck.idx, truck.path, Pickup(order))
           dlow == getPosLowLimit(truck.path, Delivery(order))
           dhigh == getPosHighLimit(truck.idx, truck.path, Delivery(order))
           inserted == Insert(truck.idx, truck.path, low, Pickup(order))
<1>2. pc = "limits" /\ start' = start /\ order' = order /\ drop' = drop /\ best' = best
  BY <1>1 DEF SetLimits
<1>3. Called /\ OnlyPathMoves /\ truck = start /\ best = NotFound
  BY <1>1, <1>2 DEF SearchIsSound, AtLimits
<1>4. /\ truck.idx \in Truck /\ truck.path \in Seq(Stop) /\ truck \in VehicleType
      /\ Len(truck.path) \in Nat /\ Len(truck.path) >= 2
      /\ Coherent(truck.idx, truck.path) /\ FromStartToEnd(truck.idx, truck.path)
  BY <1>3, SearchedPath
<1>5. /\ order \in Order /\ pick \in 0..Len(truck.path) /\ drop \in 0..(Len(truck.path) + 1)
      /\ Balanced(truck)
  BY <1>3 DEF Called
<1>6. /\ low \in 2..(Len(truck.path) + 1) /\ high \in 1..Len(truck.path)
      /\ dlow \in 2..(Len(truck.path) + 1) /\ dhigh \in 1..Len(truck.path)
  BY <1>4, LowLimit, HighLimit
<1>7. CASE high < low \/ dhigh < dlow
  <2>1. pc' = "done" /\ truck' = truck /\ pick' = pick
    BY <1>1, <1>7 DEF SetLimits
  <2>2. ASSUME NEW pq \in FeasiblePositions(truck, order)
        PROVE  FALSE
    <3>1. pq[1] \in low..high /\ pq[2] \in (dlow + 1)..(dhigh + 1)
      BY <1>5, PairsInRanges
    <3> HIDE DEF low, high, dlow, dhigh
    <3>2. QED
      BY <1>6, <1>7, <3>1
  <2>3. truck = hillClimb(truck, order)
    BY <2>2 DEF hillClimb, BestOf
  <2>4. Called'
    BY <1>2, <1>3, <2>1 DEF Called
  <2>5. AtDone'
    BY <1>2, <1>3, <2>1, <2>3 DEF AtDone
  <2>6. QED
    BY <2>1, <2>4, <2>5 DEF SearchIsSound
<1>8. CASE ~(high < low \/ dhigh < dlow)
  <2>1. /\ pc' = "pick" /\ pick' = low /\ pick_high' = high
        /\ drop_low' = dlow + 1 /\ drop_high' = dhigh + 1
        /\ truck' = WithPath(truck, inserted)
    BY <1>1, <1>8 DEF SetLimits
  <2>2. Pickup(order) \in Node
    BY <1>5, OrderNodes
  <2>3. low \in 1..(Len(truck.path) + 1) /\ low \in 2..Len(truck.path) /\ dlow + 1 <= dhigh + 1
    <3> HIDE DEF low, high, dlow, dhigh
    <3>1. QED
      BY <1>4, <1>6, <1>8
  <2>4. Coherent(truck.idx, inserted) /\ HasInserted(truck.path, low, Pickup(order), inserted)
    BY <1>4, <2>2, <2>3, InsertIs
  <2>5. inserted \in Seq(Stop)
    BY <2>4 DEF HasInserted
  <2> HIDE DEF inserted
  <2>6. /\ truck' \in VehicleType /\ SameVehicle(truck, truck') /\ truck'.path = inserted
        /\ truck'.orders = truck.orders
    BY <1>4, <2>1, <2>5, WithPathIs
  <2>7. Called'
    <3> HIDE DEF low, high, dlow, dhigh
    <3>1. pick' \in 0..Len(start.path) /\ drop' \in 0..(Len(start.path) + 1)
      BY <1>2, <1>3, <1>5, <2>1, <2>3
    <3>2. QED
      BY <1>2, <1>3, <3>1 DEF Called
  <2>8. OnlyPathMoves'
    BY <1>2, <1>3, <2>6 DEF OnlyPathMoves
  <2>9. RangesOfStart' /\ pick' >= 2
    <3>1. low <= low /\ low >= 2
      <4> HIDE DEF low
      <4>1. QED
        BY <2>3
    <3>2. QED
      BY <1>2, <1>3, <2>1, <2>3, <3>1 DEF RangesOfStart
  <2>10. AtPick'
    <3>1. Coherent(truck'.idx, truck'.path)
      BY <2>4, <2>6 DEF SameVehicle
    <3>2. HasInserted(start'.path, pick', Pickup(order'), truck'.path)
      BY <1>2, <1>3, <2>1, <2>4, <2>6
    <3>3. Tried(truck, order, low, 0) = {}
      <4>1. ASSUME NEW pq \in FeasiblePositions(truck, order)
            PROVE  ~(pq[1] < low \/ (pq[1] = low /\ pq[2] < 0))
        <5>1. pq[1] \in low..high /\ pq[2] \in 2..(Len(truck.path) + 1)
          BY <1>5, PairsInRanges
        <5> HIDE DEF low, high
        <5>2. QED
          BY <1>6, <5>1
      <4>2. QED
        BY <4>1 DEF Tried
    <3>4. BestOfPairs(best', start', order', Tried(start', order', pick', 0))
      BY <1>2, <1>3, <2>1, <3>3 DEF BestOfPairs
    <3>5. QED
      BY <3>1, <3>2, <3>4 DEF AtPick
  <2>11. QED
    BY <2>1, <2>7, <2>8, <2>9, <2>10 DEF SearchIsSound
<1>9. QED
  BY <1>7, <1>8

\* The head of the outer loop: the delivery goes to its first position.
LEMMA NextPickKeepsSound == SearchIsSound /\ NextPick => SearchIsSound'
<1>1. SUFFICES ASSUME SearchIsSound, NextPick
               PROVE  SearchIsSound'
  OBVIOUS
<1> DEFINE n == Len(start.path)
           first == FirstDrop
           inserted == Insert(truck.idx, truck.path, first, Delivery(order))
<1>2. /\ pc = "pick" /\ pick <= pick_high /\ pc' = "drop" /\ drop' = first
      /\ truck' = WithPath(truck, inserted)
      /\ start' = start /\ order' = order /\ pick' = pick /\ best' = best
      /\ pick_high' = pick_high /\ drop_low' = drop_low /\ drop_high' = drop_high
  BY <1>1 DEF NextPick, limits
<1>3. Called /\ OnlyPathMoves /\ RangesOfStart /\ AtPick /\ pick >= 2
  BY <1>1, <1>2 DEF SearchIsSound
<1>4. /\ truck.idx \in Truck /\ truck.idx = start.idx /\ truck.path \in Seq(Stop)
      /\ start.path \in Seq(Stop) /\ n \in Nat /\ FromStartToEnd(start.idx, start.path)
      /\ truck \in VehicleType
  BY <1>3, SearchedPath DEF OnlyPathMoves
<1>5. /\ order \in Order /\ Balanced(start)
      /\ pick \in 0..n /\ drop \in 0..(n + 1)
  BY <1>3 DEF Called
<1> DEFINE dlow == getPosLowLimit(start.path, Delivery(order))
           dhigh == getPosHighLimit(start.idx, start.path, Delivery(order))
<1>6. /\ drop_low = dlow + 1 /\ drop_high = dhigh + 1 /\ drop_low <= drop_high
      /\ pick_high = getPosHighLimit(start.idx, start.path, Pickup(order))
  BY <1>3 DEF RangesOfStart
<1>7. dlow \in 2..(n + 1) /\ dhigh \in 1..n
  BY <1>4, LowLimit, HighLimit
<1> HIDE DEF dlow, dhigh
<1>8. /\ Coherent(truck.idx, truck.path) /\ HasInserted(start.path, pick, Pickup(order), truck.path)
      /\ BestOfPairs(best, start, order, Tried(start, order, pick, 0))
  BY <1>3 DEF AtPick
<1>9. Len(truck.path) = n + 1
  BY <1>8 DEF HasInserted
<1> HIDE DEF n
<1>10. /\ first \in Nat /\ drop_low <= first /\ pick + 1 <= first /\ first <= n + 1
       /\ first = drop_low \/ first = pick + 1
  <2>1. {drop_low, pick + 1} \in SUBSET Nat /\ {drop_low, pick + 1} # {}
    BY <1>4, <1>5, <1>6, <1>7
  <2>2. \A x \in {drop_low, pick + 1} : x <= n + 1
    BY <1>4, <1>5, <1>6, <1>7
  <2>3. /\ first \in {drop_low, pick + 1} /\ \A x \in {drop_low, pick + 1} : x <= first
    <3>1. n + 1 \in Nat
      BY <1>4
    <3>2. QED
      BY <2>1, <2>2, <3>1, MaxIsMember DEF FirstDrop
  <2>4. QED
    BY <2>1, <2>2, <2>3
<1> HIDE DEF first
<1>11. first \in 1..(Len(truck.path) + 1) /\ first \in 1..(n + 2) /\ pick < first
  BY <1>4, <1>5, <1>9, <1>10
<1>12. Delivery(order) \in Node
  BY <1>5, OrderNodes
<1>13. Coherent(truck.idx, inserted) /\ HasInserted(truck.path, first, Delivery(order), inserted)
  BY <1>4, <1>8, <1>11, <1>12, InsertIs
<1>14. inserted \in Seq(Stop)
  BY <1>13 DEF HasInserted
<1> HIDE DEF inserted
<1>15. /\ truck' \in VehicleType /\ SameVehicle(truck, truck') /\ truck'.path = inserted
       /\ truck'.orders = truck.orders
  BY <1>2, <1>4, <1>14, WithPathIs, SMTT(60)
<1>16. HasOrder(start.path, order, pick, first, inserted)
  BY <1>4, <1>5, <1>8, <1>11, <1>13, TwoInsertions, SMTT(60) DEF n
<1>17. Called'
  BY <1>2, <1>3, <1>4, <1>10 DEF Called, n
<1>18. OnlyPathMoves'
  BY <1>2, <1>3, <1>15 DEF OnlyPathMoves, SameVehicle
<1>19. RangesOfStart' /\ pick' >= 2
  BY <1>2, <1>3 DEF RangesOfStart
<1>20. HasBoth'
  BY <1>2, <1>11, <1>13, <1>15, <1>16 DEF HasBoth, SameVehicle
<1>21. Tried(start, order, pick, first) = Tried(start, order, pick, 0)
  <2>1. ASSUME NEW pq \in FeasiblePositions(start, order)
        PROVE  (pq[1] < pick \/ (pq[1] = pick /\ pq[2] < first)) <=>
               (pq[1] < pick \/ (pq[1] = pick /\ pq[2] < 0))
    <3>1. /\ pq[2] \in (dlow + 1)..(dhigh + 1) /\ pq[1] < pq[2]
          /\ pq[1] \in 2..n /\ pq[2] \in 2..(n + 1)
      BY <1>5, PairsInRanges DEF dlow, dhigh, n
    <3>2. QED
      BY <1>4, <1>5, <1>6, <1>7, <1>10, <3>1, SMTT(60)
  <2>2. QED
    BY <2>1 DEF Tried
<1>22. AtDrop'
  BY <1>2, <1>8, <1>10, <1>20, <1>21 DEF AtDrop
<1>23. QED
  BY <1>2, <1>17, <1>18, <1>19, <1>22 DEF SearchIsSound

\* What is known of the search while the order is on the path.
LEMMA SearchedOrder ==
  ASSUME Called, OnlyPathMoves, RangesOfStart, pick >= 2, HasBoth
  PROVE  /\ order \in Order /\ Balanced(start)
         /\ Len(start.path) \in Nat /\ Len(truck.path) = Len(start.path) + 2
         /\ pick \in 2..Len(start.path) /\ drop \in 2..(Len(start.path) + 1) /\ pick < drop
         /\ pick_high \in 1..Len(start.path) /\ drop_low \in Nat
         /\ drop_high \in 2..(Len(start.path) + 1)
         /\ truck.path[Len(start.path) + 2].node = EndSite(start.idx)
         /\ \A p \in 2..(Len(start.path) + 1) : ~IsEnd(truck.path[p].node)
<1> DEFINE n == Len(start.path)
<1>1. /\ order \in Order /\ Balanced(start)
      /\ pick \in 0..n /\ drop \in 0..(n + 1)
  BY DEF Called
<1>2. n \in Nat /\ n >= 2 /\ FromStartToEnd(start.idx, start.path) /\ start.path \in Seq(Stop)
  BY SearchedPath
<1>3. /\ HasOrder(start.path, order, pick, drop, truck.path)
      /\ pick <= pick_high /\ pick < drop
  BY DEF HasBoth
<1>4. /\ pick_high \in 1..n /\ getPosHighLimit(start.idx, start.path, Delivery(order)) \in 1..n
      /\ getPosLowLimit(start.path, Delivery(order)) \in 2..(n + 1)
  BY <1>2, LowLimit, HighLimit DEF RangesOfStart
<1>5. drop_high \in 2..(n + 1) /\ drop_low \in Nat
  <2>1. /\ drop_low = getPosLowLimit(start.path, Delivery(order)) + 1
        /\ drop_high = getPosHighLimit(start.idx, start.path, Delivery(order)) + 1
    BY DEF RangesOfStart
  <2>2. QED
    BY <1>2, <1>4, <2>1
<1> HIDE DEF n
<1>6. pick \in 2..n /\ drop \in 2..(n + 1) /\ pick < drop
  BY <1>1, <1>2, <1>3
<1>7. Len(truck.path) = n + 2 /\ \A j \in 1..(n + 2) :
        truck.path[j].node = OrderedNode(start.path, order, pick, drop, j)
  BY <1>3 DEF HasOrder, n
<1>8. /\ start.path[n].node = EndSite(start.idx)
      /\ \A p \in 2..(n - 1) : start.path[p].node \in OrderNode
  BY <1>2 DEF FromStartToEnd, n
<1>9. truck.path[n + 2].node = EndSite(start.idx)
  <2>1. n + 2 \in 1..(n + 2) /\ (n + 2) - 2 = n /\ ~(n + 2 <= drop) /\ ~(n + 2 <= pick)
    BY <1>2, <1>6
  <2>2. OrderedNode(start.path, order, pick, drop, n + 2) = start.path[n].node
    BY <1>2, <1>6, <2>1 DEF OrderedNode
  <2>3. QED
    BY <1>7, <1>8, <2>1, <2>2
<1>10. \A p \in 2..(n + 1) : truck.path[p].node \in OrderNode
  <2>1. TAKE p \in 2..(n + 1)
  <2>2. p \in 1..(n + 2)
    BY <1>2
  <2>3. Pickup(order) \in OrderNode /\ Delivery(order) \in OrderNode
    BY <1>1, OrderNodes
  <2>4. p < pick => p \in 2..(n - 1)
    BY <1>2, <1>6
  <2>5. pick < p /\ p < drop => p - 1 \in 2..(n - 1)
    BY <1>2, <1>6
  <2>6. drop < p => p - 2 \in 2..(n - 1)
    BY <1>2, <1>6
  <2>7. OrderedNode(start.path, order, pick, drop, p) \in OrderNode
    BY <1>6, <1>8, <2>3, <2>4, <2>5, <2>6 DEF OrderedNode
  <2>8. QED
    BY <1>7, <2>2, <2>7
<1>11. \A m \in OrderNode : ~IsEnd(m)
  BY DEF OrderNode, IsEnd, Pickup, Delivery
<1>12. QED
  BY <1>1, <1>2, <1>4, <1>5, <1>6, <1>7, <1>9, <1>10, <1>11 DEF n

\* The delivery has been at its last position: all pairs with this pickup
\* have been looked at.
LEMMA PickupDone ==
  ASSUME NEW t, Balanced(t), NEW o, NEW p \in Nat, NEW d \in Nat,
         getPosHighLimit(t.idx, t.path, Delivery(o)) + 1 < d \/ Len(t.path) + 1 < d
  PROVE  Tried(t, o, p, d) = Tried(t, o, p + 1, 0)
<1>1. ASSUME NEW pq \in FeasiblePositions(t, o)
      PROVE  (pq[1] < p \/ (pq[1] = p /\ pq[2] < d)) <=>
             (pq[1] < p + 1 \/ (pq[1] = p + 1 /\ pq[2] < 0))
  <2> DEFINE dlow == getPosLowLimit(t.path, Delivery(o))
             dhigh == getPosHighLimit(t.idx, t.path, Delivery(o))
             n == Len(t.path)
  <2>1. /\ pq[2] \in (dlow + 1)..(dhigh + 1)
        /\ pq[1] \in 2..n /\ pq[2] \in 2..(n + 1)
    BY PairsInRanges
  <2>2. dhigh \in 1..n /\ n \in Nat
    BY VehicleFacts, HighLimit DEF Balanced, Travels
  <2>3. dhigh + 1 < d \/ n + 1 < d
    OBVIOUS
  <2> HIDE DEF dlow, dhigh, n
  <2>4. pq[2] < d /\ pq[1] \in Nat /\ ~(pq[2] < 0)
    BY <2>1, <2>2, <2>3
  <2>5. QED
    BY <2>4
<1>2. QED
  BY <1>1 DEF Tried

\* A turn of the inner loop: the pair is remembered if it is better, and the
\* delivery moves by one swap.
LEMMA NextDropKeepsSound == SearchIsSound /\ NextDrop => SearchIsSound'
<1>1. SUFFICES ASSUME SearchIsSound, NextDrop
               PROVE  SearchIsSound'
  OBVIOUS
<1> DEFINE n == Len(start.path)
           swapped == Swap(truck.idx, truck.path, drop, drop + 1)
<1>2. /\ pc = "drop" /\ drop <= drop_high
      /\ best' = IF Improves
                 THEN [pick |-> pick, drop |-> drop, objective |-> objective(truck)]
                 ELSE best
      /\ start' = start /\ order' = order /\ pick' = pick
      /\ pick_high' = pick_high /\ drop_low' = drop_low /\ drop_high' = drop_high
  BY <1>1 DEF NextDrop, limits
<1>3. /\ Called /\ OnlyPathMoves /\ RangesOfStart /\ pick >= 2 /\ HasBoth /\ drop_low <= drop
      /\ BestOfPairs(best, start, order, Tried(start, order, pick, drop))
  BY <1>1, <1>2 DEF SearchIsSound, AtDrop
<1>4. /\ truck.idx \in Truck /\ truck.idx = start.idx /\ truck.path \in Seq(Stop)
      /\ start.path \in Seq(Stop) /\ truck \in VehicleType /\ SameVehicle(start, truck)
  BY <1>3, SearchedPath DEF OnlyPathMoves
<1>5. /\ order \in Order /\ Balanced(start)
      /\ n \in Nat /\ Len(truck.path) = n + 2
      /\ pick \in 2..n /\ drop \in 2..(n + 1) /\ pick < drop
      /\ pick_high \in 1..n /\ drop_low \in Nat /\ drop_high \in 2..(n + 1)
      /\ truck.path[n + 2].node = EndSite(start.idx)
      /\ \A p \in 2..(n + 1) : ~IsEnd(truck.path[p].node)
  BY <1>3, SearchedOrder
<1>6. /\ Coherent(truck.idx, truck.path)
      /\ HasOrder(start.path, order, pick, drop, truck.path) /\ pick <= pick_high
  BY <1>3 DEF HasBoth
<1>7. <<pick, drop>> \in HillClimbPositions(start, order)
  <2> DEFINE low == getPosLowLimit(start.path, Pickup(order))
             high == getPosHighLimit(start.idx, start.path, Pickup(order))
             dlow == getPosLowLimit(start.path, Delivery(order))
             dhigh == getPosHighLimit(start.idx, start.path, Delivery(order))
  <2>1. low <= pick /\ pick_high = high /\ drop_low = dlow + 1 /\ drop_high = dhigh + 1
    BY <1>3 DEF RangesOfStart
  <2>2. low \in 2..(n + 1) /\ high \in 1..n /\ dlow \in 2..(n + 1) /\ dhigh \in 1..n
    BY <1>3, SearchedPath, LowLimit, HighLimit
  <2>3. pick \in low..high /\ drop \in (dlow + 1)..(dhigh + 1)
    <3> HIDE DEF low, high, dlow, dhigh, n
    <3>1. QED
      BY <1>2, <1>3, <1>5, <1>6, <2>1, <2>2
  <2>4. QED
    BY <1>5, <2>3, PairIsTried
<1>8. /\ is_feasible(truck) <=> is_feasible(WithOrderAtPair(start, order, <<pick, drop>>))
      /\ objective(truck) = ObjectiveAt(start, order, <<pick, drop>>)
  BY <1>4, <1>5, <1>6, SameVerdict
<1>9. BestOfPairs(best', start, order, Tried(start, order, pick, drop + 1))
  <2>1. best' = IF is_feasible(truck) /\ (best # NotFound => objective(truck) < best.objective)
                THEN [pick |-> pick, drop |-> drop, objective |-> objective(truck)]
                ELSE best
    BY <1>2 DEF Improves
  <2>2. pick \in Nat /\ drop \in Nat
    BY <1>5
  <2>3. QED
    BY <1>3, <1>5, <1>7, <1>8, <2>1, <2>2, BestOfOneMore
<1>10. CASE IsEnd(truck.path[drop + 1].node)
  <2>1. pc' = "lift" /\ truck' = truck /\ drop' = drop
    BY <1>1, <1>10 DEF NextDrop
  <2>2. n + 1 < drop + 1 /\ pick \in Nat /\ drop + 1 \in Nat
    <3> HIDE DEF n
    <3>1. n \in Nat /\ pick \in 2..n /\ drop \in 2..(n + 1)
      BY <1>5, ZenonT(60)
    <3>2. drop + 1 \notin 2..(n + 1)
      BY <1>5, <1>10
    <3>3. QED
      BY <3>1, <3>2
  <2>3. Tried(start, order, pick, drop + 1) = Tried(start, order, pick + 1, 0)
    BY <1>5, <2>2, PickupDone
  <2>4. AtLift'
    BY <1>2, <1>3, <1>9, <2>1, <2>3 DEF AtLift, HasBoth
  <2>5. Called' /\ OnlyPathMoves' /\ RangesOfStart' /\ pick' >= 2
    BY <1>2, <1>3, <2>1 DEF Called, OnlyPathMoves, RangesOfStart
  <2>6. QED
    BY <2>1, <2>4, <2>5 DEF SearchIsSound
<1>11. CASE ~IsEnd(truck.path[drop + 1].node)
  <2>1. pc' = "drop" /\ truck' = WithPath(truck, swapped) /\ drop' = drop + 1
    BY <1>1, <1>2, <1>11 DEF NextDrop
  <2>2. drop \in 1..(Len(truck.path) - 1) /\ drop + 1 \in 2..(n + 1)
    <3> HIDE DEF n
    <3>1. n \in Nat /\ Len(truck.path) = n + 2 /\ drop \in 2..(n + 1)
      BY <1>5, ZenonT(60)
    <3>2. drop + 1 # n + 2
      BY <1>5, <1>11, KindsDiffer
    <3>3. QED
      BY <3>1, <3>2
  <2>3. \A p \in 1..Len(truck.path) : p < drop => Right(truck.idx, truck.path, p)
    BY <1>6 DEF Coherent
  <2>4. /\ swapped \in Seq(Stop) /\ Coherent(truck.idx, swapped)
        /\ Len(swapped) = Len(truck.path)
        /\ \A j \in 1..Len(swapped) :
             swapped[j].node = IF j = drop THEN truck.path[drop + 1].node
                               ELSE IF j = drop + 1 THEN truck.path[drop].node
                               ELSE truck.path[j].node
    BY <1>4, <2>2, <2>3, SwapNextIs, SMTT(60)
  <2> HIDE DEF swapped
  <2>5. HasOrder(start.path, order, pick, drop + 1, swapped)
    <3>1. Len(swapped) = n + 2 /\ \A j \in 1..(n + 2) :
            truck.path[j].node = OrderedNode(start.path, order, pick, drop, j)
      BY <1>5, <1>6, <2>4 DEF HasOrder
    <3>2. drop \in 1..(n + 2) /\ drop + 1 \in 1..(n + 2) /\ pick < drop /\ n \in Nat
          /\ pick \in Nat
      BY <1>5, <2>2
    <3> HIDE DEF n
    <3>3. ASSUME NEW j \in 1..(n + 2)
          PROVE  swapped[j].node = OrderedNode(start.path, order, pick, drop + 1, j)
      <4>1. CASE j = drop
        <5>1. swapped[j].node = OrderedNode(start.path, order, pick, drop, drop + 1)
          BY <2>4, <3>1, <3>2, <4>1
        <5>2. /\ ~(drop + 1 < pick) /\ drop + 1 # pick /\ ~(drop + 1 < drop)
              /\ drop + 1 # drop /\ (drop + 1) - 2 = drop - 1
          BY <3>2
        <5>3. ~(drop < pick) /\ drop # pick /\ drop < drop + 1
          BY <3>2
        <5>4. QED
          BY <4>1, <5>1, <5>2, <5>3 DEF OrderedNode
      <4>2. CASE j = drop + 1
        <5>1. swapped[j].node = OrderedNode(start.path, order, pick, drop, drop)
          BY <2>4, <3>1, <3>2, <4>2
        <5>2. /\ ~(drop + 1 < pick) /\ drop + 1 # pick /\ ~(drop + 1 < drop + 1)
              /\ ~(drop < pick) /\ drop # pick /\ ~(drop < drop)
          BY <3>2
        <5>3. QED
          BY <4>2, <5>1, <5>2 DEF OrderedNode
      <4>3. CASE j # drop /\ j # drop + 1
        <5>1. swapped[j].node = OrderedNode(start.path, order, pick, drop, j)
          BY <2>4, <3>1, <4>3
        <5>2. j < drop <=> j < drop + 1
          BY <3>2, <4>3
        <5>3. QED
          BY <4>3, <5>1, <5>2 DEF OrderedNode
      <4>4. QED
        BY <4>1, <4>2, <4>3
    <3>4. QED
      BY <2>4, <3>1, <3>3 DEF HasOrder, n
  <2>6. /\ truck' \in VehicleType /\ SameVehicle(truck, truck') /\ truck'.path = swapped
        /\ truck'.orders = truck.orders
    BY <1>4, <2>1, <2>4, WithPathIs, ZenonT(60)
  <2>7. Called'
    <3>1. drop' \in 0..(n + 1)
      <4> HIDE DEF n
      <4>1. QED
        BY <2>1, <2>2
    <3>2. QED
      BY <1>2, <1>3, <3>1 DEF Called
  <2>8. OnlyPathMoves'
    BY <1>2, <1>3, <2>6 DEF OnlyPathMoves, SameVehicle
  <2>9. RangesOfStart' /\ pick' >= 2
    BY <1>2, <1>3 DEF RangesOfStart
  <2>10. drop_low <= drop + 1 /\ pick < drop + 1
    BY <1>3, <1>5
  <2>11. HasBoth'
    BY <1>2, <1>6, <2>1, <2>4, <2>5, <2>6, <2>10 DEF HasBoth, SameVehicle
  <2>12. AtDrop'
    BY <1>2, <1>9, <2>1, <2>10, <2>11 DEF AtDrop
  <2>13. QED
    BY <2>1, <2>7, <2>8, <2>9, <2>12 DEF SearchIsSound
<1>12. QED
  BY <1>10, <1>11

\* After the inner loop, all pairs up to this pickup were tried.
LEMMA DropsTriedKeepsSound == SearchIsSound /\ DropsTried => SearchIsSound'
<1>1. SUFFICES ASSUME SearchIsSound, DropsTried
               PROVE  SearchIsSound'
  OBVIOUS
<1>2. /\ pc = "drop" /\ drop > drop_high /\ pc' = "lift"
      /\ start' = start /\ order' = order /\ truck' = truck /\ pick' = pick
      /\ drop' = drop /\ best' = best
      /\ pick_high' = pick_high /\ drop_low' = drop_low /\ drop_high' = drop_high
  BY <1>1 DEF DropsTried, limits
<1>3. /\ Called /\ OnlyPathMoves /\ RangesOfStart /\ pick >= 2 /\ HasBoth
      /\ BestOfPairs(best, start, order, Tried(start, order, pick, drop))
  BY <1>1, <1>2 DEF SearchIsSound, AtDrop
<1>4. Balanced(start) /\ pick \in Nat /\ drop \in Nat /\ drop_high \in Nat
  BY <1>3, SearchedOrder
<1>5. getPosHighLimit(start.idx, start.path, Delivery(order)) + 1 < drop
  BY <1>2, <1>3, <1>4 DEF RangesOfStart
<1>6. Tried(start, order, pick, drop) = Tried(start, order, pick + 1, 0)
  BY <1>4, <1>5, PickupDone
<1>7. AtLift'
  BY <1>2, <1>3, <1>6 DEF AtLift, HasBoth
<1>8. Called' /\ OnlyPathMoves' /\ RangesOfStart' /\ pick' >= 2
  BY <1>2, <1>3 DEF Called, OnlyPathMoves, RangesOfStart
<1>9. QED
  BY <1>2, <1>7, <1>8 DEF SearchIsSound

\* All pairs have been looked at when the pickup is behind its range.
LEMMA PickupsDone ==
  ASSUME NEW t, Balanced(t), NEW o, NEW p \in Nat,
         getPosHighLimit(t.idx, t.path, Pickup(o)) < p \/ Len(t.path) < p
  PROVE  Tried(t, o, p, 0) = FeasiblePositions(t, o)
<1>1. ASSUME NEW pq \in FeasiblePositions(t, o)
      PROVE  pq[1] < p
  <2> DEFINE high == getPosHighLimit(t.idx, t.path, Pickup(o))
             low == getPosLowLimit(t.path, Pickup(o))
             n == Len(t.path)
  <2>1. pq[1] \in low..high /\ pq[1] \in 2..n
    BY PairsInRanges
  <2>2. high \in 1..n /\ n \in Nat
    BY VehicleFacts, HighLimit DEF Balanced, Travels
  <2>3. high < p \/ n < p
    OBVIOUS
  <2> HIDE DEF high, low, n
  <2>4. QED
    BY <2>1, <2>2, <2>3
<1>2. QED
  BY <1>1 DEF Tried

\* Without the delivery the path has the pickup, and the caches in front of
\* the delivery are right.
LEMMA LiftedIs ==
  ASSUME Called, OnlyPathMoves, RangesOfStart, pick >= 2, HasBoth
  PROVE  /\ Lifted \in Seq(Stop)
         /\ HasInserted(start.path, pick, Pickup(order), Lifted)
         /\ \A p \in 1..Len(Lifted) : p < drop => Right(truck.idx, Lifted, p)
<1> DEFINE n == Len(start.path)
           path == truck.path
<1>1. path \in Seq(Stop) /\ n \in Nat /\ Len(path) = n + 2 /\ pick \in 2..n /\ drop \in 2..(n + 1)
      /\ pick < drop
  BY SearchedPath, SearchedOrder
<1>2. Coherent(truck.idx, path) /\ HasOrder(start.path, order, pick, drop, path)
  BY DEF HasBoth
<1>3. \A j \in 1..(n + 2) : path[j].node = OrderedNode(start.path, order, pick, drop, j)
  BY <1>1, <1>2 DEF HasOrder
<1> DEFINE e == Lifted
<1>4. /\ e \in Seq(Stop) /\ Len(e) = Len(path) - 1
      /\ \A j \in 1..(Len(path) - 1) : e[j] = IF j < drop THEN path[j] ELSE path[j + 1]
  <2>1. drop \in 1..Len(path)
    BY <1>1
  <2>2. e = RemoveAt(path, drop)
    BY DEF Lifted
  <2>3. path \in Seq(Stop)
    BY <1>1
  <2> HIDE DEF e, n, path
  <2>4. QED
    BY <2>1, <2>2, <2>3, RemoveAtIs, ZenonT(60)
<1> HIDE DEF e, n, path
<1>5. Len(e) = n + 1 /\ \A j \in 1..(n + 1) : e[j] = IF j < drop THEN path[j] ELSE path[j + 1]
  BY <1>1, <1>4
<1>6. ASSUME NEW j \in 1..(n + 1)
      PROVE  e[j].node = InsertedNode(start.path, pick, Pickup(order), j)
  <2>1. j \in 1..(n + 2) /\ j + 1 \in 1..(n + 2)
    BY <1>1
  <2>2. CASE j < drop
    <3>1. e[j].node = OrderedNode(start.path, order, pick, drop, j)
      BY <1>3, <1>5, <2>1, <2>2
    <3>2. QED
      BY <2>2, <3>1 DEF OrderedNode, InsertedNode
  <2>3. CASE ~(j < drop)
    <3>1. e[j].node = OrderedNode(start.path, order, pick, drop, j + 1)
      BY <1>3, <1>5, <2>1, <2>3
    <3>2. /\ ~(j + 1 < pick) /\ j + 1 # pick /\ ~(j + 1 < drop) /\ j + 1 # drop
          /\ (j + 1) - 2 = j - 1 /\ ~(j < pick) /\ j # pick
      BY <1>1, <2>3
    <3>3. QED
      BY <3>1, <3>2 DEF OrderedNode, InsertedNode
  <2>4. QED
    BY <2>2, <2>3
<1>7. HasInserted(start.path, pick, Pickup(order), e)
  BY <1>4, <1>5, <1>6 DEF HasInserted, n
<1>8. ASSUME NEW p \in 1..Len(e), p < drop
      PROVE  Right(truck.idx, e, p)
  <2>1. p \in 1..Len(path) /\ p \in 1..(n + 1) /\ e[p] = path[p]
    BY <1>1, <1>5, <1>8
  <2>2. p # 1 => p - 1 \in 1..(n + 1) /\ p - 1 < drop
    BY <1>1, <1>5, <1>8
  <2>3. p # 1 => e[p - 1] = path[p - 1]
    BY <1>5, <2>2
  <2>4. Right(truck.idx, path, p)
    BY <1>2, <2>1 DEF Coherent
  <2>5. QED
    BY <2>1, <2>3, <2>4 DEF Right, StopAt
<1>9. QED
  BY <1>4, <1>7, <1>8 DEF e

\* The delivery is taken off the path, and the pickup moves by one swap.
LEMMA LiftKeepsSound == SearchIsSound /\ Lift => SearchIsSound'
<1>1. SUFFICES ASSUME SearchIsSound, Lift
               PROVE  SearchIsSound'
  OBVIOUS
<1> DEFINE n == Len(start.path)
           e == Lifted
           swapped == Swap(truck.idx, e, pick, pick + 1)
<1>2. /\ pc = "lift" /\ start' = start /\ order' = order /\ drop' = drop /\ best' = best
      /\ pick_high' = pick_high /\ drop_low' = drop_low /\ drop_high' = drop_high
  BY <1>1 DEF Lift, limits
<1>3. /\ Called /\ OnlyPathMoves /\ RangesOfStart /\ pick >= 2 /\ HasBoth
      /\ BestOfPairs(best, start, order, Tried(start, order, pick + 1, 0))
  BY <1>1, <1>2 DEF SearchIsSound, AtLift
<1>4. /\ truck.idx \in Truck /\ start.path \in Seq(Stop) /\ truck \in VehicleType
      /\ FromStartToEnd(start.idx, start.path)
  BY <1>3, SearchedPath DEF OnlyPathMoves
<1>5. /\ Balanced(start) /\ n \in Nat /\ pick \in 2..n /\ drop \in 2..(n + 1) /\ pick < drop
  BY <1>3, SearchedOrder
<1>6. /\ e \in Seq(Stop) /\ HasInserted(start.path, pick, Pickup(order), e)
      /\ \A p \in 1..Len(e) : p < drop => Right(truck.idx, e, p)
  BY <1>3, LiftedIs
<1> HIDE DEF e
<1>7. /\ Len(e) = n + 1
      /\ \A j \in 1..(n + 1) : e[j].node = InsertedNode(start.path, pick, Pickup(order), j)
  BY <1>6 DEF HasInserted
<1>8. /\ start.path[n].node = EndSite(start.idx)
      /\ \A p \in 2..(n - 1) : start.path[p].node \in OrderNode
  BY <1>4 DEF FromStartToEnd
<1> HIDE DEF n
<1>9. \A p \in 1..Len(e) : p < pick => Right(truck.idx, e, p)
  BY <1>5, <1>6, <1>7
<1>10. e[pick + 1].node = start.path[pick].node
  <2>1. pick + 1 \in 1..(n + 1) /\ ~(pick + 1 < pick) /\ pick + 1 # pick /\ (pick + 1) - 1 = pick
    BY <1>5
  <2>2. QED
    BY <1>7, <2>1 DEF InsertedNode
<1>11. CASE IsEnd(e[pick + 1].node)
  <2>1. pc' = "insert" /\ truck' = WithPath(truck, e) /\ pick' = pick
    BY <1>1, <1>11 DEF Lift, e
  <2>2. pick \notin 2..(n - 1)
    <3>1. \A m \in OrderNode : ~IsEnd(m)
      BY DEF OrderNode, IsEnd, Pickup, Delivery
    <3>2. QED
      BY <1>8, <1>10, <1>11, <3>1
  <2>3. pick + 1 \in Nat /\ n < pick + 1
    BY <1>5, <2>2
  <2>4. Tried(start, order, pick + 1, 0) = FeasiblePositions(start, order)
    BY <1>5, <2>3, PickupsDone DEF n
  <2>5. /\ truck' \in VehicleType /\ SameVehicle(truck, truck') /\ truck'.path = e
        /\ truck'.orders = truck.orders
    BY <1>4, <1>6, <2>1, WithPathIs
  <2>6. AtInsert'
    BY <1>2, <1>3, <1>6, <1>9, <2>1, <2>4, <2>5 DEF AtInsert, SameVehicle
  <2>7. Called' /\ RangesOfStart' /\ pick' >= 2
    BY <1>2, <1>3, <2>1 DEF Called, RangesOfStart
  <2>8. OnlyPathMoves'
    BY <1>2, <1>3, <2>5 DEF OnlyPathMoves, SameVehicle
  <2>9. QED
    BY <2>1, <2>6, <2>7, <2>8 DEF SearchIsSound
<1>12. CASE ~IsEnd(e[pick + 1].node)
  <2>1. pc' = "pick" /\ truck' = WithPath(truck, swapped) /\ pick' = pick + 1
    BY <1>1, <1>12 DEF Lift, e
  <2>2. pick + 1 \in 2..n /\ pick \in 1..(Len(e) - 1)
    <3>1. pick # n
      BY <1>8, <1>10, <1>12, KindsDiffer
    <3>2. QED
      BY <1>5, <1>7, <3>1
  <2>3. /\ swapped \in Seq(Stop) /\ Coherent(truck.idx, swapped) /\ Len(swapped) = Len(e)
        /\ \A j \in 1..Len(swapped) :
             swapped[j].node = IF j = pick THEN e[pick + 1].node
                               ELSE IF j = pick + 1 THEN e[pick].node ELSE e[j].node
    <3>1. swapped = Swap(truck.idx, e, pick, pick + 1)
      OBVIOUS
    <3> HIDE DEF swapped
    <3>2. QED
      BY <1>4, <1>6, <1>9, <2>2, <3>1, SwapNextIs, SMTT(60)
  <2> HIDE DEF swapped
  <2>4. ASSUME NEW j \in 1..(n + 1)
        PROVE  swapped[j].node = InsertedNode(start.path, pick + 1, Pickup(order), j)
    <3>1. pick \in 1..(n + 1) /\ pick + 1 \in 1..(n + 1)
      BY <1>5, <2>2
    <3>2. CASE j = pick
      <4>1. swapped[j].node = start.path[pick].node
        BY <1>7, <1>10, <2>3, <3>1, <3>2
      <4>2. j < pick + 1
        BY <3>1, <3>2
      <4>3. QED
        BY <3>2, <4>1, <4>2 DEF InsertedNode
    <3>3. CASE j = pick + 1
      <4>1. swapped[j].node = InsertedNode(start.path, pick, Pickup(order), pick)
        BY <1>7, <2>3, <3>1, <3>3
      <4>2. ~(pick < pick) /\ ~(j < pick + 1)
        BY <3>1, <3>3
      <4>3. QED
        BY <3>3, <4>1, <4>2 DEF InsertedNode
    <3>4. CASE j # pick /\ j # pick + 1
      <4>1. swapped[j].node = InsertedNode(start.path, pick, Pickup(order), j)
        BY <1>7, <2>3, <3>4
      <4>2. j < pick <=> j < pick + 1
        BY <3>1, <3>4
      <4>3. QED
        BY <3>4, <4>1, <4>2 DEF InsertedNode
    <3>5. QED
      BY <3>2, <3>3, <3>4
  <2>5. HasInserted(start.path, pick + 1, Pickup(order), swapped)
    BY <1>7, <2>3, <2>4 DEF HasInserted, n
  <2>6. /\ truck' \in VehicleType /\ SameVehicle(truck, truck') /\ truck'.path = swapped
        /\ truck'.orders = truck.orders
    BY <1>4, <2>1, <2>3, WithPathIs
  <2>7. AtPick'
    BY <1>2, <1>3, <2>1, <2>3, <2>5, <2>6 DEF AtPick, SameVehicle
  <2>8. pick' \in 0..n /\ pick' >= 2
    BY <2>1, <2>2
  <2>9. Called'
    BY <1>2, <1>3, <2>8 DEF Called, n
  <2>10. getPosLowLimit(start.path, Pickup(order)) <= pick + 1
    <3>1. getPosLowLimit(start.path, Pickup(order)) <= pick
      BY <1>3 DEF RangesOfStart
    <3>2. getPosLowLimit(start.path, Pickup(order)) \in 2..(n + 1)
      BY <1>4, LowLimit DEF n
    <3>3. QED
      BY <1>5, <3>1, <3>2
  <2>11. RangesOfStart'
    BY <1>2, <1>3, <2>1, <2>10 DEF RangesOfStart
  <2>12. OnlyPathMoves'
    BY <1>2, <1>3, <2>6 DEF OnlyPathMoves, SameVehicle
  <2>13. QED
    BY <2>1, <2>7, <2>8, <2>9, <2>11, <2>12 DEF SearchIsSound
<1>13. QED
  BY <1>11, <1>12

\* After the outer loop, all pairs were tried and the path is the old one.
LEMMA PicksTriedKeepsSound == SearchIsSound /\ PicksTried => SearchIsSound'
<1>1. SUFFICES ASSUME SearchIsSound, PicksTried
               PROVE  SearchIsSound'
  OBVIOUS
<1>2. /\ pc = "pick" /\ pick > pick_high /\ pc' = "insert"
      /\ start' = start /\ order' = order /\ truck' = truck /\ pick' = pick
      /\ drop' = drop /\ best' = best
      /\ pick_high' = pick_high /\ drop_low' = drop_low /\ drop_high' = drop_high
  BY <1>1 DEF PicksTried, limits
<1>3. Called /\ OnlyPathMoves /\ RangesOfStart /\ AtPick /\ pick >= 2
  BY <1>1, <1>2 DEF SearchIsSound
<1>4. /\ Coherent(truck.idx, truck.path)
      /\ HasInserted(start.path, pick, Pickup(order), truck.path)
      /\ BestOfPairs(best, start, order, Tried(start, order, pick, 0))
  BY <1>3 DEF AtPick
<1>5. Balanced(start) /\ pick \in Nat
  BY <1>3, SearchedPath DEF Called
<1>6. getPosHighLimit(start.idx, start.path, Pickup(order)) < pick
  <2>1. getPosHighLimit(start.idx, start.path, Pickup(order)) \in 1..Len(start.path)
    BY <1>3, SearchedPath, HighLimit
  <2>2. pick_high = getPosHighLimit(start.idx, start.path, Pickup(order))
    BY <1>3 DEF RangesOfStart
  <2>3. QED
    BY <1>2, <1>5, <2>1, <2>2
<1>7. Tried(start, order, pick, 0) = FeasiblePositions(start, order)
  BY <1>5, <1>6, PickupsDone
<1>8. AtInsert'
  BY <1>2, <1>4, <1>7 DEF AtInsert, Coherent
<1>9. Called' /\ OnlyPathMoves' /\ RangesOfStart' /\ pick' >= 2
  BY <1>2, <1>3 DEF Called, OnlyPathMoves, RangesOfStart
<1>10. QED
  BY <1>2, <1>8, <1>9 DEF SearchIsSound

\* The order goes to the best pair of positions, if there was one.
LEMMA InsertBestKeepsSound == SearchIsSound /\ InsertBest => SearchIsSound'
<1>1. SUFFICES ASSUME SearchIsSound, InsertBest
               PROVE  SearchIsSound'
  OBVIOUS
<1> DEFINE n == Len(start.path)
           erased == ErasePos(truck.idx, truck.path, pick)
           cleared == WithPath(truck, erased)
<1>2. /\ pc = "insert" /\ pc' = "done"
      /\ truck' = IF best = NotFound THEN cleared
                  ELSE WithOrderAt(cleared, order, best.pick, best.drop)
      /\ start' = start /\ order' = order /\ pick' = pick /\ drop' = drop
  BY <1>1 DEF InsertBest
<1>3. Called /\ OnlyPathMoves /\ AtInsert /\ pick >= 2
  BY <1>1, <1>2 DEF SearchIsSound
<1>4. /\ truck.idx \in Truck /\ truck.idx = start.idx /\ truck.path \in Seq(Stop)
      /\ start.path \in Seq(Stop) /\ n \in Nat /\ start \in VehicleType
      /\ Coherent(start.idx, start.path)
  BY <1>3, SearchedPath
<1>5. /\ order \in Order /\ Balanced(start) /\ pick \in 0..n
  BY <1>3 DEF Called
<1>6. /\ \A p \in 1..Len(truck.path) : p < pick => Right(truck.idx, truck.path, p)
      /\ HasInserted(start.path, pick, Pickup(order), truck.path)
      /\ BestOfPairs(best, start, order, FeasiblePositions(start, order))
  BY <1>3 DEF AtInsert
<1>7. Len(truck.path) = n + 1 /\ \A j \in 1..(n + 1) :
        truck.path[j].node = InsertedNode(start.path, pick, Pickup(order), j)
  BY <1>6 DEF HasInserted
<1>8. pick \in 1..Len(truck.path)
  BY <1>3, <1>4, <1>5, <1>7
<1>9. Coherent(truck.idx, erased) /\ HasErased(truck.path, pick, erased)
  BY <1>4, <1>6, <1>8, ErasePosIs
<1>10. /\ erased \in Seq(Stop) /\ Len(erased) = n
       /\ \A j \in 1..n : erased[j].node = IF j < pick THEN truck.path[j].node
                                           ELSE truck.path[j + 1].node
  <2>1. /\ erased \in Seq(Stop) /\ Len(erased) = (n + 1) - 1
        /\ \A j \in 1..Len(erased) : erased[j].node = IF j < pick THEN truck.path[j].node
                                                      ELSE truck.path[j + 1].node
    BY <1>7, <1>9 DEF HasErased
  <2> HIDE DEF erased, n
  <2>2. QED
    BY <1>4, <2>1
<1> HIDE DEF erased, n
<1>11. ASSUME NEW j \in 1..n
       PROVE  erased[j].node = start.path[j].node
  <2>1. j \in 1..(n + 1) /\ j + 1 \in 1..(n + 1) /\ (j + 1) - 1 = j
    BY <1>4
  <2>2. CASE j < pick
    BY <1>7, <1>10, <2>1, <2>2 DEF InsertedNode
  <2>3. CASE ~(j < pick)
    <3>1. erased[j].node = InsertedNode(start.path, pick, Pickup(order), j + 1)
      BY <1>7, <1>10, <2>1, <2>3
    <3>2. ~(j + 1 < pick) /\ j + 1 # pick
      BY <1>5, <2>3
    <3>3. QED
      BY <2>1, <3>1, <3>2 DEF InsertedNode
  <2>4. QED
    BY <2>2, <2>3
<1>12. SameNodes(erased, start.path)
  BY <1>10, <1>11 DEF SameNodes, n
<1>13. erased = start.path
  BY <1>4, <1>9, <1>10, <1>12, CoherentOnce
<1>14. /\ truck \in VehicleType /\ SameVehicle(start, truck) /\ truck.orders = start.orders
  BY <1>3 DEF OnlyPathMoves
<1>15. /\ cleared \in VehicleType /\ SameVehicle(truck, cleared) /\ cleared.path = erased
       /\ cleared.orders = truck.orders
  BY <1>10, <1>14, WithPathIs
<1> HIDE DEF cleared
<1>16. cleared = start
  <2>1. SameVehicle(start, cleared)
    BY <1>14, <1>15 DEF SameVehicle
  <2>2. QED
    BY <1>4, <1>13, <1>14, <1>15, <2>1, VehicleIsItsFields
<1>17. truck' = hillClimb(start, order)
  BY <1>2, <1>5, <1>6, <1>16, BestIsChosen
<1>18. Called' /\ AtDone'
  BY <1>2, <1>3, <1>17 DEF Called, AtDone
<1>19. QED
  BY <1>2, <1>18 DEF SearchIsSound

\* Every step keeps it.
LEMMA StepKeepsSound == SearchIsSound /\ [Next]_vars => SearchIsSound'
<1>1. SUFFICES ASSUME SearchIsSound, [Next]_vars
               PROVE  SearchIsSound'
  OBVIOUS
<1>2. CASE Operate
  BY <1>1, <1>2, OperateKeepsSound
<1>3. CASE StartSearch
  BY <1>1, <1>3, StartKeepsSound
<1>4. CASE Search
  <2>1. CASE SetLimits
    BY <1>1, <2>1, SetLimitsKeepsSound
  <2>2. CASE NextPick
    BY <1>1, <2>2, NextPickKeepsSound
  <2>3. CASE NextDrop
    BY <1>1, <2>3, NextDropKeepsSound
  <2>4. CASE DropsTried
    BY <1>1, <2>4, DropsTriedKeepsSound
  <2>5. CASE Lift
    BY <1>1, <2>5, LiftKeepsSound
  <2>6. CASE PicksTried
    BY <1>1, <2>6, PicksTriedKeepsSound
  <2>7. CASE InsertBest
    BY <1>1, <2>7, InsertBestKeepsSound
  <2>8. CASE Return
    BY <1>1, <2>8, ReturnKeepsSound
  <2>9. QED
    BY <1>4, <2>1, <2>2, <2>3, <2>4, <2>5, <2>6, <2>7, <2>8 DEF Search
<1>5. CASE UNCHANGED vars
  <2>1. /\ truck' = truck /\ start' = start /\ order' = order /\ pick' = pick
        /\ pick_high' = pick_high /\ drop_low' = drop_low /\ drop_high' = drop_high
        /\ drop' = drop /\ best' = best /\ pc' = pc
    BY <1>5 DEF vars, search, limits
  <2>2. /\ (Called' <=> Called) /\ (OnlyPathMoves' <=> OnlyPathMoves)
        /\ (RangesOfStart' <=> RangesOfStart) /\ (HasBoth' <=> HasBoth)
    BY <2>1 DEF Called, OnlyPathMoves, RangesOfStart, HasBoth
  <2>3. /\ (AtLimits' <=> AtLimits) /\ (AtPick' <=> AtPick) /\ (AtDrop' <=> AtDrop)
        /\ (AtLift' <=> AtLift) /\ (AtInsert' <=> AtInsert) /\ (AtDone' <=> AtDone)
    BY <2>1, <2>2 DEF AtLimits, AtPick, AtDrop, AtLift, AtInsert, AtDone
  <2>4. QED
    BY <1>1, <2>1, <2>2, <2>3 DEF SearchIsSound
<1>6. QED
  BY <1>1, <1>2, <1>3, <1>4, <1>5 DEF Next

\* The invariant holds in every state.
LEMMA AlwaysSound == Spec => []SearchIsSound
  BY InitIsSound, StepKeepsSound, PTL DEF Spec

-----------------------------------------------------------------------------

(***************************************************************************)
(* What follows from it.                                                   *)
(***************************************************************************)

\* Whenever the loops test the vehicle, and between two operations, its stops
\* cache what an evaluation of the whole path computes.
LEMMA SoundIsCoherent == SearchIsSound => CacheCoherent
<1>1. SUFFICES ASSUME SearchIsSound, pc \in {"idle", "pick", "drop", "done"}
               PROVE  truck.path = Evaluate(truck.idx, truck.path, 1)
  BY DEF CacheCoherent
<1>2. CASE pc \in {"pick", "drop"}
  <2>1. truck.idx \in Truck /\ truck.path \in Seq(Stop)
    BY <1>1, <1>2, SearchedPath DEF SearchIsSound
  <2>2. Coherent(truck.idx, truck.path)
    BY <1>1, <1>2 DEF SearchIsSound, AtPick, AtDrop, HasBoth
  <2>3. QED
    BY <2>1, <2>2, CoherentIsEvaluated
<1>3. CASE pc \in {"idle", "done"}
  <2>1. Balanced(truck)
    <3>1. CASE pc = "idle"
      BY <1>1, <3>1 DEF SearchIsSound
    <3>2. CASE pc = "done"
      <4>1. Called /\ truck = hillClimb(start, order)
        BY <1>1, <3>2 DEF SearchIsSound, AtDone
      <4>2. QED
        BY <4>1, SearchesBalanced DEF Called
    <3>3. QED
      BY <1>3, <3>1, <3>2
  <2>2. truck.idx \in Truck /\ truck.path \in Seq(Stop) /\ Coherent(truck.idx, truck.path)
    BY <2>1, VehicleFacts DEF Balanced, Travels
  <2>3. QED
    BY <2>2, CoherentIsEvaluated
<1>4. QED
  BY <1>1, <1>2, <1>3

\* The path of a search has the nodes of its order in addition.
LEMMA SearchedNodes ==
  ASSUME SearchIsSound, pc # "idle"
  PROVE  /\ Len(truck.path) - Len(start.path) \in 0..2
         /\ Nodes(truck.path) \subseteq Nodes(start.path) \cup {Pickup(order), Delivery(order)}
         /\ truck \in VehicleType
<1> DEFINE n == Len(start.path)
           OneMore(path) == HasInserted(start.path, pick, Pickup(order), path)
           Fits(path) == /\ Len(path) - n \in 0..2
                         /\ Nodes(path) \subseteq
                              Nodes(start.path) \cup {Pickup(order), Delivery(order)}
<1>1. /\ order \in Order /\ Balanced(start) /\ pick \in 0..n
  BY DEF SearchIsSound, Called
<1>2. /\ start \in VehicleType /\ start.path \in Seq(Stop) /\ n \in Nat
      /\ Coherent(start.idx, start.path)
  BY <1>1, VehicleFacts DEF Balanced, Travels
<1>3. ASSUME NEW p \in 2..n, NEW q \in 2..(n + 1), p < q, NEW e,
             HasOrder(start.path, order, p, q, e)
      PROVE  Fits(e)
  <2>1. p \in 1..(n + 1) /\ q \in 1..(n + 2)
    BY <1>2
  <2>2. PICK mid : /\ HasInserted(start.path, p, Pickup(order), mid)
                   /\ HasInserted(mid, q, Delivery(order), e)
    BY <1>1, <1>2, <1>3, <2>1, InsertionsOfOrder
  <2>3. mid \in Seq(Stop) /\ Len(mid) = n + 1
    BY <2>2 DEF HasInserted
  <2>4. Nodes(mid) = Nodes(start.path) \cup {Pickup(order)}
    BY <1>2, <2>1, <2>2, InsertKeeps
  <2>5. q \in 1..(Len(mid) + 1)
    BY <1>2, <2>1, <2>3
  <2>6. Nodes(e) = Nodes(mid) \cup {Delivery(order)}
    BY <2>2, <2>3, <2>5, InsertKeeps
  <2>7. Len(e) = n + 2
    BY <1>3 DEF HasOrder
  <2> HIDE DEF n
  <2>8. (n + 2) - n \in 0..2
    BY <1>2
  <2>9. QED
    BY <2>4, <2>6, <2>7, <2>8
<1>4. ASSUME NEW e, OneMore(e), pick >= 2
      PROVE  Fits(e)
  <2>1. pick \in 1..(n + 1)
    BY <1>1, <1>2, <1>4
  <2>2. Nodes(e) = Nodes(start.path) \cup {Pickup(order)}
    BY <1>2, <1>4, <2>1, InsertKeeps
  <2>3. Len(e) = n + 1
    BY <1>4 DEF HasInserted
  <2> HIDE DEF n
  <2>4. (n + 1) - n \in 0..2
    BY <1>2
  <2>5. QED
    BY <2>2, <2>3, <2>4
<1>5. CASE pc = "limits"
  <2>1. truck = start
    BY <1>5 DEF SearchIsSound, AtLimits
  <2> HIDE DEF n
  <2>2. n - n \in 0..2
    BY <1>2
  <2>3. QED
    BY <1>2, <2>1, <2>2 DEF n
<1>6. CASE pc \in {"pick", "insert"}
  <2>1. OneMore(truck.path) /\ pick >= 2 /\ truck \in VehicleType
    BY <1>6 DEF SearchIsSound, AtPick, AtInsert, OnlyPathMoves
  <2> HIDE DEF OneMore
  <2>2. Fits(truck.path)
    BY <1>4, <2>1
  <2>3. QED
    BY <2>1, <2>2
<1>7. CASE pc \in {"drop", "lift"}
  <2>1. /\ Called /\ OnlyPathMoves /\ RangesOfStart /\ pick >= 2 /\ HasBoth
    BY <1>7 DEF SearchIsSound, AtDrop, AtLift
  <2>2. pick \in 2..n /\ drop \in 2..(n + 1) /\ pick < drop
    BY <2>1, SearchedOrder
  <2>3. HasOrder(start.path, order, pick, drop, truck.path) /\ truck \in VehicleType
    BY <2>1 DEF HasBoth, OnlyPathMoves
  <2>4. Fits(truck.path)
    BY <1>3, <2>2, <2>3
  <2>5. QED
    BY <2>3, <2>4
<1>8. CASE pc = "done"
  <2>1. truck = hillClimb(start, order)
    BY <1>8 DEF SearchIsSound, AtDone
  <2>2. CASE truck = start
    <3> HIDE DEF n
    <3>1. n - n \in 0..2
      BY <1>2
    <3>2. QED
      BY <1>2, <2>2, <3>1 DEF n
  <2>3. CASE truck # start
    <3>1. PICK pq \in FeasiblePositions(start, order) :
            truck = WithOrderAtPair(start, order, pq)
      BY <1>1, <2>1, <2>3, HillClimbTravels DEF Balanced
    <3>2. pq[1] \in 2..n /\ pq[2] \in 2..(n + 1) /\ pq[1] < pq[2]
      BY <1>1, PairsInRanges
    <3>3. pq[1] \in 1..(n + 1) /\ pq[2] \in 1..(n + 2)
      BY <1>2, <3>2
    <3>4. truck = WithOrderAt(start, order, pq[1], pq[2])
      BY <3>1 DEF WithOrderAtPair
    <3>5. Gained(start, order, truck) /\ HasOrder(start.path, order, pq[1], pq[2], truck.path)
      BY <1>1, <1>2, <3>2, <3>3, <3>4, OrderIsAt
    <3>6. Fits(truck.path)
      BY <1>3, <3>2, <3>5
    <3>7. QED
      BY <3>5, <3>6 DEF Gained
  <2>4. QED
    BY <2>2, <2>3
<1>9. QED
  BY <1>5, <1>6, <1>7, <1>8 DEF SearchIsSound

\* The invariant gives the types,
LEMMA SoundIsTyped == SearchIsSound => TypeOK
<1>1. SUFFICES ASSUME SearchIsSound
               PROVE  TypeOK
  OBVIOUS
<1>2. truck \in VehicleType
  <2>1. CASE pc = "idle"
    BY <1>1, <2>1 DEF SearchIsSound, Balanced, Travels
  <2>2. CASE pc # "idle"
    BY <1>1, <2>2, SearchedNodes
  <2>3. QED
    BY <2>1, <2>2
<1>3. /\ truck.idx \in Truck /\ truck.orders \in SUBSET Order /\ truck.path \in Seq(Stop)
      /\ truck.user_twv \in Nat /\ truck.user_cv \in Nat
  BY <1>2, VehicleFacts
<1>4. Nodes(truck.path) \subseteq Node
  <2>1. \A s \in Stop : s.node \in Node
    BY DEF Stop
  <2>2. \A p \in 1..Len(truck.path) : truck.path[p] \in Stop
    BY <1>3
  <2>3. QED
    BY <1>3, <2>1, <2>2, VisitedNodes
<1>5. pc # "idle" => {pick, drop} \subseteq 0..(Len(start.path) + 1)
  <2>1. SUFFICES ASSUME pc # "idle"
                 PROVE  pick \in 0..(Len(start.path) + 1) /\ drop \in 0..(Len(start.path) + 1)
    OBVIOUS
  <2>2. /\ Balanced(start) /\ pick \in 0..Len(start.path) /\ drop \in 0..(Len(start.path) + 1)
    BY <1>1, <2>1 DEF SearchIsSound, Called
  <2>3. Len(start.path) \in Nat
    BY <2>2, VehicleFacts DEF Balanced, Travels
  <2>4. QED
    BY <2>2, <2>3
<1>6. pc \in {"idle", "limits", "pick", "drop", "lift", "insert", "done"}
  BY <1>1 DEF SearchIsSound
<1>7. QED
  BY <1>1, <1>3, <1>4, <1>5, <1>6, SearchedNodes DEF TypeOK

-----------------------------------------------------------------------------

(***************************************************************************)
(* The nodes on the path are accounted for.  A search inserts and lifts    *)
(* nodes all the time, so what is counted while it goes on is the vehicle  *)
(* it started with.                                                        *)
(***************************************************************************)

\* The path delivers an order once for m_orders_in_vehicle and once if it is
\* pinned, and picks it up as often, and once more if it is only picked up.
Agree(t, pinned, lone) ==
  \A o \in Order :
    /\ Times(t.path, Delivery(o), Len(t.path))
         = (IF o \in t.orders THEN 1 ELSE 0) + (IF o \in pinned THEN 1 ELSE 0)
    /\ Times(t.path, Pickup(o), Len(t.path))
         = Times(t.path, Delivery(o), Len(t.path)) + (IF o \in lone THEN 1 ELSE 0)

Accounted ==
  /\ Agree(IF pc = "idle" THEN truck ELSE start, Pinned, OnlyPickedUp)
  /\ pc # "idle" => ~has_order(start, order)

\* A vehicle that gains an order it does not have visits its nodes once more.
LEMMA AgreeGains ==
  ASSUME NEW t, NEW pinned, NEW lone, Agree(t, pinned, lone), NEW o \in Order,
         o \notin t.orders, NEW u, u.orders = t.orders \cup {o}, OnceMore(t, o, u)
  PROVE  Agree(u, pinned, lone)
<1> DEFINE T(m) == Times(t.path, m, Len(t.path))
           U(m) == Times(u.path, m, Len(u.path))
<1>1. \A m : U(m) = T(m) + (IF m \in {Pickup(o), Delivery(o)} THEN 1 ELSE 0)
  BY DEF OnceMore
<1>2. ASSUME NEW a \in Order
      PROVE  /\ T(Delivery(a)) = (IF a \in t.orders THEN 1 ELSE 0) + (IF a \in pinned THEN 1 ELSE 0)
             /\ T(Pickup(a)) = T(Delivery(a)) + (IF a \in lone THEN 1 ELSE 0)
  BY <1>2 DEF Agree
<1> HIDE DEF T, U
<1>3. ASSUME NEW a \in Order
      PROVE  /\ U(Delivery(a)) = (IF a \in u.orders THEN 1 ELSE 0) + (IF a \in pinned THEN 1 ELSE 0)
             /\ U(Pickup(a)) = U(Delivery(a)) + (IF a \in lone THEN 1 ELSE 0)
  <2>1. /\ Pickup(a) \in {Pickup(o), Delivery(o)} <=> a = o
        /\ Delivery(a) \in {Pickup(o), Delivery(o)} <=> a = o
    BY KindsDiffer
  <2>2. /\ U(Delivery(a)) = T(Delivery(a)) + (IF a = o THEN 1 ELSE 0)
        /\ U(Pickup(a)) = T(Pickup(a)) + (IF a = o THEN 1 ELSE 0)
    BY <1>1, <2>1
  <2>3. a \in u.orders <=> a \in t.orders \/ a = o
    OBVIOUS
  <2>4. QED
    BY <1>2, <2>2, <2>3
<1>4. QED
  BY <1>3 DEF Agree, U

\* A vehicle that loses one of its orders visits its nodes once less.
LEMMA AgreeLoses ==
  ASSUME NEW t, NEW pinned, NEW lone, Agree(t, pinned, lone), NEW o \in t.orders, o \in Order,
         NEW u, u.orders = t.orders \ {o},
         \A m : Times(u.path, m, Len(u.path))
                  = Times(t.path, m, Len(t.path)) - (IF m \in {Pickup(o), Delivery(o)} THEN 1 ELSE 0)
  PROVE  Agree(u, pinned, lone)
<1> DEFINE T(m) == Times(t.path, m, Len(t.path))
           U(m) == Times(u.path, m, Len(u.path))
<1>1. \A m : U(m) = T(m) - (IF m \in {Pickup(o), Delivery(o)} THEN 1 ELSE 0)
  OBVIOUS
<1>2. ASSUME NEW a \in Order
      PROVE  /\ T(Delivery(a)) = (IF a \in t.orders THEN 1 ELSE 0) + (IF a \in pinned THEN 1 ELSE 0)
             /\ T(Pickup(a)) = T(Delivery(a)) + (IF a \in lone THEN 1 ELSE 0)
  BY <1>2 DEF Agree
<1> HIDE DEF T, U
<1>3. ASSUME NEW a \in Order
      PROVE  /\ U(Delivery(a)) = (IF a \in u.orders THEN 1 ELSE 0) + (IF a \in pinned THEN 1 ELSE 0)
             /\ U(Pickup(a)) = U(Delivery(a)) + (IF a \in lone THEN 1 ELSE 0)
  <2>1. /\ Pickup(a) \in {Pickup(o), Delivery(o)} <=> a = o
        /\ Delivery(a) \in {Pickup(o), Delivery(o)} <=> a = o
    BY KindsDiffer
  <2>2. /\ U(Delivery(a)) = T(Delivery(a)) - (IF a = o THEN 1 ELSE 0)
        /\ U(Pickup(a)) = T(Pickup(a)) - (IF a = o THEN 1 ELSE 0)
    BY <1>1, <2>1
  <2>3. a \in u.orders <=> a \in t.orders /\ a # o
    OBVIOUS
  <2>4. QED
    BY <1>2, <2>2, <2>3
<1>4. QED
  BY <1>3 DEF Agree, U

\* At the start the path is the user's: what the stops name twice is delivered,
\* and belongs to the vehicle or is pinned, or it was erased.
LEMMA InitIsAccounted == Init => Accounted
<1>1. SUFFICES ASSUME Init
               PROVE  Agree(truck, Pinned, OnlyPickedUp)
  BY DEF Init, Idle, Accounted
<1> DEFINE stops == given.stops
<1>2. PICK v \in Truck, optimize \in BOOLEAN :
        /\ stops \in Seq(Order) /\ AtMostTwice(stops)
        /\ truck = set_initial_solution(v, stops, given.execution_date, optimize)
  BY <1>1, GivenIs
<1> DEFINE wanted == StopsPath(v, stops)
           named(o) == Cardinality({i \in 1..Len(stops) : stops[i] = o})
<1>3. /\ Intact(truck) /\ PicksUp(truck, wanted)
      /\ Holding(truck, wanted, unmovable(OrdersDelivered(wanted), given.execution_date))
  BY <1>2, InitialSolutionIntact
<1>4. \A o \in Order :
        /\ Delivery(o) \in Nodes(wanted) <=> named(o) = 2
        /\ Pickup(o) \in Nodes(wanted) /\ Delivery(o) \notin Nodes(wanted) <=> named(o) = 1
  BY <1>2, NamesCounted
<1>5. DOMAIN stops = 1..Len(stops)
  BY <1>2
<1>6. Pinned = unmovable(OrdersDelivered(wanted), given.execution_date)
  <2>1. \A o : named(o) = Cardinality({i \in DOMAIN stops : stops[i] = o})
    BY <1>5
  <2> HIDE DEF wanted, named
  <2>2. OrdersDelivered(wanted) = {o \in Order : named(o) = 2}
    BY <1>4 DEF OrdersDelivered
  <2>3. Pinned = unmovable({o \in Order : named(o) = 2}, given.execution_date)
    BY <2>1 DEF Pinned
  <2>4. QED
    BY <2>2, <2>3
<1>7. \A o \in Order : o \in OnlyPickedUp <=> named(o) = 1
  BY <1>5 DEF OnlyPickedUp
<1> HIDE DEF wanted, named
<1>8. /\ Once(truck.path) /\ truck.path \in Seq(Stop) /\ Len(truck.path) \in Nat
  BY <1>3, VehicleFacts DEF Intact
<1>9. ASSUME NEW m
      PROVE  Times(truck.path, m, Len(truck.path)) = IF m \in Nodes(truck.path) THEN 1 ELSE 0
  <2>1. \A p, r \in 1..Len(truck.path) : truck.path[p].node = truck.path[r].node => p = r
    BY <1>8 DEF Once
  <2>2. Times(truck.path, m, Len(truck.path))
          = IF \E p \in 1..Len(truck.path) : truck.path[p].node = m THEN 1 ELSE 0
    BY <1>8, <2>1, TimesVisited
  <2>3. m \in Nodes(truck.path) <=> \E p \in 1..Len(truck.path) : truck.path[p].node = m
    BY <1>8, VisitedNodes
  <2>4. QED
    BY <2>2, <2>3
<1>10. ASSUME NEW o \in Order
       PROVE  /\ Times(truck.path, Delivery(o), Len(truck.path))
                   = (IF o \in truck.orders THEN 1 ELSE 0) + (IF o \in Pinned THEN 1 ELSE 0)
              /\ Times(truck.path, Pickup(o), Len(truck.path))
                   = Times(truck.path, Delivery(o), Len(truck.path))
                       + (IF o \in OnlyPickedUp THEN 1 ELSE 0)
  <2>1. /\ Delivery(o) \in Nodes(truck.path) <=> o \in truck.orders \/ o \in Pinned
        /\ ~(o \in truck.orders /\ o \in Pinned)
    BY <1>3, <1>6 DEF Holding
  <2>2. /\ Delivery(o) \in Nodes(truck.path) => named(o) = 2
        /\ Pickup(o) \in Nodes(truck.path)
             <=> Delivery(o) \in Nodes(truck.path) \/ named(o) = 1
    BY <1>3, <1>4 DEF PicksUp
  <2>3. o \in OnlyPickedUp <=> named(o) = 1
    BY <1>7
  <2>4. Times(truck.path, Delivery(o), Len(truck.path))
          = IF Delivery(o) \in Nodes(truck.path) THEN 1 ELSE 0
    BY <1>9
  <2>5. Times(truck.path, Pickup(o), Len(truck.path))
          = IF Pickup(o) \in Nodes(truck.path) THEN 1 ELSE 0
    BY <1>9
  <2>6. QED
    BY <2>1, <2>2, <2>3, <2>4, <2>5
<1>11. QED
  BY <1>10 DEF Agree

\* The operations that are a step each keep account.
LEMMA OperateKeepsAccount == SearchIsSound /\ Accounted /\ Operate => Agree(truck', Pinned, OnlyPickedUp)
<1>1. SUFFICES ASSUME SearchIsSound, Accounted, Operate
               PROVE  Agree(truck', Pinned, OnlyPickedUp)
  OBVIOUS
<1>2. pc = "idle"
  BY <1>1 DEF Operate
<1>3. Balanced(truck) /\ Agree(truck, Pinned, OnlyPickedUp)
  BY <1>1, <1>2 DEF SearchIsSound, Accounted
<1>4. PICK o \in Order : PushBack(o) \/ PushFront(o) \/ SemiLIFO(o) \/ Erase(o)
  BY <1>1 DEF Operate
<1>5. CASE PushBack(o) \/ PushFront(o)
  <2>1. o \notin truck.orders /\ truck' \in {push_back(truck, o), push_front(truck, o)}
    BY <1>5 DEF PushBack, PushFront, has_order
  <2>2. truck'.orders = truck.orders \cup {o} /\ OnceMore(truck, o, truck')
    BY <1>3, <2>1, PushesBalanced
  <2>3. QED
    BY <1>3, <2>1, <2>2, AgreeGains
<1>6. CASE SemiLIFO(o)
  <2>1. o \notin truck.orders /\ truck' = semiLIFO(truck, o) /\ truck.user_cv = 0
    BY <1>6 DEF SemiLIFO, has_order
  <2>2. \/ truck' = truck
        \/ truck'.orders = truck.orders \cup {o} /\ OnceMore(truck, o, truck')
    BY <1>3, <2>1, SearchesBalanced
  <2>3. QED
    BY <1>3, <2>1, <2>2, AgreeGains
<1>7. CASE Erase(o)
  <2>1. o \in truck.orders /\ truck' = erase(truck, o)
    BY <1>7 DEF Erase, has_order
  <2>2. Delivery(o) \in Nodes(truck.path)
    BY <1>3, <2>1 DEF Balanced
  <2>3. /\ truck'.orders = truck.orders \ {o}
        /\ \A m : Times(truck'.path, m, Len(truck'.path))
                    = Times(truck.path, m, Len(truck.path))
                        - (IF m \in {Pickup(o), Delivery(o)} THEN 1 ELSE 0)
    BY <1>3, <2>1, <2>2, EraseBalanced
  <2>4. QED
    BY <1>3, <2>1, <2>3, AgreeLoses
<1>8. QED
  BY <1>4, <1>5, <1>6, <1>7

\* A step of a search leaves the vehicle it started with alone, and what it
\* ends with has the order once more, or is that vehicle.
LEMMA StepKeepsAccount == SearchIsSound /\ Accounted /\ [Next]_vars => Accounted'
<1>1. SUFFICES ASSUME SearchIsSound, Accounted, [Next]_vars
               PROVE  Accounted'
  OBVIOUS
<1>2. Pinned' = Pinned /\ OnlyPickedUp' = OnlyPickedUp
  BY <1>1 DEF Next, vars, Pinned, OnlyPickedUp
<1>3. CASE Operate
  <2>1. pc = "idle" /\ pc' = pc
    BY <1>3 DEF Operate, search
  <2>2. Agree(truck', Pinned, OnlyPickedUp)
    BY <1>1, <1>3, OperateKeepsAccount
  <2>3. QED
    BY <1>2, <2>1, <2>2 DEF Accounted
<1>4. CASE StartSearch
  <2>1. PICK o \in Order : ~has_order(truck, o) /\ Call(o)
    BY <1>4 DEF StartSearch
  <2>2. pc = "idle" /\ pc' = "limits" /\ start' = truck /\ order' = o
    BY <2>1 DEF Call
  <2>3. Agree(truck, Pinned, OnlyPickedUp)
    BY <1>1, <2>2 DEF Accounted
  <2>4. QED
    BY <1>2, <2>1, <2>2, <2>3 DEF Accounted, has_order
<1>5. CASE Search /\ pc # "done"
  <2>1. pc # "idle" /\ pc' # "idle" /\ start' = start /\ order' = order
    BY <1>5 DEF Search, SetLimits, NextPick, NextDrop, DropsTried, Lift, PicksTried, InsertBest,
                Return, limits
  <2>2. Agree(start, Pinned, OnlyPickedUp) /\ ~has_order(start, order)
    BY <1>1, <2>1 DEF Accounted
  <2>3. QED
    BY <1>2, <2>1, <2>2 DEF Accounted, has_order
<1>6. CASE Search /\ pc = "done"
  <2>1. pc' = "idle" /\ truck' = truck
    BY <1>6 DEF Search, SetLimits, NextPick, NextDrop, DropsTried, Lift, PicksTried, InsertBest,
                Return
  <2>2. /\ Agree(start, Pinned, OnlyPickedUp) /\ order \notin start.orders
        /\ Called /\ truck = hillClimb(start, order)
    BY <1>1, <1>6 DEF Accounted, SearchIsSound, AtDone, has_order
  <2>3. \/ truck = start
        \/ truck.orders = start.orders \cup {order} /\ OnceMore(start, order, truck)
    BY <2>2, SearchesBalanced DEF Called
  <2>4. Agree(truck, Pinned, OnlyPickedUp)
    BY <2>2, <2>3, AgreeGains DEF Called
  <2>5. QED
    BY <1>2, <2>1, <2>4 DEF Accounted
<1>7. CASE UNCHANGED vars
  BY <1>1, <1>2, <1>7 DEF Accounted, vars, search, has_order
<1>8. QED
  BY <1>1, <1>3, <1>4, <1>5, <1>6, <1>7 DEF Next

LEMMA AlwaysAccounted == Spec => [](SearchIsSound /\ Accounted)
<1>1. Init => SearchIsSound /\ Accounted
  BY InitIsSound, InitIsAccounted
<1>2. SearchIsSound /\ Accounted /\ [Next]_vars => (SearchIsSound /\ Accounted)'
  BY StepKeepsSound, StepKeepsAccount
<1>3. QED
  BY <1>1, <1>2, PTL DEF Spec

\* The two invariants give the agreement of the path and the set of orders.
LEMMA AccountedMatchesOrders == SearchIsSound /\ Accounted => PathMatchesOrders
<1>1. SUFFICES ASSUME SearchIsSound, Accounted
               PROVE  PathMatchesOrders
  OBVIOUS
<1>2. TypeOK
  BY <1>1, SoundIsTyped
<1> DEFINE path == truck.path
           n == Len(path)
<1>3. ASSUME pc = "idle"
      PROVE  /\ Head(path).node = StartSite(truck.idx)
             /\ Last(path).node = EndSite(truck.idx)
             /\ \A p \in 2..(n - 1) : path[p].node \in NodesOf(Order)
             /\ \A o \in Order :
                  /\ Times(path, Delivery(o), n) = Count(o \in truck.orders) + Count(o \in Pinned)
                  /\ Times(path, Pickup(o), n)
                       = Times(path, Delivery(o), n) + Count(o \in OnlyPickedUp)
                  /\ \A q \in 1..n : Times(path, Delivery(o), q) <= Times(path, Pickup(o), q)
  <2>1. Balanced(truck) /\ Agree(truck, Pinned, OnlyPickedUp)
    BY <1>1, <1>3 DEF SearchIsSound, Accounted
  <2>2. /\ path \in Seq(Stop) /\ FromStartToEnd(truck.idx, path) /\ PickedUpFirst(path)
    BY <2>1, VehicleFacts DEF Balanced, Travels
  <2>3. n >= 2 /\ n \in Nat
    BY <2>2 DEF FromStartToEnd
  <2>4. Head(path) = path[1] /\ Last(path) = path[n]
    <3> HIDE DEF Stop
    <3>1. path # <<>>
      BY <2>3
    <3>2. QED
      BY <2>2, <3>1 DEF Last
  <2>5. /\ Head(path).node = StartSite(truck.idx) /\ Last(path).node = EndSite(truck.idx)
        /\ \A p \in 2..(n - 1) : path[p].node \in OrderNode
    BY <2>2, <2>4 DEF FromStartToEnd
  <2>6. OrderNode = NodesOf(Order)
    BY DEF OrderNode, NodesOf
  <2>7. ASSUME NEW o \in Order
        PROVE  /\ Times(path, Delivery(o), n) = Count(o \in truck.orders) + Count(o \in Pinned)
               /\ Times(path, Pickup(o), n)
                    = Times(path, Delivery(o), n) + Count(o \in OnlyPickedUp)
    BY <2>1, <2>7, Zenon DEF Agree, Count
  <2>8. ASSUME NEW o \in Order, NEW q \in 1..n
        PROVE  Times(path, Delivery(o), q) <= Times(path, Pickup(o), q)
    <3>1. q \in 0..n
      BY <2>3
    <3>2. QED
      BY <2>2, <3>1 DEF PickedUpFirst
  <2>9. QED
    BY <2>5, <2>6, <2>7, <2>8
<1>4. QED
  BY <1>2, <1>3 DEF PathMatchesOrders

-----------------------------------------------------------------------------

\* The caches are never stale where they are read: re-evaluating from the
\* first position that moved is as good as evaluating everything.
THEOREM CachesAreRight == Spec => []CacheCoherent
  BY AlwaysSound, SoundIsCoherent, PTL

\* The path and m_orders_in_vehicle agree after every operation, whatever the
\* stops are that the vehicle started with: an operation neither loses nor
\* doubles a node, and a node is on the path twice only where the user's stops
\* had left one of the order that came.
THEOREM PathsAreWhole == Spec => []PathMatchesOrders
  BY AlwaysAccounted, AccountedMatchesOrders, PTL

\* The loops of hillClimb, which move the two nodes along the path of the
\* vehicle itself, compute the operator hillClimb: the other modules may use it
\* in their place.
THEOREM LoopsComputeHillClimb == Spec => []ComputesHillClimb
<1>1. SearchIsSound => ComputesHillClimb
  BY DEF SearchIsSound, AtDone, ComputesHillClimb
<1>2. QED
  BY <1>1, AlwaysSound, PTL

\* A search and semiLIFO never make an infeasible vehicle of a feasible one,
\* even when the travel times do not obey the triangle inequality.
THEOREM InsertingKeepsFeasible ==
  Spec => [][/\ (pc = "idle" /\ \E o \in Order : SemiLIFO(o))
                  => (is_feasible(truck) => is_feasible(truck'))
             /\ (pc = "done" /\ is_feasible(start)) => is_feasible(truck)]_vars
<1> DEFINE Safe == /\ (pc = "idle" /\ \E o \in Order : SemiLIFO(o))
                        => (is_feasible(truck) => is_feasible(truck'))
                   /\ (pc = "done" /\ is_feasible(start)) => is_feasible(truck)
<1>1. SearchIsSound => Safe
  <2>1. SUFFICES ASSUME SearchIsSound
                 PROVE  Safe
    OBVIOUS
  <2>2. ASSUME pc = "idle", NEW o \in Order, SemiLIFO(o), is_feasible(truck)
        PROVE  is_feasible(truck')
    <3>1. Balanced(truck)
      BY <2>1, <2>2 DEF SearchIsSound
    <3>2. truck.user_cv = 0 /\ truck' = semiLIFO(truck, o)
      BY <2>2 DEF SemiLIFO
    <3>3. QED
      BY <2>2, <3>1, <3>2, SearchesBalanced
  <2>3. ASSUME pc = "done", is_feasible(start)
        PROVE  is_feasible(truck)
    <3>1. Called /\ truck = hillClimb(start, order)
      BY <2>1, <2>3 DEF SearchIsSound, AtDone
    <3>2. QED
      BY <2>3, <3>1, SearchesBalanced DEF Called
  <2>4. QED
    BY <2>2, <2>3
<1>2. SearchIsSound /\ [Next]_vars => [Safe]_vars
  BY <1>1
<1> HIDE DEF Safe
<1>3. Spec => [][Safe]_vars
  BY <1>2, AlwaysSound, PTL DEF Spec
<1>4. QED
  BY <1>3 DEF Safe


\* When travel times are ordinary, the limits on the positions lose nothing: a
\* search inserts the order if any two positions leave the vehicle feasible,
\* and none of those would be a shorter way.
THEOREM LimitsLoseNothing ==
  ASSUME OrdinaryTimes
  PROVE  Spec => []HillClimbBest
<1>1. SearchIsSound => HillClimbBest
  <2>1. SUFFICES ASSUME SearchIsSound, pc = "done", start.user_twv = 0,
                        NEW p \in 2..(Len(start.path) + 1),
                        NEW q \in 2..(Len(start.path) + 1),
                        p < q, is_feasible(WithOrderAt(start, order, p, q))
                 PROVE  /\ has_order(truck, order)
                        /\ objective(truck) <= objective(WithOrderAt(start, order, p, q))
    BY DEF HillClimbBest
  <2>2. order \in Order /\ Balanced(start) /\ truck = hillClimb(start, order)
    BY <2>1 DEF SearchIsSound, AtDone, Called
  <2>3. Travels(start)
    BY <2>2 DEF Balanced
  <2>4. QED
    BY <2>1, <2>2, <2>3, HillClimbLosesNothing
<1>2. QED
  BY <1>1, AlwaysSound, PTL

\* When travel times are ordinary, nothing that is done to a feasible vehicle
\* makes it infeasible, neither the searches nor erasing one of its orders,
\* whatever the stops and the violations are that the vehicle started with.
THEOREM OperationsKeepFeasible ==
  ASSUME OrdinaryTimes
  PROVE  Spec => SearchKeepsFeasible
<1> DEFINE Erased == (pc = "idle" /\ \E o \in Order : Erase(o))
                       => (is_feasible(truck) => is_feasible(truck'))
           Inserted == /\ (pc = "idle" /\ \E o \in Order : SemiLIFO(o))
                            => (is_feasible(truck) => is_feasible(truck'))
                       /\ (pc = "done" /\ is_feasible(start)) => is_feasible(truck)
           Safe == /\ (pc = "idle" /\ \E o \in Order : SemiLIFO(o) \/ Erase(o))
                        => (is_feasible(truck) => is_feasible(truck'))
                   /\ (pc = "done" /\ is_feasible(start)) => is_feasible(truck)
<1>1. SearchIsSound => Erased
  <2>1. SUFFICES ASSUME SearchIsSound, pc = "idle", NEW o \in Order, Erase(o),
                        is_feasible(truck)
                 PROVE  is_feasible(truck')
    OBVIOUS
  <2>2. Balanced(truck)
    BY <2>1 DEF SearchIsSound
  <2>3. Delivery(o) \in Nodes(truck.path) /\ truck' = erase(truck, o)
    BY <2>1, <2>2 DEF Erase, has_order, Balanced, Travels
  <2>4. QED
    BY <2>1, <2>2, <2>3, ErasingKeepsFeasible
<1>2. Spec => [][Inserted]_vars
  BY InsertingKeepsFeasible
<1>3. SearchIsSound /\ [Next]_vars /\ [Inserted]_vars => [Safe]_vars
  BY <1>1
<1> HIDE DEF Inserted, Safe
<1>4. Spec => [][Safe]_vars
  BY <1>2, <1>3, AlwaysSound, PTL DEF Spec
<1>5. QED
  BY <1>4 DEF Safe, SearchKeepsFeasible

===============================================================================
