----------------------------- MODULE HillClimb -----------------------------
(***************************************************************************)
(* The search of Vehicle_pickDeliver::hillClimb on a vehicle, one turn of  *)
(* a loop at a time.  The search moves the pickup and the delivery of the  *)
(* order along the path of the vehicle itself, evaluating what it          *)
(* disturbs, remembers the best pair of positions, takes both nodes off    *)
(* again and inserts the order at that pair.  Other modules use the        *)
(* operator hillClimb of VehicleRoute, which states the outcome; Vehicle   *)
(* shows that the loops compute it.                                        *)
(***************************************************************************)
EXTENDS VehicleRoute

VARIABLES
  truck,       \* the vehicle
  start,       \* the vehicle before the search
  order,       \* the order to insert
  pick,        \* pick_pos.first
  pick_high,   \* pick_pos.second
  drop_low,    \* deliver_pos.first
  drop,        \* deliver_range.first
  drop_high,   \* deliver_range.second
  best,        \* the best positions and their objective, or NotFound
  pc           \* "idle" | "limits" | "pick" | "drop" | "lift" | "insert" | "done"

limits == <<pick_high, drop_low, drop_high>>
search == <<start, order, pick, limits, drop, best, pc>>

NotFound == [pick |-> 0, drop |-> 0, objective |-> 0]

WithPath(t, path) == [t EXCEPT !.path = path]

\* Fault: the delivery may go before the pickup.
FirstDropAnywhere == drop_low

\* The first position of the delivery: in its range and behind the pickup.
FirstDrop == Max({drop_low, pick + 1})

\* Fault: the last of the best pairs wins.
ImprovesOrEquals ==
  /\ is_feasible(truck)
  /\ best # NotFound => objective(truck) <= best.objective

\* The vehicle as it is now is better than the best so far.
Improves ==
  /\ is_feasible(truck)
  /\ best # NotFound => objective(truck) < best.objective

\* Fault: the delivery stays on the path.
NotLifted == truck.path

\* The path without the delivery, which is not evaluated.
Lifted == RemoveAt(truck.path, drop)

-----------------------------------------------------------------------------

\* No search is going on.
Idle ==
  /\ start = <<>> /\ order = 0
  /\ pick = 0 /\ pick_high = 0 /\ drop_low = 0 /\ drop_high = 0 /\ drop = 0
  /\ best = NotFound
  /\ pc = "idle"

\* The call for order o.
Call(o) ==
  /\ pc = "idle"
  /\ start' = truck /\ order' = o
  /\ pc' = "limits"
  /\ UNCHANGED <<truck, pick, limits, drop, best>>

\* The ranges of the positions.  An empty range ends the search; otherwise the
\* pickup goes to the first position of its range.
SetLimits ==
  /\ pc = "limits"
  /\ LET low == getPosLowLimit(truck.path, Pickup(order))
         high == getPosHighLimit(truck.idx, truck.path, Pickup(order))
         dlow == getPosLowLimit(truck.path, Delivery(order))
         dhigh == getPosHighLimit(truck.idx, truck.path, Delivery(order))
     IN  IF high < low \/ dhigh < dlow
         THEN pc' = "done" /\ UNCHANGED <<truck, pick, limits>>
         ELSE /\ pick' = low /\ pick_high' = high
              /\ drop_low' = dlow + 1 /\ drop_high' = dhigh + 1
              /\ truck' = WithPath(truck, Insert(truck.idx, truck.path, low, Pickup(order)))
              /\ pc' = "pick"
  /\ UNCHANGED <<start, order, drop, best>>

\* The head of the loop over the pickup: the delivery goes to the first
\* position of its range, or next to the pickup.
NextPick ==
  /\ pc = "pick" /\ pick <= pick_high
  /\ drop' = FirstDrop
  /\ truck' = WithPath(truck, Insert(truck.idx, truck.path, drop', Delivery(order)))
  /\ pc' = "drop"
  /\ UNCHANGED <<start, order, pick, limits, best>>

\* The head of the loop over the delivery: a better pair is remembered, and
\* the delivery changes places with the next node.
NextDrop ==
  /\ pc = "drop" /\ drop <= drop_high
  /\ best' = IF Improves
             THEN [pick |-> pick, drop |-> drop, objective |-> objective(truck)]
             ELSE best
  /\ IF IsEnd(truck.path[drop + 1].node)
     THEN pc' = "lift" /\ UNCHANGED <<truck, drop>>
     ELSE /\ truck' = WithPath(truck, Swap(truck.idx, truck.path, drop, drop + 1))
          /\ drop' = drop + 1
          /\ UNCHANGED pc
  /\ UNCHANGED <<start, order, pick, limits>>

DropsTried ==
  /\ pc = "drop" /\ drop > drop_high
  /\ pc' = "lift"
  /\ UNCHANGED <<start, order, truck, pick, limits, drop, best>>

\* Fault: the position of the pickup does not follow the pickup.
LiftInPlace ==
  /\ pc = "lift"
  /\ IF IsEnd(Lifted[pick + 1].node)
     THEN truck' = WithPath(truck, Lifted) /\ pc' = "insert"
     ELSE /\ truck' = WithPath(truck, Swap(truck.idx, Lifted, pick, pick + 1))
          /\ pc' = "pick"
  /\ UNCHANGED <<start, order, pick, limits, drop, best>>

\* After the loop over the delivery: it is lifted off the path, and the pickup
\* changes places with the next node.
Lift ==
  /\ pc = "lift"
  /\ IF IsEnd(Lifted[pick + 1].node)
     THEN truck' = WithPath(truck, Lifted) /\ pc' = "insert" /\ UNCHANGED pick
     ELSE /\ truck' = WithPath(truck, Swap(truck.idx, Lifted, pick, pick + 1))
          /\ pick' = pick + 1
          /\ pc' = "pick"
  /\ UNCHANGED <<start, order, limits, drop, best>>

PicksTried ==
  /\ pc = "pick" /\ pick > pick_high
  /\ pc' = "insert"
  /\ UNCHANGED <<start, order, truck, pick, limits, drop, best>>

\* After the loops: the pickup is erased, and the order is inserted at the
\* best positions, if there are any.
InsertBest ==
  /\ pc = "insert"
  /\ LET cleared == WithPath(truck, ErasePos(truck.idx, truck.path, pick))
     IN  truck' = IF best = NotFound THEN cleared
                  ELSE WithOrderAt(cleared, order, best.pick, best.drop)
  /\ pc' = "done"
  /\ UNCHANGED <<start, order, pick, limits, drop, best>>

Return ==
  /\ pc = "done"
  /\ start' = <<>> /\ order' = 0
  /\ pick' = 0 /\ pick_high' = 0 /\ drop_low' = 0 /\ drop_high' = 0 /\ drop' = 0
  /\ best' = NotFound
  /\ pc' = "idle"
  /\ UNCHANGED truck

Search ==
  SetLimits \/ NextPick \/ NextDrop \/ DropsTried \/ Lift \/ PicksTried \/ InsertBest \/ Return

=============================================================================
