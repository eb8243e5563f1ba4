------------------------------ MODULE Solution ------------------------------
(***************************************************************************)
(* A solution: the sequence of its vehicles, what it costs and how two     *)
(* solutions compare (problem::Solution), and the operations of the two    *)
(* optimizers on the whole sequence.                                       *)
(*                                                                         *)
(* A phony vehicle holds orders that no vehicle serves; it takes no time   *)
(* and does not travel.                                                    *)
(***************************************************************************)
EXTENDS VehicleRoute, TLC

\* Vehicle::duration
duration(t) ==
  IF is_phony(t) THEN 0 ELSE Last(t.path).arrival - Head(t.path).departure

\* Vehicle::total_wait_time
total_wait_time(t) == IF is_phony(t) THEN 0 ELSE Last(t.path).wait

\* Vehicle::empty
empty(t) == Len(t.path) <= 2

\* Vehicle::path_str: the kinds of the stops and their orders.  A starting or
\* an ending site does not say which vehicle it belongs to.
path_str(t) ==
  [p \in DOMAIN t.path |->
     LET n == t.path[p].node
     IN  IF n[1] \in {"kStart", "kEnd"} THEN <<n[1]>> ELSE n]

-----------------------------------------------------------------------------

Total(Of(_), fleet) == Iterated(LAMBDA sum, k : sum + Of(fleet[k]), 0, Len(fleet))

FleetObjective(fleet) == Total(total_travel_time, fleet)
FleetDuration(fleet) == Total(duration, fleet)
FleetWait(fleet) == Total(total_wait_time, fleet)
FleetTwv(fleet) == Total(twvTot, fleet)
FleetCv(fleet) == Total(cvTot, fleet)

FleetFeasible(fleet) == \A k \in DOMAIN fleet : is_feasible(fleet[k])

\* Solution::cost, the part that operator< looks at.
Cost(fleet) ==
  <<FleetTwv(fleet), FleetCv(fleet), Len(fleet), FleetWait(fleet), FleetDuration(fleet)>>

\* Is the tuple a lexicographically less than b, of the same length?
LexLess(a, b) ==
  \E k \in DOMAIN a : a[k] < b[k] /\ \A l \in 1..(k - 1) : a[l] = b[l]

\* Solution::operator<
Less(lhs, rhs) == LexLess(Cost(lhs), Cost(rhs))

-----------------------------------------------------------------------------

\* The results of sorting the numbers 1..n, position by position; before holds
\* the pairs of which the first has to come first.
Arrangements(n, before) ==
  LET Left(p) == (1..n) \ {p[j] : j \in DOMAIN p}
      Least(left) == {k \in left : \A l \in left : <<l, k>> \notin before}
  IN  Iterated(LAMBDA ps, m : UNION {{Append(p, k) : k \in Least(Left(p))} : p \in ps},
               {<<>>}, n)

\* The results of sorting the fleet by Before: std::sort leaves the order of
\* equivalent vehicles open.
Sortings(fleet, Before(_, _)) ==
  LET before == {lk \in (DOMAIN fleet) \X (DOMAIN fleet) : Before(fleet[lk[1]], fleet[lk[2]])}
  IN  {[k \in DOMAIN fleet |-> fleet[p[k]]] : p \in Arrangements(Len(fleet), before)}

\* The vehicles at the positions S, in their order.
VehiclesAt(fleet, S) ==
  Iterated(LAMBDA kept, k : IF k \in S THEN Append(kept, fleet[k]) ELSE kept, <<>>, Len(fleet))

\* The vehicles that std::remove_if leaves.
Kept(fleet, Keeps(_)) == VehiclesAt(fleet, {k \in DOMAIN fleet : Keeps(fleet[k])})

\* Tuples in their lexicographic order: the values the counters of nested
\* loops take, or the iterator over a set of identifiers.
FirstOf(tuples) == CHOOSE a \in tuples : \A b \in tuples : a = b \/ LexLess(a, b)
InOrder(tuples) ==
  Iterated(LAMBDA seq, n : Append(seq, FirstOf(tuples \ {seq[j] : j \in DOMAIN seq})),
           <<>>, Cardinality(tuples))

\* The result of such loops.
Visiting(Step(_, _), base, tuples) ==
  LET visited == InOrder(tuples)
  IN  Iterated(LAMBDA s, n : Step(s, visited[n]), base, Len(visited))

\* The orders of the vehicles that the optimizers may change.
OrdersOn(fleet) == UNION {fleet[k].orders : k \in DOMAIN fleet}

\* The orders that no real vehicle serves.
PhonyOrders(fleet) == UNION {fleet[k].orders : k \in {l \in DOMAIN fleet : is_phony(fleet[l])}}

\* The orders of two vehicles of a fleet are different.
OrdersApart(fleet) ==
  \A k, l \in DOMAIN fleet : k # l => fleet[k].orders \cap fleet[l].orders = {}

\* The result of a loop over Identifiers: the orders in ascending order.
ForEach(Step(_, _), base, orders) ==
  Visiting(LAMBDA s, a : Step(s, a[1]), base, {<<o>> : o \in orders})

=============================================================================
