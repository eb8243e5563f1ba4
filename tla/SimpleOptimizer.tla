--------------------------- MODULE SimpleOptimizer ---------------------------
(***************************************************************************)
(* optimizers::simple::Optimize, as actions on the solution it is given:   *)
(* decrease_truck tries to empty the vehicles, from the front of the fleet *)
(* to its end; then, in each of the given number of cycles, the orders of  *)
(* every two vehicles are moved or exchanged.  PgrPickDeliver starts the   *)
(* optimizer on a solution of SimpleInitial.                               *)
(*                                                                         *)
(* A step is a sort, one call of decrease_truck(i), one pair of vehicles,  *)
(* or the code between them.                                               *)
(***************************************************************************)
EXTENDS Solution

VARIABLES
  m_fleet,         \* the vehicles of the current solution
  best_solution,   \* the vehicles of the best solution
  m_kind,          \* the kind of initial solution: OneDepot inserts differently
  times,           \* the cycles asked for
  cycle,           \* the cycles begun
  position,        \* the vehicle decrease_truck has come to
  decreased,       \* has decrease_truck emptied a vehicle?
  from, to,        \* the pair of vehicles inter_swap has come to
  pc

solutions == <<m_fleet, best_solution>>
arguments == <<m_kind, times>>
loops == <<cycle, position, decreased, from, to>>
optimizerVars == <<solutions, arguments, loops, pc>>

-----------------------------------------------------------------------------

\* sort_by_size: std::sort by the duration, which leaves ties open, and then
\* std::stable_sort by the number of orders.
BySize(fleet) ==
  Sortings(fleet, LAMBDA s, t :
    LexLess(<<-Cardinality(s.orders), -duration(s)>>, <<-Cardinality(t.orders), -duration(t)>>))

delete_empty_truck(fleet) == Kept(fleet, LAMBDA t : t.orders # {})

\* Fault: the latest solution is the best one.
save_always(fleet) == fleet

\* save_if_best: the best solution once fleet is the current one.
save_if_best(fleet) ==
  IF \/ FleetDuration(fleet) < FleetDuration(best_solution)
     \/ Len(fleet) < Len(best_solution)
  THEN fleet ELSE best_solution

\* How move_order, swap_worse and move_reduce_cost insert an order.
Inserted(t, o) == IF m_kind = "OneDepot" THEN semiLIFO(t, o) ELSE hillClimb(t, o)

(***************************************************************************)
(* decrease_truck.                                                         *)
(***************************************************************************)

\* The vehicles before the one at k, as they would be with order o.
Asked(fleet, k, o) == [l \in 1..(k - 1) |-> hillClimb(fleet[l], o)]
Takers(asked, o) == {l \in DOMAIN asked : has_order(asked[l], o)}

\* Order o of the vehicle at k goes to the first vehicle before it that takes
\* it: a search by hillClimb whatever the kind, and whether it is phony or not.
HandDown(fleet, k, o, asked) ==
  IF Takers(asked, o) = {} THEN fleet
  ELSE [fleet EXCEPT ![k] = erase(@, o), ![Min(Takers(asked, o))] = asked[Min(Takers(asked, o))]]

decrease_truck(fleet, k) ==
  ForEach(LAMBDA f, o : HandDown(f, k, o, Asked(f, k, o)), fleet, fleet[k].orders)

\* Sort, and start decrease_truck at the second vehicle.
Start ==
  /\ pc = "start"
  /\ m_fleet' \in BySize(m_fleet)
  /\ position' = 2 /\ decreased' = FALSE
  /\ pc' = "decrease"
  /\ UNCHANGED <<best_solution, arguments, cycle, from, to>>

\* decrease_truck(position)
DecreaseTruck ==
  /\ pc = "decrease" /\ position <= Len(m_fleet)
  /\ m_fleet' = decrease_truck(m_fleet, position)
  /\ decreased' = (decreased \/ m_fleet'[position].orders = {})
  /\ position' = position + 1
  /\ UNCHANGED <<best_solution, arguments, cycle, from, to, pc>>

\* Fault: that a vehicle was emptied is never forgotten.
DecreaseForever ==
  /\ pc = "decrease" /\ position > Len(m_fleet) /\ decreased
  /\ m_fleet' = delete_empty_truck(m_fleet)
  /\ best_solution' = save_if_best(m_fleet')
  /\ position' = 2
  /\ UNCHANGED <<decreased, arguments, cycle, from, to, pc>>

\* After a vehicle was emptied, decrease_truck calls itself.
DecreaseAgain ==
  /\ pc = "decrease" /\ position > Len(m_fleet) /\ decreased
  /\ m_fleet' = delete_empty_truck(m_fleet)
  /\ best_solution' = save_if_best(m_fleet')
  /\ position' = 2 /\ decreased' = FALSE
  /\ UNCHANGED <<arguments, cycle, from, to, pc>>

\* The end of the recursion, and the sort after it.
Decreased ==
  /\ pc = "decrease" /\ position > Len(m_fleet) /\ ~decreased
  /\ best_solution' = save_if_best(m_fleet)
  /\ m_fleet' \in BySize(m_fleet)
  /\ pc' = "cycle"
  /\ UNCHANGED <<arguments, loops>>

(***************************************************************************)
(* inter_swap: the pairs of vehicles.  s holds the two of a pair.          *)
(***************************************************************************)

WithPair(fleet, s) == [fleet EXCEPT ![from] = s.from, ![to] = s.to]

MoveTo(s, o) == [from |-> erase(s.from, o), to |-> Inserted(s.to, o)]

\* move_order, as far as it depends on the vehicles and not on the order.
MayMove(s) ==
  /\ ~empty(s.to)
  /\ ~is_phony(s.from) => ~is_phony(s.to)
  /\ Len(s.from.path) <= Len(s.to.path)

\* The vehicles of s with their orders o and other exchanged.
Exchanged(s, o, other) ==
  [from |-> Inserted(erase(s.from, o), other), to |-> Inserted(erase(s.to, other), o)]

\* Does the exchange of o and other, from s to e, make something shorter: the
\* first vehicle, the fleet, or the best solution?
ShorterExchange(fleet, s, e, o, other) ==
  LET delta == duration(e.from) + duration(e.to) - duration(s.from) - duration(s.to)
  IN  /\ has_order(e.from, other) /\ has_order(e.to, o)
      /\ \/ duration(e.from) < duration(s.from)
         \/ delta < 0
         \/ FleetDuration(WithPair(fleet, s)) + delta < FleetDuration(best_solution)

\* Order o is exchanged with the first of orders, those that the second vehicle
\* had at the beginning, for which this makes something shorter.
FirstExchange(fleet, s, o, exchanged) ==
  LET partners == {other \in DOMAIN exchanged :
                     ShorterExchange(fleet, s, exchanged[other], o, other)}
  IN  IF partners = {} THEN s ELSE exchanged[Min(partners)]

Exchange(fleet, s, o, orders) ==
  FirstExchange(fleet, s, o, [other \in orders \cap s.to.orders |-> Exchanged(s, o, other)])

\* Fault: the order stays on the vehicle it is moved from.
MoveOrExchangeKeep(fleet, s, o, orders, moved) ==
  IF MayMove(s) /\ has_order(moved.to, o) THEN [s EXCEPT !.to = moved.to]
  ELSE Exchange(fleet, s, o, orders)

\* One order of the first vehicle: moved or, failing that, exchanged.
MoveOrExchange(fleet, s, o, orders, moved) ==
  IF MayMove(s) /\ has_order(moved.to, o) THEN moved
  ELSE Exchange(fleet, s, o, orders)

swap_worse(fleet) ==
  ForEach(LAMBDA s, o : MoveOrExchange(fleet, s, o, fleet[to].orders, MoveTo(s, o)),
         [from |-> fleet[from], to |-> fleet[to]], fleet[from].orders)

\* move_reduce_cost works on copies that nobody writes back: what is left of
\* it is whether it found a move that it likes.
MoveLiked(s, t) ==
  \/ duration(t.from) + duration(t.to) < duration(s.from) + duration(s.to)
  \/ empty(t.from)
  \/ duration(t.from) + duration(t.to) < FleetDuration(best_solution)

Returned(s, t, o) ==
  [from |-> Inserted(t.from, o), to |-> erase(t.to, o), liked |-> s.liked]

TriedMove(s, t, o) ==
  CASE ~has_order(t.to, o) -> s
    [] has_order(t.to, o) /\ MoveLiked(s, t) -> [from |-> t.from, to |-> t.to, liked |-> TRUE]
    [] OTHER -> Returned(s, t, o)

move_reduce_cost(s) ==
  /\ ~empty(s.to)
  /\ ~is_phony(s.from) => ~is_phony(s.to)
  /\ ForEach(LAMBDA copies, o : TriedMove(copies, MoveTo(copies, o), o),
            [from |-> s.from, to |-> s.to, liked |-> FALSE], s.from.orders).liked

\* A cycle begins: inter_swap deletes the empty vehicles.
Cycle ==
  /\ pc = "cycle" /\ cycle < times
  /\ cycle' = cycle + 1
  /\ m_fleet' = delete_empty_truck(m_fleet)
  /\ best_solution' = save_if_best(m_fleet')
  /\ from' = 2 /\ to' = 1
  /\ pc' = "swap"
  /\ UNCHANGED <<arguments, position, decreased>>

\* Fault: a vehicle is paired with itself, too.
SwapPairItself ==
  /\ pc = "swap" /\ from <= Len(m_fleet)
  /\ \E s \in {swap_worse(m_fleet)} :
       /\ m_fleet' = WithPair(m_fleet, s)
       /\ best_solution' = IF move_reduce_cost(s) THEN save_if_best(m_fleet') ELSE best_solution
  /\ IF to = from THEN from' = from + 1 /\ to' = 1 ELSE from' = from /\ to' = to + 1
  /\ UNCHANGED <<arguments, cycle, position, decreased, pc>>

\* One pair of vehicles; a vehicle is paired with every one before it.
SwapPair ==
  /\ pc = "swap" /\ from <= Len(m_fleet)
  /\ \E s \in {swap_worse(m_fleet)} :
       /\ m_fleet' = WithPair(m_fleet, s)
       /\ best_solution' = IF move_reduce_cost(s) THEN save_if_best(m_fleet') ELSE best_solution
  /\ IF to + 1 = from THEN from' = from + 1 /\ to' = 1 ELSE from' = from /\ to' = to + 1
  /\ UNCHANGED <<arguments, cycle, position, decreased, pc>>

Rotated(fleet) == Tail(fleet) \o <<Head(fleet)>>

\* The cycle ends; the first vehicle becomes the last one.
CycleEnds ==
  /\ pc = "swap" /\ from > Len(m_fleet)
  /\ best_solution' = save_if_best(delete_empty_truck(m_fleet))
  /\ m_fleet' = Rotated(delete_empty_truck(m_fleet))
  /\ pc' = "cycle"
  /\ UNCHANGED <<arguments, loops>>

\* The best solution is handed out.
HandOut ==
  /\ pc = "cycle" /\ cycle = times
  /\ m_fleet' \in BySize(best_solution)
  /\ pc' = "done"
  /\ UNCHANGED <<best_solution, arguments, loops>>

Optimize ==
  \/ Start \/ DecreaseTruck \/ DecreaseAgain \/ Decreased
  \/ Cycle \/ SwapPair \/ CycleEnds \/ HandOut

=============================================================================
