---------------------------- MODULE TabuOptimizer ----------------------------
(***************************************************************************)
(* The solving part of vrp_do_pickDeliver: the initial solution of         *)
(* TabuInitial, and then optimizers::tabu::Optimize, which puts the orders *)
(* of the phony vehicles on real ones, and moves single orders between     *)
(* vehicles or exchanges two, going back to the best solution (intensify)  *)
(* or to places it has not seen (diversify) when it does not get better.   *)
(*                                                                         *)
(* A step is one call of a neighbourhood, of move_2_real or the code       *)
(* between two of them.  The calls of intensify, diversify and move_2_real *)
(* go on at resume and after_intensify.                                    *)
(***************************************************************************)
EXTENDS TabuInitial, TabuList

CONSTANTS
  \* Constants of the code; its values are in the comment.
  standard_limit,      \* m_standard_limit: 30
  max_no_moves,        \* 2
  max_no_swaps,        \* 2
  max_no_improvement,  \* 1000
  wander_length,       \* 100
  max_iter,            \* 20
  orders_per_swap      \* 10

ASSUME LimitsAssumption ==
  /\ {standard_limit, max_no_moves, max_no_swaps,
      max_no_improvement, max_iter} \subseteq Nat
  /\ standard_limit > 0 /\ max_no_swaps + max_no_moves > 0
  /\ {wander_length, orders_per_swap} \subseteq Nat \ {0}

VARIABLES
  best_solution,       \* the vehicles of the best solution
  m_unassignedOrders,  \* the orders no real vehicle serves
  tabu_list,           \* TabuList: the last moves
  infeasible_list,     \* TabuList: candidates hillClimb has refused
  seen_list,           \* TabuList: candidates that have been made
  moved,               \* the answer of the last neighbourhood
  iter, no_moves, stuck_counter, curr_best,
  intensification,     \* diversification is its negation
  i, do_spi, do_sbr,   \* locals of intensify and diversify
  resume,              \* where move_2_real returns to
  after_intensify      \* where intensify returns to

lists == <<tabu_list, infeasible_list, seen_list>>
counters == <<iter, no_moves, stuck_counter, curr_best, intensification>>
locals == <<i, do_spi, do_sbr>>
solutions == <<m_fleet, best_solution, m_unassignedOrders>>
vars == <<given, solutions, lists, moved, counters, locals, resume,
          after_intensify, pc>>

-----------------------------------------------------------------------------

m_max_cycles == call.max_cycles
m_stop_on_all_served == call.stop_on_all_served
m_optimize == call.optimize    \* FALSE: only place the orders

are_all_served == m_unassignedOrders = {}
max_length == Max({Cardinality(Order), standard_limit})

\* sort_by_size: the phony vehicles in front, then, asc, the smallest first.
\* The phony vehicles have one identifier, -1, the least of all.
Id(t) == IF is_phony(t) THEN -1 ELSE t.idx
Smaller(s, t) ==
  \/ Cardinality(s.orders) < Cardinality(t.orders)
  \/ Cardinality(s.orders) = Cardinality(t.orders) /\ Id(s) < Id(t)
PhonyFirst(s, t) == is_phony(s) /\ ~is_phony(t)
BySize(fleet, asc) ==
  Sortings(fleet, LAMBDA s, t :
    \/ PhonyFirst(s, t)
    \/ ~PhonyFirst(t, s) /\ IF asc THEN Smaller(s, t) ELSE Smaller(t, s))

delete_empty_truck(fleet) == Kept(fleet, LAMBDA t : ~(t.orders = {} /\ is_phony(t)))

\* Fault: the latest solution is the best one.
save_always(fleet) == fleet

\* save_if_best: the best solution once fleet is the current one.
save_if_best(fleet) ==
  IF FleetObjective(fleet) < FleetObjective(best_solution) THEN fleet
  ELSE best_solution

(***************************************************************************)
(* move_2_real.                                                            *)
(***************************************************************************)

\* The vehicle t after it was asked to take order o.
Tried(t, o) ==
  IF ~is_phony(t) /\ o \in feasible_orders[t.idx] /\ ~has_order(t, o)
  THEN hillClimb(t, o) ELSE t

\* Is the vehicle at l, that would become tried, cheaper than the best one
\* before it?
CheaperVehicle(fleet, o, best, l, tried) ==
  LET score == FleetObjective(fleet) + total_travel_time(tried) - total_travel_time(fleet[l])
  IN  IF /\ has_order(tried, o) /\ ~has_order(fleet[l], o)
         /\ best.score = 0 \/ score < best.score
      THEN [score |-> score, at |-> l] ELSE best

\* The vehicle that takes order o of the phony vehicle at k at the least
\* cost; score 0 when no vehicle does.
RealVehicleFor(fleet, k, o) ==
  Iterated(LAMBDA best, l : CheaperVehicle(fleet, o, best, l, Tried(fleet[l], o)),
           [score |-> 0, at |-> k], Len(fleet))

\* The orders of the phony vehicles, with the positions of the vehicles.
PhonyPlaces(fleet) ==
  {place \in (DOMAIN fleet) \X Order :
     LET t == fleet[place[1]] IN is_phony(t) /\ ~empty(t) /\ has_order(t, place[2])}

\* Fault: the order stays on the phony vehicle as well.
PlaceAndKeep(s, k, o, best) ==
  LET fleet == [s.fleet EXCEPT ![best.at] = hillClimb(@, o)]
  IN  IF best.score = 0 THEN s
      ELSE [fleet |-> fleet, left |-> s.left \ {o}, best |-> fleet]

\* Fault: the best solution is replaced only by a shorter one.
PlaceIfShorter(s, k, o, best) ==
  LET fleet == [s.fleet EXCEPT ![k] = erase(@, o), ![best.at] = hillClimb(@, o)]
  IN  IF best.score = 0 THEN s
      ELSE [fleet |-> fleet, left |-> s.left \ {o},
            best |-> IF FleetObjective(fleet) < FleetObjective(s.best) THEN fleet ELSE s.best]

\* Order o of the phony vehicle at k moves to the real vehicle that is best
\* for it, if there is one, and the solution becomes the best one.
PlaceOnReal(s, k, o, best) ==
  LET fleet == [s.fleet EXCEPT ![k] = erase(@, o), ![best.at] = hillClimb(@, o)]
  IN  IF best.score = 0 THEN s
      ELSE [fleet |-> fleet, left |-> s.left \ {o}, best |-> fleet]

Placed ==
  IF are_all_served THEN [fleet |-> m_fleet, left |-> {}, best |-> best_solution]
  ELSE Visiting(LAMBDA s, at : PlaceOnReal(s, at[1], at[2], RealVehicleFor(s.fleet, at[1], at[2])),
                [fleet |-> m_fleet, left |-> m_unassignedOrders, best |-> best_solution],
                PhonyPlaces(m_fleet))

MoveToReal ==
  /\ pc = "move_2_real"
  /\ \E placed \in {Placed} :
       /\ m_fleet' = placed.fleet
       /\ m_unassignedOrders' = placed.left
       /\ best_solution' = placed.best
       /\ tabu_list' = IF placed.left = m_unassignedOrders THEN tabu_list ELSE <<>>
  /\ pc' = resume
  /\ UNCHANGED <<infeasible_list, seen_list, given, moved, counters, locals,
                 resume, after_intensify>>

(***************************************************************************)
(* single_pair_insertion.                                                  *)
(***************************************************************************)

\* From the vehicle at c[1] the order c[2] to the vehicle at c[3].  An empty
\* vehicle is tried only while there are phony ones.
Insertions(f) ==
  LET has_phony == \E k \in DOMAIN f : is_phony(f[k])
  IN  {c \in (DOMAIN f) \X Order \X (DOMAIN f) :
         /\ c[1] # c[3] /\ ~is_phony(f[c[1]]) /\ ~is_phony(f[c[3]])
         /\ c[2] \in f[c[1]].orders
         /\ has_phony \/ ~empty(f[c[3]])
         /\ c[2] \in feasible_orders[f[c[3]].idx]}

InsertionKey(f, c) == <<path_str(f[c[3]]), c[2]>>

\* The vehicles after the insertion c into the vehicle that became longer.
Inserted(f, c) ==
  [f EXCEPT ![c[1]] = erase(@, c[2]), ![c[3]] = hillClimb(@, c[2])]

\* Fault: a tabu move is made when it improves the current solution.
InsertionIfBetterThanNow(f, c, inserted, estimated, score) ==
  LET emptied == empty(inserted[c[1]])
  IN  /\ is_feasible(inserted[c[1]])
      /\ estimated < score \/ emptied \/ score = 0
      /\ \/ ~has_move(tabu_list, f[c[1]].idx, f[c[3]].idx, c[2])
         \/ estimated < FleetObjective(f) \/ emptied

\* Is the insertion c, which would cost estimated, better than the ones before
\* it, the best of which would cost score?  A tabu move has to be better than
\* the best solution, unless it empties a vehicle.
InsertionIsBetter(f, c, inserted, estimated, score) ==
  LET emptied == empty(inserted[c[1]])
  IN  /\ is_feasible(inserted[c[1]])
      /\ estimated < score \/ emptied \/ score = 0
      /\ \/ ~has_move(tabu_list, f[c[1]].idx, f[c[3]].idx, c[2])
         \/ estimated < FleetObjective(best_solution) \/ emptied

\* The search so far, acc, after the insertion c of the key was looked at.
WeighInsertion(f, diversify, acc, c, key, inserted) ==
  IF key \in acc.refused \/ (diversify /\ key \in seen_list) THEN acc
  ELSE IF ~has_order(inserted[c[3]], c[2]) THEN [acc EXCEPT !.refused = @ \cup {key}]
  ELSE IF InsertionIsBetter(f, c, inserted, FleetObjective(inserted), acc.score)
       THEN [acc EXCEPT !.score = FleetObjective(inserted), !.choice = <<c>>]
       ELSE acc

NothingFound(f, intensify) ==
  [score |-> IF intensify THEN FleetObjective(f) ELSE 0, choice |-> <<>>,
   refused |-> infeasible_list]

BestInsertion(f, intensify, diversify) ==
  Visiting(LAMBDA acc, c :
             WeighInsertion(f, diversify, acc, c, InsertionKey(f, c), Inserted(f, c)),
           NothingFound(f, intensify), Insertions(f))

\* No move: only the sorting and the refused candidates remain.
NoMove(f, found) ==
  /\ found.choice = <<>>
  /\ moved' = FALSE
  /\ m_fleet' = f
  /\ infeasible_list' = found.refused
  /\ UNCHANGED <<best_solution, tabu_list, seen_list, m_unassignedOrders>>

\* The move leads to the fleet f; it becomes tabu, and its keys are seen.
MakeMove(found, f, move, keys) ==
  /\ moved' = TRUE
  /\ m_fleet' = f
  /\ best_solution' = save_if_best(f)
  /\ infeasible_list' = found.refused
  /\ tabu_list' = add(tabu_list, move, max_length)
  /\ seen_list' = seen_list \cup keys
  /\ UNCHANGED m_unassignedOrders

\* The call: the fleet is sorted and the best insertion is made.
single_pair_insertion(intensify, diversify) ==
  \E f \in BySize(m_fleet, TRUE) : \E found \in {BestInsertion(f, intensify, diversify)} :
    \/ NoMove(f, found)
    \/ \E c \in Range(found.choice) :
         MakeMove(found, Inserted(f, c), Move(f[c[1]].idx, f[c[3]].idx, c[2]),
                  {InsertionKey(f, c)})

(***************************************************************************)
(* swap_between_routes.                                                    *)
(***************************************************************************)

\* The order c[2] of the vehicle at c[1] against the order c[4] of the
\* vehicle at c[3].
Exchanges(f) ==
  {c \in (DOMAIN f) \X Order \X (DOMAIN f) \X Order :
     /\ c[1] < c[3] /\ ~is_phony(f[c[1]]) /\ ~is_phony(f[c[3]])
     /\ c[2] \in f[c[1]].orders /\ c[4] \in f[c[3]].orders
     /\ c[2] \in feasible_orders[f[c[3]].idx]
     /\ c[4] \in feasible_orders[f[c[1]].idx]}

\* The fleet with both orders off.
Apart(f, c) == [f EXCEPT ![c[1]] = erase(@, c[2]), ![c[3]] = erase(@, c[4])]

ToKey(apart, c) == <<path_str(apart[c[3]]), c[2]>>
FromKey(apart, c) == <<path_str(apart[c[1]]), c[4]>>

Exchanged(apart, c) ==
  [apart EXCEPT ![c[1]] = hillClimb(@, c[4]), ![c[3]] = hillClimb(@, c[2])]

ExchangeIsBetter(f, c, estimated, score) ==
  /\ estimated < score \/ score = 0
  /\ \/ ~has_swap(tabu_list, f[c[1]].idx, f[c[3]].idx, c[2], c[4])
     \/ estimated < FleetObjective(best_solution)

\* Is the exchange left out, for what is known before it is tried?
PassedOver(diversify, acc, c, apart) ==
  \/ ~is_feasible(apart[c[1]]) \/ ~is_feasible(apart[c[3]])
  \/ ToKey(apart, c) \in acc.refused \/ FromKey(apart, c) \in acc.refused
  \/ diversify /\ {ToKey(apart, c), FromKey(apart, c)} \subseteq seen_list

WeighExchange(f, diversify, acc, c, apart, exchanged) ==
  IF PassedOver(diversify, acc, c, apart) THEN acc
  ELSE IF ~has_order(exchanged[c[3]], c[2])
       THEN [acc EXCEPT !.refused = @ \cup {ToKey(apart, c)}]
  ELSE IF ~has_order(exchanged[c[1]], c[4])
       THEN [acc EXCEPT !.refused = @ \cup {FromKey(apart, c)}]
  ELSE IF ExchangeIsBetter(f, c, FleetObjective(exchanged), acc.score)
       THEN [acc EXCEPT !.score = FleetObjective(exchanged), !.choice = <<c>>]
       ELSE acc

BestExchange(f, intensify, diversify) ==
  Visiting(LAMBDA acc, c : \* the exchange c, with both orders off and after it
             WeighExchange(f, diversify, acc, c, Apart(f, c), Exchanged(Apart(f, c), c)),
           NothingFound(f, intensify), Exchanges(f))

swap_between_routes(intensify, diversify) ==
  \E f \in BySize(m_fleet, FALSE) : \E found \in {BestExchange(f, intensify, diversify)} :
    \/ NoMove(f, found)
    \/ \E c \in Range(found.choice) : \E apart \in {Apart(f, c)} :
         MakeMove(found, Exchanged(apart, c),
                  Swapping(f[c[1]].idx, f[c[3]].idx, c[2], c[4]),
                  {ToKey(apart, c), FromKey(apart, c)})

(***************************************************************************)
(* The constructor and tabu_search.                                        *)
(***************************************************************************)

Init ==
  /\ InitialInit
  /\ best_solution = <<>>
  /\ m_unassignedOrders = {}
  /\ tabu_list = <<>> /\ infeasible_list = {} /\ seen_list = {}
  /\ moved = FALSE
  /\ iter = 0 /\ no_moves = 0 /\ stuck_counter = 0 /\ curr_best = 0
  /\ intensification = FALSE
  /\ i = 0 /\ do_spi = TRUE /\ do_sbr = TRUE
  /\ resume = "prepared" /\ after_intensify = "stuck"

BuildInitial ==
  /\ Initial_solution
  /\ UNCHANGED <<best_solution, m_unassignedOrders, lists, moved, counters, locals,
                 resume, after_intensify>>

\* The constructor, and tabu_search up to the first move_2_real.
Start ==
  /\ pc = "start"
  /\ best_solution' = m_fleet
  /\ m_fleet' \in BySize(m_fleet, TRUE)
  /\ m_unassignedOrders' = PhonyOrders(m_fleet')
  /\ pc' = "move_2_real" /\ resume' = "prepared"
  /\ UNCHANGED <<lists, given, moved, counters, locals, after_intensify>>

Prepared ==
  /\ pc = "prepared"
  /\ m_fleet' = delete_empty_truck(m_fleet)
  /\ pc' = IF ~m_optimize \/ (m_stop_on_all_served /\ are_all_served)
           THEN "finish" ELSE "cycle"
  /\ UNCHANGED <<best_solution, m_unassignedOrders, lists, given, moved, counters,
                 locals, resume, after_intensify>>

\* The head of the loop.
Cycle ==
  /\ pc = "cycle"
  /\ IF iter < m_max_cycles
     THEN /\ curr_best' = FleetObjective(best_solution)
          /\ IF stuck_counter = max_no_improvement
             THEN pc' = "intensify" /\ after_intensify' = "stuck"
             ELSE pc' = "explore" /\ UNCHANGED after_intensify
     ELSE pc' = "finish" /\ UNCHANGED <<curr_best, after_intensify>>
  /\ UNCHANGED <<solutions, lists, given, moved, iter, no_moves, stuck_counter,
                 intensification, locals, resume>>

\* Intensifying a search that is stuck was of no use, or was.
Stuck ==
  /\ pc = "stuck"
  /\ pc' = IF FleetObjective(best_solution) = curr_best THEN "finish" ELSE "explore"
  /\ UNCHANGED <<solutions, lists, given, moved, counters, locals, resume,
                 after_intensify>>

\* The neighbourhood of this turn.
do_insertion == no_moves < max_no_moves

Explore ==
  /\ pc = "explore"
  /\ IF do_insertion THEN single_pair_insertion(FALSE, FALSE)
     ELSE swap_between_routes(FALSE, FALSE)
  /\ pc' = "explored"
  /\ UNCHANGED <<given, counters, locals, resume, after_intensify>>

\* After the neighbourhood: the phony vehicles that an insertion emptied go,
\* and the orders that are left may find a place now.
Explored ==
  /\ pc = "explored"
  /\ m_fleet' = IF do_insertion THEN delete_empty_truck(m_fleet) ELSE m_fleet
  /\ resume' = "counted"
  /\ pc' = IF moved /\ ~are_all_served THEN "move_2_real" ELSE "counted"
  /\ UNCHANGED <<best_solution, m_unassignedOrders, lists, given, moved, counters,
                 locals, after_intensify>>

served_and_stop == m_stop_on_all_served /\ are_all_served

\* Turns without a move are counted; after a fruitless exchange the search
\* goes back to the best solution.
Counted ==
  /\ pc = "counted"
  /\ IF served_and_stop
     THEN pc' = "finish" /\ UNCHANGED <<no_moves, after_intensify>>
     ELSE /\ no_moves' = IF moved THEN 0 ELSE no_moves + 1
          /\ IF ~moved /\ ~do_insertion
             THEN pc' = "intensify" /\ after_intensify' = "judge"
             ELSE pc' = "judge" /\ UNCHANGED after_intensify
  /\ UNCHANGED <<solutions, lists, given, moved, iter, stuck_counter, curr_best,
                 intensification, locals, resume>>

\* The end of a turn of the loop: it is the last one, or the best solution is
\* better than at the head, or the search wanders and, every wander_length
\* turns, either goes back to the best solution or away from it.
Judge ==
  /\ pc = "judge"
  /\ LET better == curr_best # FleetObjective(best_solution)
         stuck == stuck_counter + 1
     IN  IF no_moves >= max_no_swaps + max_no_moves \/ served_and_stop
         THEN pc' = "finish"
              /\ UNCHANGED <<stuck_counter, intensification, after_intensify, i, moved>>
         ELSE IF better
         THEN stuck_counter' = 0 /\ pc' = "next"
              /\ UNCHANGED <<intensification, after_intensify, i, moved>>
         ELSE /\ stuck_counter' = stuck
              /\ IF stuck % wander_length = 0
                 THEN /\ intensification' = ~intensification
                      /\ after_intensify' = "next"
                      /\ i' = 0 /\ moved' = TRUE
                      /\ pc' = IF intensification' THEN "intensify" ELSE "diversify"
                 ELSE pc' = "next"
                      /\ UNCHANGED <<intensification, after_intensify, i, moved>>
  /\ UNCHANGED <<solutions, lists, given, iter, no_moves, curr_best, do_spi, do_sbr,
                 resume>>

NextTurn ==
  /\ pc = "next"
  /\ iter' = iter + 1
  /\ pc' = "cycle"
  /\ UNCHANGED <<solutions, lists, given, moved, no_moves, stuck_counter, curr_best,
                 intensification, locals, resume, after_intensify>>

\* The end of the constructor.  Whatever m_fleet is and however it was
\* cleaned, the best solution takes its place.
Finish ==
  /\ pc = "finish"
  /\ m_fleet' = best_solution
  /\ pc' = "done"
  /\ UNCHANGED <<best_solution, m_unassignedOrders, lists, given, moved, counters,
                 locals, resume, after_intensify>>

(***************************************************************************)
(* intensify: insertions while they improve, then exchanges.               *)
(***************************************************************************)

Intensify ==
  /\ pc = "intensify"
  /\ m_fleet' = best_solution
  /\ do_spi' = TRUE /\ do_sbr' = TRUE /\ i' = 0
  /\ pc' = "insert"
  /\ UNCHANGED <<best_solution, m_unassignedOrders, lists, given, moved, counters,
                 resume, after_intensify>>

IntensifyInsert ==
  /\ pc = "insert" /\ do_spi /\ i < max_iter
  /\ single_pair_insertion(TRUE, FALSE)
  /\ do_spi' = moved' /\ i' = i + 1
  /\ resume' = "insert"
  /\ pc' = IF do_spi' /\ ~are_all_served THEN "move_2_real" ELSE "insert"
  /\ UNCHANGED <<given, counters, do_sbr, after_intensify>>

InsertsTried ==
  /\ pc = "insert" /\ ~(do_spi /\ i < max_iter)
  /\ i' = 0 /\ pc' = "exchange"
  /\ UNCHANGED <<solutions, lists, given, moved, counters, do_spi, do_sbr, resume,
                 after_intensify>>

\* It is do_spi that is asked before move_2_real, not do_sbr.
IntensifyExchange ==
  /\ pc = "exchange" /\ do_sbr /\ i < max_iter
  /\ swap_between_routes(TRUE, FALSE)
  /\ do_sbr' = moved' /\ i' = i + 1
  /\ resume' = "exchange"
  /\ pc' = IF do_spi /\ ~are_all_served THEN "move_2_real" ELSE "exchange"
  /\ UNCHANGED <<given, counters, do_spi, after_intensify>>

ExchangesTried ==
  /\ pc = "exchange" /\ ~(do_sbr /\ i < max_iter)
  /\ pc' = after_intensify
  /\ UNCHANGED <<solutions, lists, given, moved, counters, locals, resume,
                 after_intensify>>

(***************************************************************************)
(* diversify: moves that were never made, then any exchange.               *)
(***************************************************************************)

max_swaps == Min({Len(m_fleet), Cardinality(Order) \div orders_per_swap})

Diversify ==
  /\ pc = "diversify"
  /\ pc' = IF moved /\ i < max_swaps THEN "unseen insert" ELSE "next"
  /\ UNCHANGED <<solutions, lists, given, moved, counters, locals, resume,
                 after_intensify>>

\* Fault: the turns are not counted.
DiversifyUncounted(here, neighbourhood, otherwise) ==
  /\ pc = here
  /\ neighbourhood
  /\ i' = i
  /\ resume' = "diversify"
  /\ pc' = IF ~moved' THEN otherwise
           ELSE IF are_all_served THEN "diversify" ELSE "move_2_real"
  /\ UNCHANGED <<given, counters, do_spi, do_sbr, after_intensify>>

\* One of the three neighbourhoods of a turn: on to the next one if it finds
\* no move.
DiversifyBy(here, neighbourhood, otherwise) ==
  /\ pc = here
  /\ neighbourhood
  /\ i' = IF moved' \/ otherwise = "diversify" THEN i + 1 ELSE i
  /\ resume' = "diversify"
  /\ pc' = IF ~moved' THEN otherwise
           ELSE IF are_all_served THEN "diversify" ELSE "move_2_real"
  /\ UNCHANGED <<given, counters, do_spi, do_sbr, after_intensify>>

InsertUnseen == DiversifyBy("unseen insert", single_pair_insertion(FALSE, TRUE), "unseen exchange")
ExchangeUnseen == DiversifyBy("unseen exchange", swap_between_routes(FALSE, TRUE), "any exchange")
ExchangeAny == DiversifyBy("any exchange", swap_between_routes(FALSE, FALSE), "diversify")

Terminated == pc \in {"done", "failed"} /\ UNCHANGED vars

Next ==
  \/ BuildInitial \/ Start \/ Prepared
  \/ Cycle \/ Stuck \/ Explore \/ Explored \/ Counted \/ Judge
  \/ NextTurn \/ Finish \/ MoveToReal
  \/ Intensify \/ IntensifyInsert \/ InsertsTried \/ IntensifyExchange \/ ExchangesTried
  \/ Diversify \/ InsertUnseen \/ ExchangeUnseen \/ ExchangeAny
  \/ Terminated

\* A call runs in one thread and waits for nothing.  As no state is a
\* deadlock, this is weak fairness of Next, spelled without ENABLED.
Fairness == []<>(pc \in {"done", "failed"}) \/ []<><<Next>>_vars

Spec == Init /\ [][Next]_vars /\ Fairness

-----------------------------------------------------------------------------

\* The shape of a fleet, the paths aside.
FleetShape(fleet) ==
  \A k \in DOMAIN fleet :
    /\ fleet[k] = [idx |-> fleet[k].idx, path |-> fleet[k].path, orders |-> fleet[k].orders,
                   user_twv |-> fleet[k].user_twv, user_cv |-> fleet[k].user_cv]
    /\ fleet[k].idx \in Truck /\ fleet[k].orders \subseteq Order

Moves ==
  [vid1 : RealTrucks, vid2 : RealTrucks, oid1 : Order, oid2 : Order \cup {0}, is_swap : BOOLEAN]

Searching == pc \notin {"stops", "unused", "phony", "start", "failed"}

\* Every variable has its type; the list of moves keeps to its length and
\* names a move once.
TypeOK ==
  /\ m_all_orders \subseteq Order /\ m_assigned \subseteq Order
  /\ m_unassigned \subseteq Order /\ to_place \subseteq m_unassigned
  /\ FleetShape(trucks) /\ FleetShape(m_fleet) /\ FleetShape(best_solution)
  /\ m_unassignedOrders \subseteq Order
  /\ Range(tabu_list) \subseteq Moves /\ IsInjective(tabu_list)
  /\ Len(tabu_list) <= max_length
  /\ \A key \in infeasible_list \cup seen_list : Len(key) = 2 /\ key[2] \in Order
  /\ {moved, intensification, do_spi, do_sbr} \subseteq BOOLEAN
  /\ iter \in 0..m_max_cycles /\ no_moves \in 0..(max_no_swaps + max_no_moves)
  /\ {stuck_counter, curr_best, i} \subseteq Nat

\* m_unassignedOrders is computed once and then kept up to date by
\* move_2_real alone, while the fleet is replaced by that of the best solution
\* again and again: in both, it is what the phony vehicles hold.
UnassignedArePhony ==
  Searching =>
    /\ PhonyOrders(m_fleet) = m_unassignedOrders
    /\ PhonyOrders(best_solution) = m_unassignedOrders

\* No neighbourhood loses an order or has it on two vehicles: the current
\* and the best solution share out the same orders.
EachOrderOnce ==
  /\ OrdersApart(m_fleet) /\ OrdersApart(best_solution)
  /\ Searching => OrdersOn(m_fleet) = OrdersOn(best_solution)

\* Both solutions stay as feasible as the users' stops were, although a move
\* is made on other copies of the vehicles than it was tried on and the
\* vehicles an order leaves are not tested again.
FleetsAreFeasible ==
  Searching => FleetFeasible(m_fleet) /\ FleetFeasible(best_solution)

\* The current and the best solution remain solutions, and the list of moves
\* keeps to its length, through every step of the search.
SolutionsAreSound == TypeOK /\ EachOrderOnce /\ FleetsAreFeasible

\* The real vehicle of a fleet that has order o; the phony one if none has.
VehicleOf(fleet, o) ==
  LET with == {k \in DOMAIN fleet : o \in fleet[k].orders /\ ~is_phony(fleet[k])}
  IN  IF with = {} THEN PhonyTruck ELSE fleet[Min(with)].idx

Relocated == {o \in OrdersOn(m_fleet) : VehicleOf(m_fleet, o) # VehicleOf(m_fleet', o)}

\* A move that is on the tabu list is made only if it leads to a solution
\* better than the best one, or leaves a vehicle without orders.
TabuIsRespected ==
  [][(/\ Searching /\ moved' /\ pc \notin {"move_2_real", "intensify", "finish"}
      /\ Cardinality(Relocated) = 1) =>
       \A o \in Relocated :
         LET from == VehicleOf(m_fleet, o)
             to == VehicleOf(m_fleet', o)
         IN  \/ ~has_move(tabu_list, from, to, o)
             \/ FleetObjective(m_fleet') < FleetObjective(best_solution)
             \/ \E k \in DOMAIN m_fleet' : m_fleet'[k].idx = from /\ empty(m_fleet'[k])]_vars

\* What matters to the search: first the orders that are not served, then the
\* travel time.
Value(fleet) == <<Cardinality(PhonyOrders(fleet)), FleetObjective(fleet)>>

Search ==
  INSTANCE Improvement WITH
    orders <- OrdersOn(best_solution),
    best <- Value(best_solution),
    result <- IF pc = "done" THEN Value(m_fleet) ELSE <<>>,
    finished <- pc = "done"

\* The search keeps the promise of Improvement, although move_2_real takes the
\* solution it arrives at as the best one without comparing it: serving an
\* order that was not served makes up for any travel time.
ImplementsImprovement ==
  [][Searching => (Search!Next \/ UNCHANGED Search!vars)]_vars

\* The call ends, whatever the neighbourhoods find: each of the loops of the
\* search is bounded, and none is started over.  It fails for illegal stops
\* only: late or overloaded stops, unmovable orders and orders that are never
\* delivered are no error for the assertions of set_initial_solution and of
\* process_unassigned.
Terminates == <>(pc = "done" \/ (pc = "failed" /\ IllegalStops))

=============================================================================
