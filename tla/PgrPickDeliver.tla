--------------------------- MODULE PgrPickDeliver ---------------------------
(***************************************************************************)
(* The solving part of vrp_do_pgr_pickDeliver and of its Euclidean twin:   *)
(* an initial solution of the kind the user asks for, or the best of six   *)
(* kinds, and then the simple optimizer on it.  SimpleInitial, whose names *)
(* are about one construction, and SimpleOptimizer run one after the       *)
(* other; what is said of the whole call has names of its own.             *)
(***************************************************************************)
EXTENDS SimpleInitial, SimpleOptimizer

CONSTANTS
  Problems,         \* orders and vehicles: records [orders, trucks]
  AskedFor,         \* the values of initial_solution_id, "Best" for 0
  MaxCycles         \* the values of max_cycles

\* The kinds that are built when the user leaves the choice open, in order;
\* OneDepot is not among them.
SixKinds == <<"OnePerTruck", "FrontTruck", "BackTruck", "BestInsert", "BestBack", "BestFront">>

\* The drivers return early when there are no orders.
ASSUME CallAssumption ==
  /\ \A p \in Problems : p.orders # {}
  /\ AskedFor \subseteq Initials_code \cup {"Best"}
  /\ "Best" \in AskedFor => Range(SixKinds) \subseteq Initials_code
  /\ MaxCycles \subseteq Nat

VARIABLES
  initial_solution_id,
  sols              \* the initial solutions that are finished, in order

callVars == <<initial_solution_id, vars, sols, optimizerVars>>

KindsTried == IF initial_solution_id = "Best" THEN SixKinds ELSE <<initial_solution_id>>

\* The kind the optimizer is told: 0 stands for a kind that is not OneDepot.
KindTold == IF initial_solution_id = "Best" THEN "OneTruck" ELSE initial_solution_id

CallInit ==
  /\ initial_solution_id \in AskedFor
  /\ kind = KindsTried[1]
  /\ \E p \in Problems : all_orders = p.orders /\ trucks = p.trucks
  /\ Init
  /\ sols = <<>>
  /\ m_fleet = <<>> /\ best_solution = <<>>
  /\ m_kind = KindTold
  /\ times \in MaxCycles
  /\ cycle = 0 /\ position = 0 /\ decreased = FALSE /\ from = 0 /\ to = 0
  /\ pc = "initial"

\* A step of the construction.
Construct ==
  /\ pc = "initial" /\ Next
  /\ UNCHANGED <<initial_solution_id, sols, optimizerVars>>

\* A solution is finished, and another kind is to be tried.  The constructor
\* of PickDeliver has run once, but each solution starts from a copy of its
\* fleet.
NextKind ==
  /\ pc = "initial" /\ building = "done"
  /\ Len(sols) + 1 < Len(KindsTried)
  /\ sols' = Append(sols, built)
  /\ kind' = KindsTried[Len(sols) + 2]
  /\ UNCHANGED <<all_orders, trucks>>
  /\ unassigned' = all_orders /\ assigned' = {}
  /\ m_unused' = {v \in trucks : is_ok(v)} /\ m_used' = {}
  /\ built' = <<>> /\ truck' = NewTruck(PhonyTruck) /\ current_feasible' = {}
  /\ building' = "outer"
  /\ UNCHANGED <<initial_solution_id, optimizerVars>>

\* Fault: a later solution replaces an earlier one whatever it costs.
ChosenLast(candidates) == Last(candidates)

\* get_initial_solution: a solution replaces the one before it if it is less.
Chosen(candidates) ==
  Iterated(LAMBDA chosen, k : IF Less(candidates[k], chosen) THEN candidates[k] ELSE chosen,
           candidates[1], Len(candidates))

\* The last solution is finished and the optimizer is called.
CallOptimizer ==
  /\ pc = "initial" /\ building = "done"
  /\ Len(sols) + 1 = Len(KindsTried)
  /\ sols' = Append(sols, built)
  /\ m_fleet' = Chosen(sols') /\ best_solution' = m_fleet'
  /\ pc' = "start"
  /\ UNCHANGED <<initial_solution_id, vars, arguments, loops>>

\* A construction fails: no other kind is tried, the exception ends the call.
Fail ==
  /\ pc = "initial" /\ building = "failed"
  /\ pc' = "failed"
  /\ UNCHANGED <<initial_solution_id, vars, sols, solutions, arguments, loops>>

Solve ==
  /\ Optimize
  /\ UNCHANGED <<initial_solution_id, vars, sols>>

Terminated == pc \in {"done", "failed"} /\ UNCHANGED callVars

CallNext == Construct \/ NextKind \/ CallOptimizer \/ Fail \/ Solve \/ Terminated

CallSpec == CallInit /\ [][CallNext]_callVars

\* One thread that waits for nothing.  As no state is a deadlock, this is weak
\* fairness of CallNext, spelled without ENABLED.
CallFairness == []<>(pc \in {"done", "failed"}) \/ []<><<CallNext>>_callVars

FairCallSpec == CallSpec /\ CallFairness

-----------------------------------------------------------------------------

Optimizing == pc \notin {"initial", "failed"}

\* Every variable has its type; the pair of vehicles is in order.
CallTypeOK ==
  /\ \A f \in {m_fleet, best_solution} : \A k \in DOMAIN f :
       f[k].idx \in trucks /\ f[k].orders \subseteq Order
  /\ m_kind \in Initials_code \cup {"OneTruck"} /\ times \in MaxCycles
  /\ cycle \in 0..times
  /\ position \in Nat /\ decreased \in BOOLEAN
  /\ pc = "decrease" => position \in 2..(Len(m_fleet) + 1) \cup {2}
  /\ pc = "swap" => 1 <= to /\ to < from
  /\ pc \in {"initial", "failed", "start", "decrease", "cycle", "swap", "done"}

\* The optimizer shares out every order of the problem, each to one vehicle,
\* in the current and in the best solution: the copies that swap_worse works
\* on are written back in pairs, and no vehicle that still has an order is
\* deleted.
OrdersAreKept ==
  Optimizing =>
    /\ OrdersApart(m_fleet) /\ OrdersApart(best_solution)
    /\ OrdersOn(m_fleet) = all_orders /\ OrdersOn(best_solution) = all_orders

\* FrontTruck and BackTruck may leave violations.  The optimizer does not add
\* to them, although nothing looks at the vehicle that an order leaves.
NoNewViolations ==
  Optimizing =>
    /\ FleetTwv(m_fleet) + FleetCv(m_fleet) <= FleetTwv(Chosen(sols)) + FleetCv(Chosen(sols))
    /\ \A k \in DOMAIN m_fleet :
         is_feasible(m_fleet[k])
           \/ \E l \in DOMAIN Chosen(sols) :
                m_fleet[k].idx = Chosen(sols)[l].idx /\ ~is_feasible(Chosen(sols)[l])

\* The current and the best solution remain solutions through every step.
SolutionsAreSound == CallTypeOK /\ OrdersAreKept /\ NoNewViolations

\* The solution the optimizer starts from costs no more than any other that
\* was built.
StartsFromLeast ==
  pc = "start" => \A k \in DOMAIN sols : ~Less(sols[k], m_fleet)

\* The optimizer as an improvement: fewer vehicles come before less time.
Search ==
  INSTANCE Improvement WITH
    orders <- OrdersOn(best_solution),
    best <- <<Len(best_solution), FleetDuration(best_solution)>>,
    result <- IF pc = "done" THEN <<Len(m_fleet), FleetDuration(m_fleet)>> ELSE <<>>,
    finished <- pc = "done"

\* From the call of the optimizer on, the promise of Improvement is kept: a
\* solution that takes less time never has more vehicles, so that saving by
\* either of the two never makes the other worse.
ImplementsImprovement ==
  [][Optimizing => (Search!Next \/ UNCHANGED Search!vars)]_callVars

\* The call ends: decrease_truck, that calls itself as long as some vehicle
\* is emptied, moves orders only towards the front of the fleet.
CallEnds == <>(pc \in {"done", "failed"})

=============================================================================
