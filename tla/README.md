# vrpRouting: specifications, model checking and proofs

vrpRouting is a PostgreSQL extension that solves pick-and-deliver problems:
orders with a pickup and a delivery, each with a time window, are put on
vehicles with a capacity and a working day. This directory models the extension
from the call of a function to its last row: how rows become data, data a
problem, a problem a solution, and a solution rows. Every definition cites, in
`PROJECT.json` under `map`, the lines it models.

## The system

| component | state | operations | makes it correct |
|---|---|---|---|
| C functions (`pickDeliver.c`, ...) | position among the rows of a call | `process`, one row per call | a call fails, or answers each row once |
| drivers (`*_driver.cpp`) | none between calls | check the arguments, read, solve, emit rows | every ending has its message, rows that were freed are not answered |
| getters and checks (`cpp_common`) | a cursor, the columns found | `get_data`, `fetch_column_info`, readers, fetchers | all rows, in order, every value in range |
| `Base_Matrix` | cells, identifiers | fill, `obeys_triangle_inequality`, `fix_triangle_inequality` | an accepted matrix has real times |
| `Matrix` (`problem/matrix.cpp`) | cells, multipliers by time of day | `travel_time` | a defined multiplier at every time |
| `PickDeliver`, `Orders`, `Fleet` | orders, vehicles, nodes, compatible sets, `m_used`, `m_unused`, `m_invalid` | `build_orders`, `build_fleet`, `set_compatibles`, `clean`, `get_truck` | indices agree, no pair is excluded that a route could have, a vehicle is given away once |
| `Tw_node`, `Order` | windows, demands, compatible sets | `is_compatible_IJ`, `isCompatibleIJ` | the tests are those of the evaluation |
| `Vehicle_node`, `Vehicle` | the path, a deque of nodes with cached times, cargo and violations | `evaluate`, `insert`, `erase`, `swap`, position limits | caches are those of a full evaluation |
| `Vehicle_pickDeliver` | the path and `m_orders_in_vehicle` | `push_back`, `push_front`, `hillClimb`, `semiLIFO`, `erase`, `set_initial_solution` | set and path agree; searches keep the vehicle feasible and miss nothing |
| `Solution` | `m_fleet`, a copy of the problem's vehicles | cost, comparison, rows | every order on one route |
| `initialsol::simple` | `assigned`, `unassigned`, the vehicle being filled | nested loops over vehicles and orders | ends with every order on one route |
| `initialsol::tabu` | the vehicles with the users' stops, and a phony one for each order that is left | one pass | every order delivered once, what has started stays |
| `optimizers::simple` | the current and the best solution | exchanges, moves, removal of vehicles | the best solution never gets worse, no order is lost |
| `optimizers::tabu`, `TabuList` | the above, `m_unassignedOrders`, a bounded list of moves, a cache of infeasible candidates | insertion, exchange, `move_2_real`, `intensify`, `diversify` | the same; the caches hide no feasible move |
| `optimize` | the stops of all vehicles while it solves parts by time | subdivide, solve, merge | all stops are accounted for |
| VROOM wrapper | the locations, the matrix | scaling, conversion to and from the VROOM library | the answer speaks of the given tasks and times |

A function is called in C; on its first call it connects to SPI and calls a
driver. The driver checks the arguments, reads each query through a getter,
builds the problem (`PickDeliver`: orders, then vehicles and the phony vehicle,
then the compatible sets), starts a `Solution` with a copy of the fleet, lets an
initial solution fill its `m_fleet` and an optimizer change it, and copies its
rows. `optimize` does this once for each part of its data. The C code reports
the messages, and further calls answer the rows one by one. Everything runs in
one thread inside a call and nothing is kept from one call to the next: there
are no locks, no messages between processes and no state to recover after a
crash. What fails are the calls into PostgreSQL, which jump over the C++ code,
and assertions, which are exceptions the drivers catch. What is hard:

- caches on a path that is changed in the middle and evaluated from a position
  the caller computes;
- sets and paths that must agree and are changed by separate statements, on
  copies of vehicles of which some are written back and some are not;
- the best solution, the current one and what is remembered about either, which
  are replaced at different times;
- loops that end only if the searches in them succeed or their counters are not
  started over;
- data in an order nobody chose: rows of the matrix, duplicates, an unstable
  sort, the order of the vehicles;
- exceptions, interruptions and early returns between the allocation of the rows
  and their release;
- sentinels in ordinary arithmetic: `INT64_MAX` for infinity, -1 for the phony
  vehicle, 0 for no column;
- limits (the last unused vehicle, no vehicle that fits, all vehicles closed)
  reached only by small or awkward problems.

`PROJECT.json` lists these hazards at their lines with the properties that cover
them, and the components with what is modelled of each.

## Modules

| module | models |
|---|---|
| `TimeMatrix` | `problem::Matrix` and `Tw_node::travel_time_to`; declares the matrix |
| `VrpData` | orders, vehicles and nodes; `Tw_node`, `Order`, `Orders`; declares the problem |
| `VehicleRoute` | `Vehicle_node`, `Vehicle`, `Vehicle_pickDeliver` as operators from a vehicle to the vehicle after the call |
| `HillClimb` | the loops of `Vehicle_pickDeliver::hillClimb`, one turn per step |
| `Vehicle` | the life of one vehicle: every operation a solution may apply to it, in every order, with `HillClimb` as its search |
| `Solution` | `problem::Solution`: the fleet as a sequence, its cost and comparison |
| `SimpleInitial` | `initialsol::simple` with `Fleet::get_truck` |
| `SimpleOptimizer` | `optimizers::simple`, as actions on the solution it is given |
| `PgrPickDeliver` | the solving part of `vrp_do_pgr_pickDeliver`: composes the two above |
| `TabuInitial` | `initialsol::tabu`, one vehicle per step |
| `TabuList`, `TabuOptimizer` | `optimizers::tabu`, one call of a neighbourhood per step |
| `BaseMatrix` | `base::Base_Matrix`: rows, repair, verdict |
| `DataRows` | getters, checks, readers, fetchers and the loop over the cursor |
| `ProblemBuild` | `PickDeliver::PickDeliver` and the answer of `vrp_compatibleVehicles` |
| `OptimizeDriver` | `vrp_do_optimize`: preparation, subdivision, merge, rows |
| `DriverCall` | one call of any of the seven functions, C and C++ |
| `Vroom` | `vrp_do_vroom`, `vroom::Matrix`, `problem::Vroom` |
| `OrderAssignment` | what a construction promises: the abstract specification of `SimpleInitial` |
| `Improvement` | what an optimizer promises: implemented by `TabuOptimizer` and `PgrPickDeliver` |
| `FunctionCall` | what a set returning function promises: implemented by `DriverCall` |
| `VehicleRouteProofs` | lemmas: least elements, sums and folds; the operators on paths and vehicles, the figures of a fleet |
| `PgrPickDeliverProofs` | the theorems about `SimpleInitial` and `PgrPickDeliver` |
| `TabuProofs` | those about `TabuInitial` and `TabuOptimizer` |
| `VehicleProofs`, `BaseMatrixProofs`, `DataRowsProofs`, `OptimizeDriverProofs`, `DriverCallProofs` | those about the module they are named after |
| `LineProblem` | orders and vehicles on a line of sites, for the runs |
| `MC*` | the instances |

`TimeMatrix`, `VrpData` and `VehicleRoute` extend each other in this order and
have no variables. `HillClimb`, `SimpleInitial` and `Solution` extend
`VehicleRoute`, `Vehicle` extends `HillClimb`; `SimpleOptimizer` and
`TabuInitial` extend `Solution`. `PgrPickDeliver` extends `SimpleInitial`, whose
variables are those of the construction under way, and `SimpleOptimizer`: it is
the whole solving part of `pgr_pickDeliver`, and what it says of the whole call
has names of its own (`CallSpec`, `CallTypeOK`, `CallEnds`). `TabuOptimizer` extends
`TabuInitial` and `TabuList`: it is the whole solving part of `pickDeliver`, from
the stops of the users to the solution that is handed out. `ProblemBuild`
instantiates
`VehicleRoute` with what it has built, so its result is what `VrpData` assumes.
`DriverCall`, `DataRows`, `BaseMatrix`, `OptimizeDriver` and `Vroom` stand alone:
`DriverCall` leaves to a nondeterministic choice what a stage computes and
`OptimizeDriver` what an optimization finds.

### How they correspond to the code

- A vehicle is `[idx, path, orders, user_twv, user_cv]`. `path` is the deque,
  and each stop is a record of the node and what `evaluate` caches for it.
  Positions count from 1. The operators insert, erase and swap as the code does
  and call `Evaluate` from the same position.
- `hillClimb` is an outcome in `VehicleRoute` (the first pair of positions with
  the least objective) and the code's loops in `HillClimb`; `ComputesHillClimb`
  says that they agree. The other modules use the outcome.
- In `SimpleInitial` a step is one turn of a loop: `GetTruck` (head of the outer
  loop and entry of `do_while_feasible`), `OfferOrder` (one turn of the inner
  loop, with the search, the two sets and the narrowing of the companions),
  `CloseTruck` (end of the inner loop and the assertion of progress), `Finish`.
- In `TabuOptimizer` and `SimpleOptimizer` a step is one call that walks the
  fleet (a neighbourhood, `move_2_real`, one pair of vehicles, one turn of
  `decrease_truck`) or the code between two calls; the walk itself is a fold
  over the vehicles and orders in the order of the code. Where the order is that
  of an unstable sort, every arrangement it may leave is a step.
- A failed assertion is `pc = "failed"` (`building = "failed"` in
  `SimpleInitial`), an exception of the drivers is a stage
  of `DriverCall`, and an error of PostgreSQL ends the call from any stage that
  calls into it.
- `Identifiers::back` dereferences the end of a set. `get_truck` may then return
  any vehicle, and `GetTruckThrows` is the exception of `at`.
- Doubles are counted in units (`MultiplierUnit`, `SpeedUnit`, `FactorUnit`) and
  the casts truncate or round as in C++. Integers wrap where the code lets them:
  the sums of `BaseMatrix` at `Infinity`, the fields of `DataRows` at `Word`.
- The infinite window and capacity of the phony vehicle are numbers larger than
  any time or load of the instance (999 and 99).
- `OptimizeDriver` identifies vehicles by `id` as the code does, with -1 for the
  phony one. Stops are bags of orders: an order named once is picked up, one named
  twice is delivered too, and the sequence is left out. What one optimization does
  to them is any placement of the deliveries in which the pinned orders stay
  (`Placements`, `Unmovable`), and a pickup without its delivery stays as well, so
  that an order may come to be named three times, or by two vehicles. The initial
  solution refuses stops that name an order again when it is assigned (`Refused`);
  where that depends on travel times, both outcomes are steps (`MayBeRefused`). A
  phony vehicle writes no rows, for `Vehicle::get_stops` is empty for it, but its
  entry is there: it makes the solution not empty, or fails the merge
  (`PhonyLeft`). Whether a phony vehicle can serve an order (`fits`) is data.
- `Vroom` lets the library choose any routes in which a shipment is picked up
  before it is delivered by the same vehicle. Amounts are their lengths.
- In `DataRows` a column has the same name with and without timestamps, the
  width of a field is `Word`, a batch has `TupleLimit` rows, and the zone of the
  server has no summer time.

Operators whose comment starts with "Fault" are plausible mistakes. No
specification uses them: each stands before the definition it would replace and
shows that some property notices it.

## Runs

States are distinct states. Every action of every next-state relation fires in
some passing run. Some invariants are conjunctions of named parts, and one of
each module has its type invariant as a part; `PROJECT.json` gives mutants for
the parts too.

`vehicle` (`MCVehicle`, 80031 states): four orders, one of three vehicles, four
user solutions (none, complete, late, an order that is never delivered), two
execution dates; every operation in every order, and `hillClimb` turn by turn. An
order that is on the path and not in the set may come again, as in the search.

- `CacheCoherent`: after any sequence of operations, and wherever the loops read
  them, the caches are those of a full evaluation, although the path is stale in
  between.
- `PathMatchesOrders`: set and path agree, but for what the user's stops left. A
  path delivers an order once for the set and once if it is pinned, picks it up as
  often, and once more if the stops only picked it up; nowhere on the way has an
  order been delivered more often than picked up. (The code asserts that an order
  is not in the set when it is inserted, not that its nodes are off the path.)
- `ComputesHillClimb`: the loops move nodes by swapping while the positions are
  separate variables, and end with the stated outcome: the vehicle is restored,
  caches included, when nothing fits.
- `HillClimbBest`: the early returns and the limits on the positions exclude no
  feasible position, and no cheaper one, unless the user made the vehicle late.
- `SearchKeepsFeasible`: searches and removals keep a feasible vehicle feasible.
- `Terminates`: a search ends.

`simple_initial` (`MCSimpleInitial`, 2313 states): all seven kinds, every subset of
four orders, every fleet with one or two trucks and the phony vehicle.

- `EachOrderOnce`: an order is unassigned or on exactly one route.
- `SuitableVehicleTakesAnOrder`: a suitable vehicle is never left empty, so the
  assertion of progress holds when `get_truck` finds one.
- `RoutesFitTheKind`: the kinds that search, and one order per vehicle, build
  feasible routes although the code's tests never look at the vehicle in hand
  (`SearchesAreFeasible`); the routes of OneDepot load first and unload afterwards
  (`PicksThenDrops`); narrowing to the companions of the last order keeps all
  pairs of a route compatible, in one direction or the other
  (`RoutesAreCompatible`).
- `Terminates`, `ImplementsOrderAssignment`: it ends, and implements
  `OrderAssignment`.

`tabu` (`MCTabu`, 13200 states): searches from every feasible assignment of four
orders to three vehicles that leaves out one order at most, long enough for the
list to be full and the neighbourhoods to run out of moves; and calls with stops
nested, late, never delivered, delivered twice, unknown, on two vehicles or on a
vehicle without capacity.

- `DeliveredOnce`: every order that can be served is delivered by one vehicle,
  also one that was picked up and not delivered, or that may not be moved.
- `UnmovableStay`: what has started stays where the user put it, in its order. A
  pickup whose window is an instant is no `is_pickup`, so such an order is movable;
  one of the instances has it.
- `UnassignedArePhony`: `m_unassignedOrders` is what the phony vehicles hold, in
  the current and in the best solution, although `intensify` replaces one by the
  other and only `move_2_real` updates the set.
- `SolutionsAreSound`: no neighbourhood loses an order, doubles one
  (`EachOrderOnce`) or leaves a vehicle infeasible (`FleetsAreFeasible`), though
  moves are tried on copies and made again on others; the list keeps its bound.
- `TabuIsRespected`: a move on the list is made only by aspiration, or when it
  empties a vehicle.
- `ImplementsImprovement`: the promise of `Improvement`.
- `Terminates`: the call ends, and fails for illegal stops only.

`pgr_pick_deliver` (`MCPgr`, 6884 states): the eight kinds a caller may ask for
(0 builds six solutions), sixteen problems out of five orders and three trucks,
no cycle or two.

- `SolutionsAreSound`: exchanges and moves neither lose nor double an order
  (`OrdersAreKept`), and add no violation to those FrontTruck and BackTruck leave
  (`NoNewViolations`).
- `StartsFromLeast`: the optimizer starts from the least of the solutions, by the
  five criteria in their order.
- `ImplementsImprovement`: fewer vehicles first, then less time, never worse.
- `CallEnds`: `decrease_truck`, which calls itself, comes to an end.

`base_matrix` (`MCBaseMatrix`, 121672 states): up to three rows in any order with
repetitions, complete matrices with a node far away, matrices that lack a node,
and chains that need more repairs than are made; sums wrap at 64.

- `CellsAsGiven`: the order of the rows matters between rows for one cell only.
- `TimesAreReal`: a repair never makes a time longer than given, nor shorter than
  the shortest way.
- `AcceptedMatrixIsUsable`: an accepted matrix obeys the inequality, or all
  repairs were used up (`RepairMakesItObey`), and has no node that the query
  forgot (`ForgottenNodeIsReported`).

`problem_build` (`MCProblemBuild`, 10400 states): two orders and up to three rows
of vehicles: copies, no room, speed zero, windows of an instant or reversed, equal
keys in every order the sort may leave.

- `FleetIsSound`: each vehicle is in one of the sets, and those set aside serve no
  order (`FleetIsSplit`); copies do not share stops (`StopsStayApart`).
- `RowsAreThePairsThatFit`: `vrp_compatibleVehicles` answers the pairs of an order
  and a vehicle that can serve it, against a definition without shortcuts.
- `CompanionsAreFound`: two orders that a vehicle of usual speed can serve on one
  trip are compatible.

`optimize` (`MCOptimize`, 42793 states): three kinds of subdivision over rows with
duplicates, copies, closed vehicles, vehicles without capacity, missing orders,
orders that no phony vehicle can serve, and stops that name an order once, twice
or on two vehicles.

- `HistoryIsKept`: from stops that deliver what they pick up, merging the parts
  keeps each order on one vehicle (`EachOrderOnOneVehicle`). From any stops, what
  has started stays where it was (`UnmovableStay`), and so does a pickup without
  its delivery (`PickupsStay`).
- `EndsWithRowsThatFit`: the call ends. When every vehicle is one and has room
  (`AllInFleet`) and the stops deliver what they pick up (`StopsDeliver`), the rows
  fit in what is allocated, and an answer by subdivisions has all the rows that
  are reported. Both hypotheses are needed: without the second TLC finds more rows
  written than allocated.

`driver_call` (`MCDriverCall`, 25789 states): the seven functions (vroom in its
three variants) with any arguments, any missing data, an exception or an
interruption at every stage.

- `ResourcesAreReturned`: no row is answered that was freed, and a driver that
  counts the rows it copies (all but `vrp_do_optimize`, which counts two for each
  order) answers as many as it copied (`AnswersLiveRows`). Rows are freed only when
  an exception is raised after they were copied, and then twice
  (`FreedByLateErrors`). The connection is closed on every path
  (`ConnectionIsClosed`).
- `CallerIsTold`: an error never blames a query that was read
  (`HintNamesTheQuery`), and no driver returns early without a notice or an error
  (`EmptyAnswersAreExplained`). An answer that was computed may be empty and say
  nothing, as that of `vrp_compatibleVehicles` without pairs.
- `ImplementsFunctionCall`: the call ends; it fails or answers every row once.

`data_rows` (`MCDataRows`, 29720 states): every getter, with and without
timestamps, on queries that differ from a proper one by a column or a cell, read
in batches of two rows; a 32 bit field has eight values.

- `EveryRowArrives`: whatever the batches, the cursor is read to its end, in
  order, or the call fails.
- `AcceptedDataAreUsable`: columns are verified (`ColumnsAreVerified`), and rows
  are what the rest of the program takes for granted (`RowsAreUsable`).
- `CellsMeanWhatTheySay`: a number that fits its field is read as it is
  (`NumbersAreKept`), and the defaults of the vehicles are the documented ones, but
  for the service at the end, which is 0 (`VehicleDefaults`).

`vroom` (`MCVroom`, 4047 states): two vehicles, up to two jobs, a shipment and a
break among three locations, speed factors from one to far apart, and any answer
of the library.

- `VroomIsGivenTheData`: it is called exactly when the data are complete
  (`RefusedForAReason`); factors and durations times the same number give it the
  same problem, the statement of a test of the repository
  (`ScalingChangesNothing`).
- `TravelTimesAreTheGivenOnes`: a reported travel time is that of the query.
- `AnswerIsWhole`: each task once, in numbered rows (`EachTaskOnce`), with
  summaries that add up (`SummariesAddUp`).

Two runs are expected to find a violation:

- `fast_truck`: the assertion of progress in `initialsol::simple` fails, because
  one limit of `hillClimb` ignores the speed of the vehicle: a fast truck refuses
  an order that suits it.
- `optimize_closed`: when all vehicles are closed, the phony vehicle is built from
  the first vehicle of an empty vector.

Bounds. Orders overlap in time and in space, some pairs are picked up at the same
time too far apart for one vehicle, some are too large for the small truck, the
working days differ: every kind rejects orders, splits them over vehicles, uses
the phony one and runs out of vehicles. Paths have up to eight nodes, two orders
on board and a third one inserted before, between and behind their nodes. The
limits of the loops of the tabu search are CONSTANTS of its module, small enough
that each is reached: the fixed numbers of the code are 30, 50 and larger.
A driver copies up to `MaxRows` rows: enough for
none, one and several, and for `vrp_optimize` to report more or fewer than it
copied. Nothing else is unbounded, so there is no other bound in a guard.

Fairness. One thread runs and never waits, so a call goes on as long as it can:
weak fairness of the next-state relation. The drivers and the getters say
`WF_vars(Next)`. Where evaluating ENABLED would try every search, the same is
written with the condition under which the relation is enabled
(`[]<>(pc = "done") \/ []<><<Next>>_vars`). `FunctionCall` asks that the call goes
on and that the executor fetches its rows. Deadlock is checked except in
`simple_initial` and `fast_truck`, which stop when they are done.

## What the models show beyond the properties

The comments of the code, its documentation or its structure suggest otherwise in
these places; the modules do what the code does, and the properties are stated so
as to hold.

- `initialsol::simple`: FrontTruck builds an infeasible vehicle and its assertion
  fails when the next one is filled; the last unused vehicle, if it is a real one,
  is given away again and again; when no unused vehicle suits, `get_truck`
  dereferences the end of a set.
- `hillClimb` on a vehicle that is late by the stops of its user gives up although
  the order fits: two nodes of such a path may be incompatible, and no position is
  then between the limits.
- `decrease_truck` moves orders with `hillClimb` whatever the kind, so the routes
  of OneDepot need not load first any more, and it may move orders to the phony
  vehicle.
- The tabu search keeps infeasible candidates by path and order but not by
  vehicle: a path of nodes that did not fit one vehicle is never tried on
  another, faster or larger. `intensify` says that it makes moves that improve
  only, and makes those that empty a vehicle at any cost. An empty phony vehicle may be in
  the result; `optimize` has no entry for it and fails as a whole. The loop that
  would mark the orders of unusable vehicles runs over an empty fleet. An
  assertion about the stops fails on a phony vehicle. The lists of moves hold the
  vehicle's index in the fleet where the code uses its identifier; an identifier
  names one vehicle there, or phony ones.
- `Base_Matrix`: a cell without data takes the value of the opposite one, although
  the @post says infinity; four nodes may use up the repairs, and nobody is told.
- The drivers accept the values 7 and 2 of two arguments that their messages
  exclude. The comment of `alloc` says that rows are freed in the C code. The catch
  clauses free them too and leave the pointer set, and `process()`, which releases
  the rows of a failed call, only ever does so with rows that were freed already.
- `optimize` reports twice the number of orders whatever it wrote. The code accepts
  a stop that picks an order up and does not deliver it. The order is delivered
  elsewhere, or picked up twice on the same vehicle: it writes one row, or three,
  or two vehicles have a part of it, and the memory has room for two. With no
  vehicle in the solution the pointer to the rows is null and the count need not
  be. Stops of the copies of a vehicle are lost, and a vehicle without capacity
  keeps its old stops, so that its orders may be on two vehicles.
- The getters: the documentation says that `e_service` defaults to `s_service`, and
  the fetcher takes 0; the capacity is read in 64 bits and cut; the service of a
  delivery is tested by a condition on that of the pickup; stops are read when they
  are to be ignored; a window of an instant passes the test and leaves no time for
  service.
- VROOM wrapper: an amount left out has size 0 and is refused; factors are rounded
  to multiples of the least, so different speeds become one; the departure of a
  step adds its setup to its arrival.
- Travel times with a rush hour: a vehicle that loses an order may become late.
  The runs have one multiplier and times that obey the triangle inequality.

## Proofs

The runs look at small instances. The theorems hold for every value of the
constants: any orders, vehicles, travel times, rows and limits that satisfy the
assumptions of the modules.

| theorem | of | states |
|---|---|---|
| `CachesAreRight` | `VehicleProofs` | `[]CacheCoherent` |
| `PathsAreWhole` | | `[]PathMatchesOrders` |
| `LoopsComputeHillClimb` | | `[]ComputesHillClimb` |
| `InsertingKeepsFeasible` | | insertions keep a vehicle feasible, for all travel times |
| `LimitsLoseNothing` * | | `[]HillClimbBest` |
| `OperationsKeepFeasible` * | | `SearchKeepsFeasible` |
| `TypeCorrect`, `OrdersPlacedOnce`, `RoutesFitTheirKind` | `PgrPickDeliverProofs` | `[]TypeOK`, `[]EachOrderOnce`, `[]RoutesFitTheKind` |
| `SuitableVehiclesTakeOrders` * | | `[]SuitableVehicleTakesAnOrder` |
| `Refinement` | | `ImplementsOrderAssignment` |
| `SolutionsStaySound` * | | `[]SolutionsAreSound` |
| `OptimizerKeepsOrders` | | `[](CallTypeOK /\ OrdersAreKept)`, for all travel times |
| `LeastIsChosen`, `OptimizerImproves` | | `[]StartsFromLeast`, `ImplementsImprovement` |
| `CellsGiven`, `AcceptedIsUsable`, `TimesReal` | `BaseMatrixProofs` | `[]CellsAsGiven`, `[]AcceptedMatrixIsUsable`, `[]TimesAreReal` |
| `HistoryKept` | `OptimizeDriverProofs` | `[]HistoryIsKept` |
| `Soundness`, `Unassigned` | `TabuProofs` | `[]SolutionsAreSound`, `[]UnassignedArePhony` |
| `OrdersDeliveredOnce`, `UnmovableOrdersStay` | | `[]DeliveredOnce`, `[]UnmovableStay` |
| `TabuListRespected` | | `TabuIsRespected` |
| `SearchImproves` | | `ImplementsImprovement` |
| `ResourcesReturned`, `CallerTold` | `DriverCallProofs` | `[]ResourcesAreReturned`, `[]CallerIsTold` |
| `CallIsAnswered` | | the safety of `FunctionCall` |
| `RowsInOrder` | `DataRowsProofs` | a call that succeeds has every row, in order |
| `DataAreUsable`, `CellsRead` | | `[]AcceptedDataAreUsable`, `[]CellsMeanWhatTheySay` |

\* when travel times are ordinary, see below.

### Assumptions

Those of the modules are evaluated by the runs.

- `MatrixAssumption`, `DataAssumption`, `KindAssumption` are the types of a
  problem. `StopsAssumption` adds that no order is more than twice among the stops
  of a vehicle, which `set_initial_solution` checks with an assertion before it
  builds the path.
- `PhonyAssumption`: the phony vehicle without orders is feasible, as `build_fleet`
  gives it all the time there is.
- `CallAssumption`: a problem has an order, as the drivers return early when there
  is none, the kinds that are asked for exist, and the number of cycles is natural.
- `LimitsAssumption`: the limits of the tabu search are positive where the code
  divides by them or counts up to them.
- `BaseMatrixAssumption` asks that the largest value is at least 7, so that the
  sums of four cells which overflow are different values: the code has 2^63 - 1.
- `DriversFinish` and `DriversTell` are about the stages of the drivers, which are a
  constant of `DriverCall`: the last stage finishes the call, the rows are copied
  right before it, and the drivers of the pickDeliver family verify with a log and
  forget a query once it is read.
- `DataRowsAssumption`: a batch has room for a row, a field has more than one
  value, and neither the SQL null nor a column that is left out is a number.
  `QueriesAssumption`: a query is one of the ten getters, its columns have types,
  and a cell is null or a value of the type of its column (`IsCell`), as PostgreSQL
  delivers it. Which columns there are, and of which types, is not assumed.
- `VehicleIds`: the vehicles of `vrp_optimize` have natural numbers as identifiers,
  for one with a negative number counts as phony. Nothing is assumed of their stops.

The theorems with a star have one more hypothesis, which is part of their
statement and no assumption of a module: `OrdinaryTimes`, defined in
`VehicleRouteProofs`. It says of every vehicle that leaving later is no way to
arrive earlier, that no detour is quicker than the direct way, and that the
vehicle is not faster than the default speed, at which two of the limits of
`hillClimb` are computed. The code checks the second at most
(`obeys_triangle_inequality`), and for the times without multipliers and speeds.
`PlainTimesAreOrdinary` shows that the hypothesis can be met: it follows from one
multiplier, vehicles with the default speed and a matrix that obeys the triangle
inequality. The four properties do depend on it. `fast_truck` violates the
assertion of progress with a fast vehicle, and with a rush hour a vehicle that
loses an order may become late, in the hands of a user as in an exchange of the
optimizer.

### Paths and vehicles

`VehicleRouteProofs` proves what every operator on a path keeps. `Right(v, path,
p)` says that the stop at `p` caches what an evaluation after its predecessor
yields, `Coherent` that all do. `EvaluateIsCoherent` shows that evaluating from a
position gives a coherent path if the stops in front of it are right, so each
operation has to show only that it starts no later than the first stop it
changed. `Intact` is what operations keep as long as no order comes
whose nodes are on the path: a coherent path from start to end, no node twice,
every delivery after its pickup, and the set of orders among the delivered ones.
The stops of a user start a path intact (`WithStopsIntact`), removing all of them
keeps it so (`EraseAllIntact`), and each insertion takes exactly one order
(`PushesTake`, `SemiLIFOTakes`, `HillClimbTakes`). An order that is picked up and
not delivered, or pinned, may come again, and then a node is on the path twice.
`Balanced` is what every operation keeps: nowhere on the path has an order been
delivered more often than picked up (`PushesBalanced`, `SearchesBalanced`,
`EraseBalanced`). How often each node is there is `Agree`, proved along with it
(`AgreeGains`, `AgreeLoses`): an insertion visits both nodes once more, and a
removal once less, whichever of the visits `erase` finds.

Where a statement is about a function defined by recursion over positions or over
the orders still to be removed, it is proved by a least counterexample
(`LeastNatural`), for the induction theorems of the library cannot be applied
with the provers that are used.

What does not move is said without positions: `Follows` relates two nodes of
which one comes later on the path, and a vehicle is `Holding` a set of orders in
the order of a given path if it delivers these and its own orders, no others, and
two nodes of theirs that follow each other on the given path do so on its own.
Insertions and removals of other orders keep that (`PushedAndErased` and the
lemmas before it).

With ordinary times, a vehicle that visits fewer of the stops is earlier at all
that are left. `Sparser` relates two paths by a map of the positions of one into
those of the other that keeps their order; `SparserIsEarlier` compares the
arrivals along it and `SparserFits` the violations of windows. Without an order the load is
less at some stops and the same at the others (`LessLoaded`). It is nowhere less
than nothing, for it never is (`LoadIsNatural`): on a shortest path with such a
load an order is delivered, and the path without it would be shorter.
`ErasingKeepsFeasible` puts both together. `HillClimbLosesNothing` rests on the
same idea (`NoShortcut`): what is late at the limit is late beyond it.

`hillClimb` is where the two views of the code meet. The invariant
`SearchIsSound` of `VehicleProofs` has one clause for each place in the loops. It
says that the path is the path the search started with, and the pickup at `pick`
(`HasInserted`), or the order at `pick` and `drop` (`HasOrder`): nothing else
moves, although the code moves the nodes by swaps on the vehicle itself. And it
says that `best` is the first of the cheapest pairs among those the loops have
been at (`BestOfPairs`). Neither `CacheCoherent` nor `ComputesHillClimb` is
inductive without this: after the lift of the delivery the caches behind it are
wrong, and they are right again only because the next swap evaluates from the
pickup, which stands in front of it; and the outcome is right only because the
pairs beyond the limits are infeasible or were tried.

### Constructions

`IInv` of `PgrPickDeliverProofs` adds two facts to types and `EachOrderOnce`. From
a state that offers the vehicle an order another route has, the next turn would
put it on two routes, so `OffersAreUnassigned`. And `EmptyMeansWaiting` says that
while the vehicle is empty some order is unassigned: without it the end of the
inner loop could not be told from a completed construction, and giving up would
not be a step of `OrderAssignment`.

`RoutesFit` says of the vehicle in hand what `RoutesFitTheKind` says of the
routes, and that it can be filled: it is intact, it tolerates nothing, and the
orders it does not have are off its path. Compatibility of the orders on a route
needs a third part: the orders on offer are compatible with every order of the
vehicle (`OffersFit`), which is what narrowing them to the companions of each
order taken gives. That a suitable vehicle takes an order needs `FirstIsOffered`:
as long as the vehicle is empty it is as it was taken, and the first unassigned
order is on offer if it suits, because an empty vehicle that could take an order
does take it (`PlaceTakes`). `StepRefines` maps each action to a step of `OrderAssignment`
or a stutter.

### The call

`CallInv` of `PgrPickDeliverProofs` is about the whole of `pgr_pickDeliver`.
`BuildInv` is the invariant of the construction under way, which starts anew for
each kind, `LoopInv` has the counters of the optimizer, and `FleetInv` its
solutions. Each solution is `Shared`: its vehicles are whole, have no order in
common and have all orders of the problem. From the call of the optimizer on, the
current and the best solution are more than that (`Derived`): they are what became
of the solution that was chosen. `Becomes` relates a vehicle to what it is after
orders came and went, with no more violations if travel times are ordinary;
`Continues` relates two fleets position by position, and `Descends` by a map that
gives each vehicle of the later fleet another one of the earlier. `NoNewViolations`
follows (`DescendantViolatesNoMore`): a sum over some of the vehicles, each no
worse than before, is no larger than the sum over all of them.

The walks of the optimizer are folds, and each is followed turn by turn with what
its turns keep. In `decrease_truck` the orders of one vehicle are handed down to
those in front of it (`HandedDownIs`, `DecreasedIs`): the copy and the vehicle
that takes an order are written back together, so what matters is the fleet after
two positions are replaced (`PairReplaced`, `ReplacedShared`). In `swap_worse` the
two copies share out the orders of a pair (`MovedIs`, `ExchangedIs`, `SwappedIs`),
and `PairWrittenBack` puts them in the place of the pair. Sorting, rotating and
deleting empty vehicles select vehicles of the fleet (`SelectionShared`), and only
deleting may leave some out, which have no orders.

That the least solution is chosen rests on `LessIsOrder`: five criteria compared one
after the other order the solutions, so what is not less than the chosen one before
a replacement is not less than it afterwards. `Improvement` is harder. Saving
compares the number of vehicles first, but a solution that is saved because it takes
less time could have more vehicles than the best one, and nothing in `save_if_best`
excludes it. What excludes it is an equality that holds between all steps:
the current solution has as many vehicles as the best one, for vehicles disappear
only in `delete_empty_truck`, and each such step saves. A step that deletes none
compares the times alone.

### The tabu search

`IInv` of `TabuProofs` has five parts, and TLC has checked it on the instance of
`tabu` before it was proved. `SolutionsInv` says of both solutions what
`SolutionsAreSound` says and more: each vehicle goes from its start to its end,
its caches are right, no real one is in the fleet twice, it holds what the user
pinned to it as the user wanted it (`HoldsPinned`), and a phony one has one order
at most (`Fit`). Without
`Fit` the invariant is not inductive: that the vehicle an order joins is feasible
again, and that the one it leaves is what its caches say, is known of whole paths
only. Nor is it without `SameOrders`, which relates the two solutions:
`intensify` and the end of the constructor put the best one in the place of the
current one, whatever has happened to either in between. `GivenInv` is about the
vehicles with the users' stops until they become the first solution: they are
intact, hold what is pinned to them, and no two of them have an order in common,
pinned or not. `AccountInv` is about the orders that no vehicle counts among its
own: what may not be moved is delivered but in no set of orders, and what is
picked up and not delivered is on a vehicle only through `process_unassigned`. It
says that an order of the problem is on a vehicle, pinned to one, or among the
stops of a vehicle that is not in good order. Neither `DeliveredOnce` nor
`UnmovableStay` follows from the orders on the vehicles: the nodes on the paths
count, and `HoldsPinned` ties them to the pinned orders in every step.
`ListsInv` has the lists, `ControlInv` the counters and where the calls return to.

A neighbourhood is a loop over all candidates that keeps the best one.
`BestInsertionIs` and `BestExchangeIs` say what is known of the candidate it ends
with, whatever it has refused on the way; `PlacedIs` says the same of the loop of
`move_2_real`, of which each turn starts from what the turns before it have left.
All are folds, and `StepsExist` and `StepsLead` of `VehicleRouteProofs` are how a fold is
followed turn by turn. `InsertedIs`, `ExchangedIs` and `ReplacedSound` say that
two vehicles which share out their orders anew leave a solution a solution.

The promise of `Improvement` is kept by the neighbourhoods because they compare
(`NeighbourhoodImproves`), and by `move_2_real`, which does not, because the
orders on phony vehicles become fewer (`PlacingImproves`). For the tabu list,
`InsertionMoves` and `ExchangeMoves` say which orders change the vehicle: one, or
two that differ. So a step that takes a single order elsewhere is an insertion,
which was weighed against the list.

### The matrix

`FillInv` says what a cell is after the rows read so far. Of an accepted matrix
the hard part is that no node is forgotten: `fix_triangle_inequality` adds
infinities, the sums overflow and become small, so that a node without any row
may get times. `ForgottenInv` counts them. A repair gives one cell of such a node
a time and there are at most n + 1 repairs, so with four nodes or more some cell
of its 2(n - 1) stays infinite. With three nodes one of the first two repairs is
of another cell (`OneOfTwoRepairsIsSpared`), and with two nodes only the diagonal
is repaired, by values that are known.

`TimesReal` is about data in which no cell is infinite and any two times can be
added. It bounds every cell by the given time and by the shortest way of as many
rounds as repairs were made: one repair changes one cell, and a round allows for
a change of all of them.

### The getters

A table of columns gives a name one type, whatever the call (`ColumnTypes`): so the
reader of a column follows from its name, and `ReadersRead` says of each what it
makes of a cell that it does not refuse. A row that is not refused is then a row of
values of those types, in which only an optional column may be missing (`IsRead`).
Each fetcher is described field by field (`OrderFields` and the lemmas after it),
and one lemma for each getter says that what it makes of such a row, and does not
refuse, can be used (`AcceptedFit`): some bounds come from the readers, some from
the tests of the fetcher, and some from the conversions alone. That the end of a
vehicle may take its defaults from the start needs that the start is always read
when the end is (`StartIsRead`, `WindowIsRead`).

`DataInv` is about the cursor: the rows read are the ones before it, in order and
all accepted. The columns are verified with the batch that starts at row 0 and
never again. This is enough because a batch is empty only at the end of the rows
(`BatchIs`): after the first one the cursor has left row 0, or the call is done.

### Drivers

`HistoryKept` is proved from what `get_stops` tells of a truck after an
optimization: two stops for what it delivers, and one more for a pickup it was
given alone. The orders that a part has on its way are those in the stops of its
vehicles, and `update_stops` replaces the stops of these vehicles only; so no
vehicle of the part gains an order that one outside the part has. What is pinned
or only picked up goes through each part unchanged, or doubled by a delivery.
The invariants of `DriverCallProofs` tie the rows, their count, the messages and
the connection to the stage of the call; `CallIsAnswered` maps the stages before
the first answer to stutters.

### Only model-checked

- Liveness (`Terminates`, `CallEnds`, `EndsWithRowsThatFit`, `EveryRowArrives`, the
  fairness of `FunctionCall`): TLAPS does not reason about fairness.
- `HillClimbBest`, `SuitableVehicleTakesAnOrder`, `NoNewViolations` and the removals
  in `SearchKeepsFeasible` for travel times that are not ordinary: some data
  violate them, and the runs have data that do not.
- `ProblemBuild` and `Vroom`: no proof has been written. Each is a pass over its
  data that the runs take for every order of it; nothing in them is known to be
  beyond the provers.

## Not modelled

- The rows of `get_postgres_result`: a conversion of the final paths.
- `OneTruck` (no driver can ask for it), the functions without callers
  (`pop_back`, `pop_front`, `swap_order`, `sort_for_move` and others that
  `PROJECT.json` names) and the unknown identifier of a matrix (the drivers check
  first).
- Distances from coordinates, and the summer time of the server: floating point
  and an external function, without a state.
- The VROOM library, which is not in this repository; what passes through its
  wrapper unchanged (skills, windows, priorities, metadata).
- SQL functions, the text of messages, logs, printing.

## Plan

What is left is to prove more: `RowsAreThePairsThatFit` of `ProblemBuild`, from
the loops that fill the compatible sets, and the sums of `AnswerIsWhole` in `Vroom`.
