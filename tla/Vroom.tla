------------------------------- MODULE Vroom -------------------------------
(***************************************************************************)
(* The wrapper of VROOM: the locations, the speed factors and the matrix   *)
(* that vrp_do_vroom prepares (vrprouting::vroom::Matrix), the problem     *)
(* that problem::Vroom hands to VROOM and the rows it makes of the answer. *)
(*                                                                         *)
(* VROOM itself is not part of the repository: SolveByVroom may choose any *)
(* routes in which a shipment is picked up before it is delivered by the   *)
(* same vehicle, and refuses amounts of different lengths, as the tests of *)
(* the repository have it.  An amount is its length, a speed factor counts *)
(* FactorUnits, and skills, priorities and time windows are left out.      *)
(***************************************************************************)
EXTENDS Integers, SequencesExt, FiniteSetsExt, FiniteSets

CONSTANTS
  Problems,       \* the vehicles, breaks, jobs and shipments of a call
  MatrixQueries,  \* results of the matrix query: sequences of rows
  FactorUnit,     \* the speed factor 1.0
  Infinity        \* the largest cost

\* The driver answers before it comes here without vehicles or cells.
ASSUME VroomAssumption ==
  /\ FactorUnit \in Nat \ {0} /\ Infinity \in Nat
  /\ <<>> \notin MatrixQueries
  /\ \A p \in Problems : p.vehicles # <<>>

VARIABLES
  problem, costs,    \* the arguments
  location_ids,      \* the locations that the problem names
  speed_factors,     \* the factor of each vehicle, in whole numbers
  m_matrix,          \* the cells <<duration, cost>>, by position
  m_vehicles, m_jobs, m_shipments,  \* what VROOM is given
  solution,          \* what VROOM answers: routes and unassigned tasks
  results,           \* the rows
  vehicle_seq, step_seq, prev_duration,
  pc

arguments == <<problem, costs>>
prepared == <<location_ids, speed_factors, m_matrix>>
given == <<m_vehicles, m_jobs, m_shipments>>
counters == <<vehicle_seq, step_seq, prev_duration>>
vars == <<arguments, prepared, given, solution, results, counters, pc>>

-----------------------------------------------------------------------------

NoLocation == -1

\* std::round of a / b.
Round(a, b) == (2 * a + b) \div (2 * b)

Factors == {problem.vehicles[k].speed_factor : k \in DOMAIN problem.vehicles}

\* The identifiers of the matrix are kept in order; std::lower_bound is the
\* number of those before.
m_ids == SetToSortSeq(location_ids, <)
lower_bound(id) == Cardinality({l \in location_ids : l < id})
has_id(id) == id \in location_ids
\* The code looks at the end only: an identifier that is not there has the index
\* of the next one.
get_index(id) == lower_bound(id)
get_original_id(index) == m_ids[index + 1]

\* Faults: cells of other locations are taken; durations stay as they are.
SelectedAny(row) == TRUE
Unscaled(duration, factor) == duration
Scaled(duration, factor) == Round(duration * FactorUnit, factor)
Selected(row) == has_id(row.start_id) /\ has_id(row.end_id)

\* Fault: the opposite direction is left alone.
FilledOneWay(cells, i, j, cell) == [cells EXCEPT ![i][j] = cell]
\* A cell is read; the opposite one takes its value if it has none.
Filled(cells, i, j, cell) ==
  LET read == [cells EXCEPT ![i][j] = cell]
  IN  IF read[j][i][2] = Infinity THEN [read EXCEPT ![j][i] = cell] ELSE read

Diagonal(cells) ==
  [i \in DOMAIN cells |-> [j \in DOMAIN cells |-> IF i = j THEN <<0, 0>> ELSE cells[i][j]]]

\* The constructor of the matrix, before it is checked.
Cells(rows, factor) ==
  LET positions == 0..(Cardinality(location_ids) - 1)
  IN  Diagonal(FoldLeft(LAMBDA cells, row :
                          Filled(cells, get_index(row.start_id), get_index(row.end_id),
                                 <<Scaled(row.duration, factor), row.cost>>),
                        [i \in positions |-> [j \in positions |-> <<Infinity, Infinity>>]],
                        SelectSeq(rows, Selected)))

has_infinity(cells) ==
  \E i, j \in DOMAIN cells : cells[i][j][1] = Infinity \/ cells[i][j][2] = Infinity

-----------------------------------------------------------------------------

Init ==
  /\ problem \in Problems /\ costs \in MatrixQueries
  /\ location_ids = {} /\ speed_factors = <<>> /\ m_matrix = <<>>
  /\ m_vehicles = <<>> /\ m_jobs = <<>> /\ m_shipments = <<>>
  /\ solution = [routes |-> <<>>, unassigned |-> <<>>]
  /\ results = <<>>
  /\ vehicle_seq = 1 /\ step_seq = 1 /\ prev_duration = 0
  /\ pc = "locations"

\* The locations of the tasks and, when they are given, of the vehicles.
CollectLocations ==
  /\ pc = "locations"
  /\ location_ids' =
       {problem.jobs[k].location_id : k \in DOMAIN problem.jobs}
         \cup UNION {{problem.shipments[k].p_location_id, problem.shipments[k].d_location_id} :
                       k \in DOMAIN problem.shipments}
         \cup (UNION {{problem.vehicles[k].start_id, problem.vehicles[k].end_id} :
                        k \in DOMAIN problem.vehicles} \ {NoLocation})
  /\ pc' = "speeds"
  /\ UNCHANGED <<arguments, speed_factors, m_matrix, given, solution, results, counters>>

\* The factors become whole multiples of the smallest one; a factor more than
\* five times another one is an error.
ScaleSpeeds ==
  /\ pc = "speeds"
  /\ IF Max(Factors) > 5 * Min(Factors)
     THEN pc' = "failed" /\ UNCHANGED speed_factors
     ELSE /\ speed_factors' = [k \in DOMAIN problem.vehicles |->
                                 Round(problem.vehicles[k].speed_factor, Min(Factors))]
          /\ pc' = "matrix"
  /\ UNCHANGED <<arguments, location_ids, m_matrix, given, solution, results, counters>>

BuildMatrix ==
  /\ pc = "matrix"
  /\ m_matrix' = Cells(costs, Min(Factors))
  /\ pc' = IF has_infinity(m_matrix') THEN "failed" ELSE "vehicles"
  /\ UNCHANGED <<arguments, location_ids, speed_factors, given, solution, results, counters>>

\* add_vehicles.  The default capacity is taken before there is a vehicle to
\* take it from: it is empty.
AddVehicles ==
  /\ pc = "vehicles"
  /\ m_vehicles' =
       [k \in DOMAIN problem.vehicles |->
          LET v == problem.vehicles[k]
              At(id) == IF id = NoLocation THEN {} ELSE {get_index(id)}
          IN  [id |-> v.id, start |-> At(v.start_id), end |-> At(v.end_id),
               capacity |-> v.capacity, speed_factor |-> speed_factors[k],
               breaks |-> {b.id : b \in {c \in problem.breaks : c.vehicle_id = v.id}}]]
  /\ pc' = "jobs"
  /\ UNCHANGED <<arguments, prepared, m_jobs, m_shipments, solution, results, counters>>

\* An amount that is not given has the length of the first vehicle's capacity.
DefaultAmount(amount) == IF amount = 0 THEN m_vehicles[1].capacity ELSE amount

\* add_jobs
AddJobs ==
  /\ pc = "jobs"
  /\ m_jobs' =
       [k \in DOMAIN problem.jobs |->
          LET j == problem.jobs[k]
          IN  [id |-> j.id, type |-> 2, index |-> get_index(j.location_id),
               setup |-> j.setup, service |-> j.service,
               amounts |-> {DefaultAmount(j.pickup), DefaultAmount(j.delivery)}]]
  /\ pc' = "shipments"
  /\ UNCHANGED <<arguments, prepared, m_vehicles, m_shipments, solution, results, counters>>

\* add_shipments: an amount that is not given stays empty.
AddShipments ==
  /\ pc = "shipments"
  /\ m_shipments' =
       [k \in DOMAIN problem.shipments |->
          LET s == problem.shipments[k]
              Task(type, location) ==
                [id |-> s.id, type |-> type, index |-> get_index(location),
                 setup |-> 0, service |-> s.service, amounts |-> {s.amount}]
          IN  <<Task(3, s.p_location_id), Task(4, s.d_location_id)>>]
  /\ pc' = "solve"
  /\ UNCHANGED <<arguments, prepared, m_vehicles, m_jobs, solution, results, counters>>

(***************************************************************************)
(* VROOM.                                                                  *)
(***************************************************************************)

Tasks == Range(m_jobs) \cup UNION {Range(m_shipments[k]) : k \in DOMAIN m_shipments}

\* Do all the amounts have the length of the first vehicle's capacity?
SizesAgree ==
  /\ \A k \in DOMAIN m_vehicles : m_vehicles[k].capacity = m_vehicles[1].capacity
  /\ \A t \in Tasks : t.amounts \subseteq {m_vehicles[1].capacity}

\* The orders in which some tasks may be served: pickups before deliveries.
Visits(tasks) ==
  {s \in SetToSeqs(tasks) :
     \A k, l \in DOMAIN s : s[k].id = s[l].id /\ s[k].type = 3 /\ s[l].type = 4 => k < l}

\* A task, or a visit to a site of the vehicle: a break has no location.
Site(type, id, index) ==
  [id |-> id, type |-> type, index |-> index, setup |-> 0, service |-> 0, amounts |-> {}]
Sites(type, indices) == SetToSeq({Site(type, 0, i) : i \in indices})
Breaks(v) == SetToSeq({Site(5, b, 0) : b \in v.breaks})

\* The steps of v through the stops, with the travel time up to each of them.
Steps(v, stops) ==
  LET Leg(from, to) == IF to.type = 5 THEN 0
                       ELSE Round(m_matrix[from][to.index][1], v.speed_factor)
  IN  FoldLeft(LAMBDA r, s :
                 LET from == IF r.steps = <<>> THEN s.index ELSE r.from
                     leg == Leg(from, s)
                 IN  [from |-> IF s.type = 5 THEN from ELSE s.index,
                      time |-> r.time + leg + s.setup + s.service,
                      steps |-> Append(r.steps,
                                       [id |-> s.id, type |-> s.type, index |-> s.index,
                                        arrival |-> r.time + leg,
                                        setup |-> s.setup, service |-> s.service,
                                        duration |-> leg + (IF r.steps = <<>> THEN 0
                                                            ELSE Last(r.steps).duration)])],
               [from |-> 0, time |-> 0, steps |-> <<>>], stops).steps

Route(k, visits) ==
  LET v == m_vehicles[k]
  IN  [vehicle |-> v.id,
       steps |-> Steps(v, Sites(1, v.start) \o visits \o Breaks(v) \o Sites(6, v.end))]

\* Any vehicle takes any tasks, the pickup and the delivery of a shipment both;
\* a vehicle that takes none has no route.
SolveByVroom ==
  /\ pc = "solve"
  /\ \/ /\ SizesAgree
        /\ \E taken \in [{t \in Tasks : t.type # 4} -> {0} \cup DOMAIN m_vehicles] :
             LET With(k) == {t \in Tasks : \E s \in DOMAIN taken : taken[s] = k /\ s.id = t.id
                                                 /\ (s.type = 2 <=> t.type = 2)}
                 used == SetToSortSeq({k \in DOMAIN m_vehicles : With(k) # {}}, <)
             IN  \E orders \in [DOMAIN m_vehicles -> UNION {Visits(With(k)) : k \in DOMAIN m_vehicles}] :
                   /\ \A k \in DOMAIN m_vehicles : orders[k] \in Visits(With(k))
                   /\ solution' = [routes |-> [n \in DOMAIN used |-> Route(used[n], orders[used[n]])],
                                   unassigned |-> SetToSeq(With(0))]
        /\ pc' = "route"
     \/ /\ ~SizesAgree
        /\ pc' = "failed" /\ UNCHANGED solution
  /\ UNCHANGED <<arguments, prepared, given, results, counters>>

(***************************************************************************)
(* get_results.                                                            *)
(***************************************************************************)

Row(vehicle, step, task_id, location_id, travel_time) ==
  [vehicle_seq |-> vehicle_seq, vehicle_id |-> vehicle, step_seq |-> step_seq,
   step_type |-> step.type, task_id |-> task_id, location_id |-> location_id,
   travel_time |-> travel_time, setup |-> step.setup, service |-> step.service]

AtSite(step) == step.type \in {1, 6}

\* The route of the current vehicle_seq.
CurrentRoute == solution.routes[vehicle_seq]

\* One row for each step; the travel time is what the step adds to the total.
\* Fault: prev_duration keeps the value of the first step.
SinceTheStart(step) == prev_duration
SinceTheStep(step) == step.duration

WriteStep ==
  /\ pc = "route" /\ vehicle_seq <= Len(solution.routes)
  /\ step_seq <= Len(CurrentRoute.steps)
  /\ LET step == CurrentRoute.steps[step_seq]
         row == Row(CurrentRoute.vehicle, step, IF AtSite(step) THEN -1 ELSE step.id,
                    get_original_id(step.index), step.duration - prev_duration)
     IN  /\ results' = Append(results, row @@ [arrival |-> step.arrival,
                                               departure |-> step.arrival + step.setup + step.service])
         /\ prev_duration' = SinceTheStep(step)
  /\ step_seq' = step_seq + 1
  /\ UNCHANGED <<arguments, prepared, given, solution, vehicle_seq, pc>>

\* Faults: the next route starts with the counters of this one.
KeptDuration == prev_duration
KeptStep == step_seq
NoDuration == 0
FirstStep == 1

Total(steps, field) == FoldLeft(LAMBDA sum, s : sum + s[field], 0, steps)

\* What VROOM says of the whole route.
SummaryOf(vehicle, seq, duration, setup, service) ==
  [vehicle_seq |-> seq, vehicle_id |-> vehicle, step_seq |-> 0, step_type |-> 0,
   task_id |-> 0, location_id |-> 0, travel_time |-> duration, setup |-> setup,
   service |-> service, arrival |-> 0, departure |-> 0]

SummarizeRoute ==
  /\ pc = "route" /\ vehicle_seq <= Len(solution.routes)
  /\ step_seq > Len(CurrentRoute.steps)
  /\ results' = Append(results,
                       SummaryOf(CurrentRoute.vehicle, vehicle_seq,
                                 Last(CurrentRoute.steps).duration,
                                 Total(CurrentRoute.steps, "setup"),
                                 Total(CurrentRoute.steps, "service")))
  /\ vehicle_seq' = vehicle_seq + 1
  /\ step_seq' = FirstStep /\ prev_duration' = NoDuration
  /\ UNCHANGED <<arguments, prepared, given, solution, pc>>

\* The tasks that no vehicle took come after the routes, as those of vehicle -1.
WriteUnassigned ==
  /\ pc = "route" /\ vehicle_seq > Len(solution.routes)
  /\ step_seq <= Len(solution.unassigned)
  /\ LET task == solution.unassigned[step_seq]
     IN  results' = Append(results,
                           Row(-1, [task EXCEPT !.setup = 0, !.service = 0], task.id,
                               get_original_id(task.index), 0)
                             @@ [arrival |-> 0, departure |-> 0])
  /\ step_seq' = step_seq + 1
  /\ UNCHANGED <<arguments, prepared, given, solution, vehicle_seq, prev_duration, pc>>

\* The summary of the solution is the last row.
Summarize ==
  /\ pc = "route" /\ vehicle_seq > Len(solution.routes)
  /\ step_seq > Len(solution.unassigned)
  /\ LET Sum(field) == FoldLeft(LAMBDA sum, r : sum + Total(r.steps, field), 0, solution.routes)
         duration == FoldLeft(LAMBDA sum, r : sum + Last(r.steps).duration, 0, solution.routes)
     IN  results' = Append(results, SummaryOf(0, 0, duration, Sum("setup"), Sum("service")))
  /\ pc' = "done"
  /\ UNCHANGED <<arguments, prepared, given, solution, counters>>

Terminated == pc \in {"done", "failed"} /\ UNCHANGED vars

Next ==
  \/ CollectLocations \/ ScaleSpeeds \/ BuildMatrix
  \/ AddVehicles \/ AddJobs \/ AddShipments \/ SolveByVroom
  \/ WriteStep \/ SummarizeRoute \/ WriteUnassigned \/ Summarize
  \/ Terminated

Spec == Init /\ [][Next]_vars

-----------------------------------------------------------------------------

RowsOf(vehicle) == {k \in DOMAIN results : results[k].vehicle_seq = vehicle}

\* The types of the variables; no time that is reported is negative.
TypeOK ==
  /\ problem \in Problems /\ costs \in MatrixQueries
  /\ NoLocation \notin location_ids
  /\ DOMAIN m_matrix = (IF m_matrix = <<>> THEN {} ELSE 0..(Cardinality(location_ids) - 1))
  /\ \A k \in DOMAIN results :
       /\ results[k].step_type \in 0..6
       /\ \A field \in {"travel_time", "setup", "service", "arrival", "departure"} :
            results[k][field] \in Nat
       /\ results[k].location_id \in location_ids \cup {0}
  /\ pc \in {"locations", "speeds", "matrix", "vehicles", "jobs", "shipments", "solve",
             "route", "done", "failed"}

\* The rows that say how to go from i to j; without one, the way back counts.
Ways(i, j) ==
  LET There == {k \in DOMAIN costs : costs[k].start_id = i /\ costs[k].end_id = j}
      Back == {k \in DOMAIN costs : costs[k].start_id = j /\ costs[k].end_id = i}
  IN  {costs[k].duration : k \in (IF There # {} THEN There ELSE Back)}

FactorsAreFarApart == Max(Factors) > 5 * Min(Factors)
SomePairHasNoData == \E i, j \in location_ids : i # j /\ Ways(i, j) = {}

\* A call is refused for one of three reasons: the speed factors, a pair of
\* locations that no row tells about in either direction, amounts whose lengths
\* differ; and it is refused when there is one: VROOM never works with a cell
\* that was not given.
RefusedForAReason ==
  /\ pc = "failed" => FactorsAreFarApart \/ SomePairHasNoData \/ ~SizesAgree
  /\ pc = "route" => ~FactorsAreFarApart /\ ~SomePairHasNoData

\* The durations of the matrix of a vehicle at the smallest factor are the given
\* ones, between the locations as they were given: for two stops of such a
\* vehicle with nothing but breaks between them, the travel time that is
\* reported is the one of the query.  It takes the order of the identifiers,
\* their indices, the cells, the scaling and the bookkeeping of get_results.
TravelTimesAreTheGivenOnes ==
  \A k, l \in DOMAIN results :
    LET a == results[k]
        b == results[l]
    IN  /\ k < l /\ a.vehicle_seq = b.vehicle_seq /\ a.vehicle_id > 0
        /\ a.step_type \notin {0, 5} /\ b.step_type \notin {0, 5}
        /\ \A n \in (k + 1)..(l - 1) : results[n].step_type = 5
        /\ \E v \in DOMAIN problem.vehicles :
             /\ problem.vehicles[v].id = b.vehicle_id
             /\ problem.vehicles[v].speed_factor = Min(Factors)
        => b.travel_time \in
             (IF a.location_id = b.location_id THEN {0}
              ELSE {Round(d * FactorUnit, Min(Factors)) : d \in Ways(a.location_id, b.location_id)})

\* The answer tells of each task once, where it was given, and numbers the rows
\* of a vehicle without a gap: 1, 2, 3 and the summary, 0, at the end.
EachTaskOnce ==
  pc = "done" =>
    /\ \A task \in {<<2, problem.jobs[k].id, problem.jobs[k].location_id>> : k \in DOMAIN problem.jobs}
          \cup UNION {{<<3, problem.shipments[k].id, problem.shipments[k].p_location_id>>,
                       <<4, problem.shipments[k].id, problem.shipments[k].d_location_id>>} :
                         k \in DOMAIN problem.shipments} :
         Cardinality({n \in DOMAIN results :
                        <<results[n].step_type, results[n].task_id, results[n].location_id>> = task}) = 1
    /\ \A n \in DOMAIN results :
         results[n].step_seq > 1 =>
           /\ results[n - 1].vehicle_seq = results[n].vehicle_seq
           /\ results[n - 1].step_seq = results[n].step_seq - 1

\* The sum of a field over some rows.
SumOf(indices, field) == MapThenSumSet(LAMBDA n : results[n][field], indices)

\* The summaries add up: the travel, setup and service times of the steps of a
\* route are those of its summary row, and the summary rows of the routes are
\* those of the last row.
SummariesAddUp ==
  pc = "done" =>
    \A field \in {"travel_time", "setup", "service"} :
      \A n \in {m \in DOMAIN results : results[m].step_type = 0} :
        results[n][field] =
          IF n = Len(results)
          THEN SumOf({m \in DOMAIN results : results[m].step_type = 0 /\ m # n}, field)
          ELSE SumOf({m \in RowsOf(results[n].vehicle_seq) : m # n}, field)

\* The test of edge_cases.pg, for every problem: when the speed factors and the
\* durations are multiplied by the same number, VROOM is given the same problem.
ScalingChangesNothing ==
  pc \in {"vehicles", "jobs", "shipments", "solve"} =>
    \A n \in {2, 4} :
      /\ Cells([k \in DOMAIN costs |-> [costs[k] EXCEPT !.duration = n * @]], n * Min(Factors))
           = m_matrix
      /\ \A k \in DOMAIN speed_factors :
           speed_factors[k] = Round(n * problem.vehicles[k].speed_factor, n * Min(Factors))

\* VROOM works on what the data say, or on nothing.
VroomIsGivenTheData == RefusedForAReason /\ ScalingChangesNothing

\* The answer is whole: its rows and what sums them up.
AnswerIsWhole == TypeOK /\ EachTaskOnce /\ SummariesAddUp

=============================================================================
