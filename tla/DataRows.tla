------------------------------ MODULE DataRows ------------------------------
(***************************************************************************)
(* The way of the rows of a query of the user into the program: the tables *)
(* of columns of pgdata_getters.cpp, the checks and the readers of         *)
(* check_get_data.cpp, the fetchers of pgdata_fetchers.cpp and the loop    *)
(* over the cursor in get_data.hpp.                                        *)
(*                                                                         *)
(* A query is the types of its columns and its rows.  A column has the     *)
(* same name whether the call uses timestamps or not, the types tell the   *)
(* two apart.  The cell of an array is the number of its dimensions and    *)
(* its elements, an INTERVAL its months, days and microseconds.  The zone  *)
(* of the server has no summer time.                                       *)
(***************************************************************************)
EXTENDS Integers, Sequences, FiniteSets, SequencesExt

CONSTANTS
  Queries,      \* [getter, types, rows]: the queries of the calls
  TupleLimit,   \* rows of a batch (the code: 1000000)
  Word,         \* 2^32, the number of values of a uint32_t
  LastTime,     \* the largest TTimestamp, the default of s_close
  NULL,         \* the SQL null
  Absent        \* no value: the query has no such column

ASSUME DataRowsAssumption ==
  /\ TupleLimit \in Nat \ {0} /\ Word \in Nat \ {0, 1} /\ LastTime \in Nat
  /\ NULL \notin Int /\ Absent \notin Int

VARIABLES
  query,
  checked,      \* has fetch_column_info accepted the columns?
  total_tuples, \* the rows fetched so far
  tuples,       \* the rows read so far
  pc            \* "fetch", "done" or "failed"

vars == <<query, checked, total_tuples, tuples, pc>>

-----------------------------------------------------------------------------
\* The tables of columns.

Needed(type, names) == {[name |-> n, type |-> type, strict |-> TRUE] : n \in names}
Optional(type, names) == {[name |-> n, type |-> type, strict |-> FALSE] : n \in names}
NeededIf(strict, type, names) ==
  IF strict THEN Needed(type, names) ELSE Optional(type, names)

Moment(use_timestamps) == IF use_timestamps THEN "TIMESTAMP" ELSE "ANY_INTEGER"
Lapse(use_timestamps) == IF use_timestamps THEN "INTERVAL" ELSE "ANY_POSITIVE_INTEGER"

get_matrix(use_timestamps) ==
  Needed("ANY_INTEGER", {"start_vid", "end_vid"}) \cup Needed(Lapse(use_timestamps), {"agg_cost"})

get_timeMultipliers(use_timestamps) ==
  Needed(Moment(use_timestamps), {"start_time"}) \cup Needed("ANY_NUMERICAL", {"multiplier"})

get_orders(is_euclidean, use_timestamps) ==
  UNION {Needed("ANY_INTEGER", {"id"}), Needed("ANY_UINT", {"amount"}),
         NeededIf(~is_euclidean, "ANY_INTEGER", {"p_id", "d_id"}),
         NeededIf(is_euclidean, "ANY_NUMERICAL", {"p_x", "p_y", "d_x", "d_y"}),
         Needed(Moment(use_timestamps), {"p_open", "p_close", "d_open", "d_close"}),
         Optional(Lapse(use_timestamps), {"p_service", "d_service"})}

get_vehicles(is_euclidean, use_timestamps, with_stops) ==
  UNION {Needed("ANY_INTEGER", {"id"}), Needed("ANY_UINT", {"capacity"}),
         Optional("ANY_UINT", {"number"}), Optional("ANY_NUMERICAL", {"speed"}),
         NeededIf(~is_euclidean, "ANY_INTEGER", {"s_id"}), Optional("ANY_INTEGER", {"e_id"}),
         NeededIf(is_euclidean, "ANY_NUMERICAL", {"s_x", "s_y"}),
         Optional("ANY_NUMERICAL", {"e_x", "e_y"}),
         Optional(Moment(use_timestamps), {"s_open", "s_close", "e_open", "e_close"}),
         Optional(Lapse(use_timestamps), {"s_service", "e_service"}),
         NeededIf(with_stops, "ANY_POSITIVE_ARRAY", {"stops"})}

vroom_get_matrix(use_timestamps) ==
  UNION {Needed("ANY_POSITIVE_INTEGER", {"start_id", "end_id"}),
         Needed(Lapse(use_timestamps), {"duration"}), Optional("INTEGER", {"cost"})}

vroom_get_breaks(use_timestamps) ==
  UNION {Needed("ANY_UINT", {"id", "vehicle_id"}), Optional(Lapse(use_timestamps), {"service"}),
         Optional("JSONB", {"data"})}

vroom_get_timewindows(use_timestamps, is_shipment) ==
  UNION {Needed("ANY_INTEGER", {"id"}), Needed(Moment(use_timestamps), {"tw_open", "tw_close"}),
         NeededIf(is_shipment, "CHAR1", {"kind"})}

vroom_get_jobs(use_timestamps) ==
  UNION {Needed("ANY_UINT", {"id"}), Needed("ANY_POSITIVE_INTEGER", {"location_id"}),
         Optional(Lapse(use_timestamps), {"setup", "service"}),
         Optional("ANY_POSITIVE_ARRAY", {"delivery", "pickup"}),
         Optional("ANY_UINT_ARRAY", {"skills"}), Optional("POSITIVE_INTEGER", {"priority"}),
         Optional("JSONB", {"data"})}

vroom_get_shipments(use_timestamps) ==
  UNION {Needed("ANY_UINT", {"id"}),
         Needed("ANY_POSITIVE_INTEGER", {"p_location_id", "d_location_id"}),
         Optional(Lapse(use_timestamps), {"p_setup", "p_service", "d_setup", "d_service"}),
         Optional("ANY_POSITIVE_ARRAY", {"amount"}), Optional("ANY_UINT_ARRAY", {"skills"}),
         Optional("POSITIVE_INTEGER", {"priority"}), Optional("JSONB", {"p_data", "d_data"})}

vroom_get_vehicles(use_timestamps) ==
  UNION {Needed("ANY_UINT", {"id"}), Optional("ANY_POSITIVE_INTEGER", {"start_id", "end_id"}),
         Optional("ANY_POSITIVE_ARRAY", {"capacity"}), Optional("ANY_UINT_ARRAY", {"skills"}),
         Optional(Moment(use_timestamps), {"tw_open", "tw_close"}),
         Optional("ANY_NUMERICAL", {"speed_factor"}), Optional("POSITIVE_INTEGER", {"max_tasks"}),
         Optional("JSONB", {"data"})}

\* A getter is its name, the use of timestamps and a flag: is the call
\* Euclidean, are the time windows of shipments, are the stops wanted?
Info(getter) ==
  LET stamps == getter.use_timestamps IN
  CASE getter.name = "matrix" -> get_matrix(stamps)
    [] getter.name = "multipliers" -> get_timeMultipliers(stamps)
    [] getter.name = "orders" -> get_orders(getter.flag, stamps)
    [] getter.name = "vehicles" -> get_vehicles(getter.flag, stamps, getter.with_stops)
    [] getter.name = "vroom_matrix" -> vroom_get_matrix(stamps)
    [] getter.name = "breaks" -> vroom_get_breaks(stamps)
    [] getter.name = "timewindows" -> vroom_get_timewindows(stamps, getter.flag)
    [] getter.name = "jobs" -> vroom_get_jobs(stamps)
    [] getter.name = "shipments" -> vroom_get_shipments(stamps)
    [] getter.name = "vroom_vehicles" -> vroom_get_vehicles(stamps)

-----------------------------------------------------------------------------
\* The types of PostgreSQL a column may have.

Integral == {"int2", "int4", "int8"}
Accepted(type) ==
  CASE type \in {"ANY_INTEGER", "ANY_POSITIVE_INTEGER", "ANY_UINT"} -> Integral
    [] type = "ANY_NUMERICAL" -> Integral \cup {"float4", "float8", "numeric"}
    [] type \in {"INTEGER", "POSITIVE_INTEGER"} -> {"int2", "int4"}
    [] type = "ANY_POSITIVE_ARRAY" -> {"int2[]", "int4[]", "int8[]"}
    [] type = "ANY_UINT_ARRAY" -> {"int2[]", "int4[]"}
    [] type = "JSONB" -> {"jsonb"}
    [] type = "CHAR1" -> {"bpchar"}
    [] type = "TIMESTAMP" -> {"timestamp"}
    [] type = "INTERVAL" -> {"interval"}

column_found(q, name) == name \in DOMAIN q.types

get_column_info(q, column) == column.strict => column_found(q, column.name)

fetch_column_info(q) ==
  \A column \in Info(q.getter) :
    /\ get_column_info(q, column)
    /\ column_found(q, column.name) => q.types[column.name] \in Accepted(column.type)

\* What PostgreSQL delivers in a column of a type: fractions count units.
IsCell(type, cell) ==
  cell # NULL =>
    CASE type \in Integral \cup {"float4", "float8", "numeric", "timestamp"} -> cell \in Int
      [] type \in {"int2[]", "int4[]", "int8[]"} ->
           /\ cell.dimensions \in Nat
           /\ cell.elements \in Seq(Int \cup {NULL})
      [] type = "interval" -> cell.month \in Int /\ cell.day \in Int /\ cell.time \in Int
      [] OTHER -> TRUE

Getters == {"matrix", "multipliers", "orders", "vehicles", "vroom_matrix", "breaks",
            "timewindows", "jobs", "shipments", "vroom_vehicles"}

\* The queries of the calls: a getter, types of columns and rows of such cells.
ASSUME QueriesAssumption ==
  \A q \in Queries :
    /\ q.getter.name \in Getters
    /\ q.getter.use_timestamps \in BOOLEAN /\ q.getter.flag \in BOOLEAN
    /\ q.getter.with_stops \in BOOLEAN
    /\ q.rows \in Seq(Range(q.rows))
    /\ \A k \in DOMAIN q.rows : \A n \in DOMAIN q.types : IsCell(q.types[n], q.rows[k][n])

-----------------------------------------------------------------------------
\* The readers: what a cell is read as, and the cells they refuse.

TowardsZero(a, b) == IF a < 0 THEN -((-a) \div b) ELSE a \div b

\* A month has 365.25 / 12 days.
getInterval(cell) == TowardsZero(cell.time, 1000000) + cell.day * 86400 + cell.month * 2629800

\* Microseconds since 2000 become seconds since 1970.
get_timestamp_without_timezone(stamp) == stamp \div 1000000 + 946684800

get_pgarray(cell) == IF cell = NULL \/ cell.dimensions = 0 THEN <<>> ELSE cell.elements
BadArray(cell) ==
  /\ cell # NULL /\ cell.dimensions # 0
  /\ cell.dimensions # 1 \/ NULL \in Range(cell.elements)

\* A value that may not be negative and is.
Negative(type, cell) ==
  \/ type \in {"ANY_POSITIVE_INTEGER", "ANY_UINT", "POSITIVE_INTEGER"} /\ cell < 0
  \/ type = "INTERVAL" /\ getInterval(cell) < 0
  \/ type \in {"ANY_POSITIVE_ARRAY", "ANY_UINT_ARRAY"}
     /\ \E k \in DOMAIN get_pgarray(cell) : get_pgarray(cell)[k] < 0

Unreadable(type, cell) ==
  IF type \in {"ANY_POSITIVE_ARRAY", "ANY_UINT_ARRAY"}
  THEN BadArray(cell) \/ Negative(type, cell)
  ELSE cell = NULL \/ Negative(type, cell)

get_value(type, cell) ==
  CASE type = "INTERVAL" -> getInterval(cell)
    [] type = "TIMESTAMP" -> get_timestamp_without_timezone(cell)
    [] type \in {"ANY_POSITIVE_ARRAY", "ANY_UINT_ARRAY"} -> get_pgarray(cell)
    [] OTHER -> cell

\* The columns the fetcher does not look at.
Ignored(getter) ==
  CASE getter.name = "orders" ->
         IF getter.flag THEN {"p_id", "d_id"} ELSE {"p_x", "p_y", "d_x", "d_y"}
    [] getter.name = "vehicles" ->
         IF getter.flag THEN {"s_id", "e_id"} ELSE {"s_x", "s_y", "e_x", "e_y"}
    [] getter.name = "timewindows" /\ ~getter.flag -> {"kind"}
    [] OTHER -> {}
Looked(getter) == {column \in Info(getter) : column.name \notin Ignored(getter)}

\* What the readers make of a row: a value for every column looked at.
Cells(q, row) ==
  [n \in {column.name : column \in Looked(q.getter)} |->
     IF column_found(q, n)
     THEN get_value((CHOOSE column \in Info(q.getter) : column.name = n).type, row[n])
     ELSE Absent]

\* The default of the data of a user, the JSON object {}.
EmptyObject == "empty"

Or(value, default) == IF value = Absent THEN default ELSE value
\* Fault: the number is kept in an int32_t.
Int32(value) ==
  IF value % Word < Word \div 2 THEN value % Word ELSE (value % Word) - Word
\* A number that is kept in a uint32_t.
UInt32(value) == value % Word

-----------------------------------------------------------------------------
\* The fetchers: the values of a row, and the rows they refuse.

fetch_orders(c) ==
  [c EXCEPT !.amount = UInt32(@), !.p_service = Or(@, 0), !.d_service = Or(@, 0)]
\* Fault: only one of the two windows of an order is verified.
RefusesPickWindow(t) == t.amount = 0 \/ t.p_close < t.p_open
RefusesOrder(t) == t.amount = 0 \/ t.p_close < t.p_open \/ t.d_close < t.d_open

\* A coordinate or a node: the one of the start where the end has none.
EndIsStart(c) ==
  [n \in DOMAIN c |-> CASE n = "e_id" -> Or(c[n], c["s_id"])
                        [] n = "e_x" -> Or(c[n], c["s_x"])
                        [] n = "e_y" -> Or(c[n], c["s_y"])
                        [] OTHER -> c[n]]
WithStart(c) ==
  [c EXCEPT !.capacity = UInt32(@), !.number = UInt32(Or(@, 1)), !.speed = Or(@, 1),
            !.s_open = Or(@, 0), !.s_close = Or(@, LastTime), !.s_service = Or(@, 0),
            !.e_service = Or(@, 0), !.stops = Or(@, <<>>)]
\* Fault: an end without a window may be reached at any time.
fetch_vehicle_open_end(c) ==
  LET v == EndIsStart(WithStart(c)) IN [v EXCEPT !.e_open = Or(@, 0), !.e_close = Or(@, LastTime)]
fetch_vehicles(c) ==
  LET v == EndIsStart(WithStart(c))
  IN  [v EXCEPT !.e_open = Or(@, v.s_open), !.e_close = Or(@, v.s_close)]
\* A row with one coordinate of the end alone.
check_pairs(q) == q.getter.flag /\ (column_found(q, "e_x") # column_found(q, "e_y"))

fetch_vroom_matrix(c) ==
  [c EXCEPT !.duration = UInt32(@), !.cost = UInt32(Or(@, UInt32(c.duration)))]

fetch_breaks(c) == [c EXCEPT !.service = UInt32(Or(@, 0)), !.data = Or(@, EmptyObject)]

fetch_timewindows(c) == [c EXCEPT !.tw_open = UInt32(@), !.tw_close = UInt32(@)]
RefusesWindow(getter, t) ==
  (getter.flag /\ t.kind \notin {"p", "d"}) \/ t.tw_open > t.tw_close

fetch_jobs(c) ==
  [c EXCEPT !.setup = UInt32(Or(@, 0)), !.service = UInt32(Or(@, 0)), !.pickup = Or(@, <<>>),
            !.delivery = Or(@, <<>>), !.skills = Or(@, <<>>), !.priority = Or(@, 0),
            !.data = Or(@, EmptyObject)]

fetch_shipments(c) ==
  [c EXCEPT !.p_setup = UInt32(Or(@, 0)), !.p_service = UInt32(Or(@, 0)),
            !.d_setup = UInt32(Or(@, 0)), !.d_service = UInt32(Or(@, 0)),
            !.amount = Or(@, <<>>), !.skills = Or(@, <<>>), !.priority = Or(@, 0),
            !.p_data = Or(@, EmptyObject), !.d_data = Or(@, EmptyObject)]

fetch_vroom_vehicles(c) ==
  [c EXCEPT !.start_id = Or(@, -1), !.end_id = Or(@, -1), !.capacity = Or(@, <<>>),
            !.skills = Or(@, <<>>), !.tw_open = UInt32(Or(@, 0)),
            !.tw_close = UInt32(Or(@, Word - 1)), !.speed_factor = Or(@, 1),
            !.max_tasks = Or(@, Word \div 2 - 1), !.data = Or(@, EmptyObject)]
RefusesVehicle(q, t) ==
  \/ t.tw_open > t.tw_close
  \/ ~column_found(q, "start_id") /\ ~column_found(q, "end_id")
  \/ t.speed_factor <= 0

Fetched(q, row) ==
  LET c == Cells(q, row)
      name == q.getter.name
  IN  CASE name = "orders" -> fetch_orders(c)
        [] name = "vehicles" -> fetch_vehicles(c)
        [] name = "vroom_matrix" -> fetch_vroom_matrix(c)
        [] name = "breaks" -> fetch_breaks(c)
        [] name = "timewindows" -> fetch_timewindows(c)
        [] name = "jobs" -> fetch_jobs(c)
        [] name = "shipments" -> fetch_shipments(c)
        [] name = "vroom_vehicles" -> fetch_vroom_vehicles(c)
        [] OTHER -> c

\* A row that ends the call: a cell no reader accepts, or a row the fetcher
\* does not accept.
Refused(q, row) ==
  \/ \E column \in Looked(q.getter) :
       column_found(q, column.name) /\ Unreadable(column.type, row[column.name])
  \/ CASE q.getter.name = "orders" -> RefusesOrder(Fetched(q, row))
       [] q.getter.name = "vehicles" -> check_pairs(q)
       [] q.getter.name = "timewindows" -> RefusesWindow(q.getter, Fetched(q, row))
       [] q.getter.name \in {"jobs", "shipments"} -> Fetched(q, row).priority > 100
       [] q.getter.name = "vroom_vehicles" -> RefusesVehicle(q, Fetched(q, row))
       [] OTHER -> FALSE

-----------------------------------------------------------------------------
\* The loop over the cursor.

Init ==
  /\ query \in Queries
  /\ checked = FALSE /\ total_tuples = 0 /\ tuples = <<>> /\ pc = "fetch"

\* The next rows of the cursor.
Batch == SubSeq(query.rows, total_tuples + 1,
                IF total_tuples + TupleLimit < Len(query.rows)
                THEN total_tuples + TupleLimit ELSE Len(query.rows))

\* Fault: a batch with room left is taken for the last one.
LastBatch == Len(Batch) < TupleLimit

\* Fault: a batch without rows is not the last one.
NeverLast == FALSE

NoMoreData == Batch = <<>>

\* Fault: the columns are verified when there is a row to read.
ColumnsOfRowsAreRight == total_tuples = 0 /\ Batch # <<>> => fetch_column_info(query)

ColumnsAreRight == total_tuples = 0 => fetch_column_info(query)

BatchIsRight == ColumnsAreRight /\ \A k \in DOMAIN Batch : ~Refused(query, Batch[k])

Fail ==
  /\ pc = "fetch" /\ ~BatchIsRight
  /\ pc' = "failed" /\ tuples' = <<>>
  /\ UNCHANGED <<query, checked, total_tuples>>

FetchBatch ==
  /\ pc = "fetch" /\ BatchIsRight /\ ~NoMoreData
  /\ checked' = TRUE
  /\ total_tuples' = total_tuples + Len(Batch)
  /\ tuples' = tuples \o [k \in DOMAIN Batch |-> Fetched(query, Batch[k])]
  /\ UNCHANGED <<query, pc>>

CloseCursor ==
  /\ pc = "fetch" /\ BatchIsRight /\ NoMoreData
  /\ checked' = TRUE /\ pc' = "done"
  /\ UNCHANGED <<query, total_tuples, tuples>>

Terminated == pc \in {"done", "failed"} /\ UNCHANGED vars

Next == Fail \/ FetchBatch \/ CloseCursor \/ Terminated

\* get_data is a loop of one process, which runs on.
Spec == Init /\ [][Next]_vars /\ WF_vars(Next)

-----------------------------------------------------------------------------
\* Properties.

UInt32Columns(getter) ==
  CASE getter.name = "orders" -> {"amount"}
    [] getter.name = "vehicles" -> {"capacity", "number"}
    [] getter.name = "vroom_matrix" -> {"duration", "cost"}
    [] getter.name = "breaks" -> {"service"}
    [] getter.name \in {"timewindows", "vroom_vehicles"} -> {"tw_open", "tw_close"}
    [] getter.name = "jobs" -> {"setup", "service"}
    [] getter.name = "shipments" -> {"p_setup", "p_service", "d_setup", "d_service"}
    [] OTHER -> {}

\* The rows read are rows of the getter, and what is kept in a uint32_t fits
\* in one.
TypeOK ==
  /\ checked \in BOOLEAN /\ pc \in {"fetch", "done", "failed"}
  /\ total_tuples \in 0 .. Len(query.rows)
  /\ \A k \in DOMAIN tuples :
       /\ DOMAIN tuples[k] = {column.name : column \in Looked(query.getter)}
       /\ \A n \in UInt32Columns(query.getter) : tuples[k][n] \in 0 .. Word - 1

\* Whatever the size of the batches, the cursor is read to its end or the call
\* fails, and a call that succeeds has every row of the query, in the order of
\* the query: the optimizers break their ties by the order of the data
\* (get_data).
EveryRowArrives ==
  <>(\/ pc = "failed"
     \/ /\ pc = "done" /\ Len(tuples) = Len(query.rows)
        /\ column_found(query, "id") =>
             \A k \in DOMAIN tuples : tuples[k].id = query.rows[k].id)

\* A query that lacks a column or has one of a wrong type is refused, also
\* when it has no row (get_data, fetch_column_info).
ColumnsAreVerified ==
  pc = "done" =>
    \A column \in Info(query.getter) :
      \/ ~column.strict /\ column.name \notin DOMAIN query.types
      \/ /\ column.name \in DOMAIN query.types
         /\ query.types[column.name] \in Accepted(column.type)

\* What the rest of the program takes for granted of the rows: windows that
\* open before they close, no service that gives time back, orders with
\* something to carry, speeds that move (fetchers and readers together: the
\* test of the service of a delivery in fetch_orders never bites, the readers
\* refuse the row before).
Usable(getter, t) ==
  CASE getter.name = "orders" ->
         /\ t.amount > 0 /\ t.p_open <= t.p_close /\ t.d_open <= t.d_close
         /\ t.p_service >= 0 /\ t.d_service >= 0
    [] getter.name = "vehicles" ->
         t.number >= 0 /\ t.s_service >= 0 /\ t.e_service >= 0
         /\ \A k \in DOMAIN t.stops : t.stops[k] >= 0
    [] getter.name = "matrix" -> t.agg_cost >= 0
    [] getter.name = "timewindows" ->
         t.tw_open <= t.tw_close /\ (getter.flag => t.kind \in {"p", "d"})
    [] getter.name = "vroom_vehicles" ->
         /\ t.tw_open <= t.tw_close /\ t.speed_factor > 0
         /\ \A k \in DOMAIN t.capacity : t.capacity[k] >= 0
    [] getter.name \in {"jobs", "shipments"} -> t.priority \in 0 .. 100
    [] OTHER -> TRUE
RowsAreUsable == \A k \in DOMAIN tuples : Usable(query.getter, tuples[k])

\* A whole number that fits its field is read as it is, for every column and
\* every getter (get_value and its readers).
NumbersAreKept ==
  \A k \in DOMAIN tuples : \A column \in Looked(query.getter) :
    (column_found(query, column.name) /\ query.types[column.name] \in Integral) =>
      LET cell == query.rows[k][column.name]
      IN  cell \in 0 .. Word - 1 => tuples[k][column.name] = cell

\* What stands for an optional column of the vehicles that is left out: one
\* vehicle of speed 1 that is always open, takes no time at either end, and ends
\* where and when it starts.  These are the documented defaults
\* (doc/general/concepts.rst, Vehicles SQL), but for the service at the end,
\* which is 0 and should be that at the start.
VehicleDefaults ==
  query.getter.name = "vehicles" =>
    \A k \in DOMAIN tuples :
      LET t == tuples[k]
          optional == {"number", "speed", "s_open", "s_close", "s_service",
                       "e_open", "e_close", "e_service", "e_id", "e_x", "e_y"}
          default == [n \in optional \cap DOMAIN t |->
            CASE n \in {"number", "speed"} -> 1
              [] n \in {"s_open", "s_service", "e_service"} -> 0
              [] n = "s_close" -> LastTime
              [] n = "e_open" -> t.s_open [] n = "e_close" -> t.s_close
              [] n = "e_id" -> t.s_id [] n = "e_x" -> t.s_x [] n = "e_y" -> t.s_y]
      IN  \A n \in DOMAIN default :
            ~column_found(query, n) => t[n] = default[n]

\* What the caller of a getter relies on.
AcceptedDataAreUsable == TypeOK /\ ColumnsAreVerified /\ RowsAreUsable

\* What a cell becomes, and what stands for a column that is left out.
CellsMeanWhatTheySay == NumbersAreKept /\ VehicleDefaults

=============================================================================
