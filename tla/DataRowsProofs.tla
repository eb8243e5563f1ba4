--------------------------- MODULE DataRowsProofs ---------------------------
(***************************************************************************)
(* What a getter hands to the program, for every query, any number of rows *)
(* and batches of any size: the rows of the query in their order, read as  *)
(* what the fetchers make of them, and fit for the optimizers.             *)
(***************************************************************************)
EXTENDS DataRows, SequenceTheorems, TLAPS

(***************************************************************************)
(* The columns of a getter.                                                *)
(***************************************************************************)

\* A getter of one of the queries.
IsGetter(g) ==
  /\ g.name \in Getters
  /\ g.use_timestamps \in BOOLEAN /\ g.flag \in BOOLEAN /\ g.with_stops \in BOOLEAN

\* The type of the column of a name.
NamedType(g, n) ==
  CASE n = "id" ->
         IF g.name \in {"orders", "vehicles", "timewindows"} THEN "ANY_INTEGER" ELSE "ANY_UINT"
    [] n = "amount" -> IF g.name = "orders" THEN "ANY_UINT" ELSE "ANY_POSITIVE_ARRAY"
    [] n = "capacity" -> IF g.name = "vehicles" THEN "ANY_UINT" ELSE "ANY_POSITIVE_ARRAY"
    [] n \in {"start_vid", "end_vid", "p_id", "d_id", "s_id", "e_id"} -> "ANY_INTEGER"
    [] n \in {"start_id", "end_id", "location_id", "p_location_id", "d_location_id"} ->
         "ANY_POSITIVE_INTEGER"
    [] n \in {"number", "vehicle_id"} -> "ANY_UINT"
    [] n \in {"multiplier", "p_x", "p_y", "d_x", "d_y", "s_x", "s_y", "e_x", "e_y", "speed",
              "speed_factor"} -> "ANY_NUMERICAL"
    [] n = "cost" -> "INTEGER"
    [] n \in {"priority", "max_tasks"} -> "POSITIVE_INTEGER"
    [] n \in {"start_time", "p_open", "p_close", "d_open", "d_close", "s_open", "s_close",
              "e_open", "e_close", "tw_open", "tw_close"} -> Moment(g.use_timestamps)
    [] n \in {"agg_cost", "duration", "setup", "service", "p_setup", "p_service", "d_setup",
              "d_service", "s_service", "e_service"} -> Lapse(g.use_timestamps)
    [] n \in {"stops", "delivery", "pickup"} -> "ANY_POSITIVE_ARRAY"
    [] n = "skills" -> "ANY_UINT_ARRAY"
    [] n = "kind" -> "CHAR1"
    [] OTHER -> "JSONB"

\* c is a column of one of the names.
Of(c, type, names) == c.type = type /\ c.name \in names

\* The columns of some names.
LEMMA ColumnsAre ==
  ASSUME NEW type, NEW names, NEW strict \in BOOLEAN, NEW c
  PROVE  /\ c \in Needed(type, names) => Of(c, type, names)
         /\ c \in Optional(type, names) => Of(c, type, names)
         /\ c \in NeededIf(strict, type, names) => Of(c, type, names)
<1>1. c \in Needed(type, names) => Of(c, type, names)
  BY DEF Needed, Of
<1>2. c \in Optional(type, names) => Of(c, type, names)
  BY DEF Optional, Of
<1>3. QED
  BY <1>1, <1>2 DEF NeededIf

\* The columns of a matrix have the types of their names.
LEMMA MatrixTypes ==
  ASSUME NEW g, IsGetter(g), g.name = "matrix", NEW c \in Info(g)
  PROVE  c.type = NamedType(g, c.name)
<1> DEFINE A == Needed("ANY_INTEGER", {"start_vid", "end_vid"})
           B == Needed(Lapse(g.use_timestamps), {"agg_cost"})
<1>1. Info(g) = A \cup B
  BY DEF Info, get_matrix
<1>2. /\ c \in A => Of(c, "ANY_INTEGER", {"start_vid", "end_vid"})
      /\ c \in B => Of(c, Lapse(g.use_timestamps), {"agg_cost"})
  BY ColumnsAre DEF IsGetter
<1> HIDE DEF A, B
<1>3. c \in A \cup B
  BY <1>1
<1>4. QED
  BY <1>2, <1>3 DEF Of, NamedType

\* The columns of the multipliers have the types of their names.
LEMMA MultipliersTypes ==
  ASSUME NEW g, IsGetter(g), g.name = "multipliers", NEW c \in Info(g)
  PROVE  c.type = NamedType(g, c.name)
<1> DEFINE A == Needed(Moment(g.use_timestamps), {"start_time"})
           B == Needed("ANY_NUMERICAL", {"multiplier"})
<1>1. Info(g) = A \cup B
  BY DEF Info, get_timeMultipliers
<1>2. /\ c \in A => Of(c, Moment(g.use_timestamps), {"start_time"})
      /\ c \in B => Of(c, "ANY_NUMERICAL", {"multiplier"})
  BY ColumnsAre DEF IsGetter
<1> HIDE DEF A, B
<1>3. c \in A \cup B
  BY <1>1
<1>4. QED
  BY <1>2, <1>3 DEF Of, NamedType

\* The columns of orders have the types of their names.
LEMMA OrdersTypes ==
  ASSUME NEW g, IsGetter(g), g.name = "orders", NEW c \in Info(g)
  PROVE  c.type = NamedType(g, c.name)
<1> DEFINE A == Needed("ANY_INTEGER", {"id"})
           B == Needed("ANY_UINT", {"amount"})
           C == NeededIf(~g.flag, "ANY_INTEGER", {"p_id", "d_id"})
           D == NeededIf(g.flag, "ANY_NUMERICAL", {"p_x", "p_y", "d_x", "d_y"})
           E == Needed(Moment(g.use_timestamps), {"p_open", "p_close", "d_open", "d_close"})
           F == Optional(Lapse(g.use_timestamps), {"p_service", "d_service"})
<1>1. Info(g) = UNION {A, B, C, D, E, F}
  BY DEF Info, get_orders
<1>2. /\ c \in A => Of(c, "ANY_INTEGER", {"id"})
      /\ c \in B => Of(c, "ANY_UINT", {"amount"})
      /\ c \in C => Of(c, "ANY_INTEGER", {"p_id", "d_id"})
      /\ c \in D => Of(c, "ANY_NUMERICAL", {"p_x", "p_y", "d_x", "d_y"})
      /\ c \in E => Of(c, Moment(g.use_timestamps), {"p_open", "p_close", "d_open", "d_close"})
      /\ c \in F => Of(c, Lapse(g.use_timestamps), {"p_service", "d_service"})
  BY ColumnsAre DEF IsGetter
<1> HIDE DEF A, B, C, D, E, F
<1>3. c \in A \cup B \cup C \cup D \cup E \cup F
  BY <1>1
<1>4. QED
  BY <1>2, <1>3 DEF Of, NamedType

\* The columns of vehicles have the types of their names.
LEMMA VehiclesTypes ==
  ASSUME NEW g, IsGetter(g), g.name = "vehicles", NEW c \in Info(g)
  PROVE  c.type = NamedType(g, c.name)
<1> DEFINE A == Needed("ANY_INTEGER", {"id"})
           B == Needed("ANY_UINT", {"capacity"})
           C == Optional("ANY_UINT", {"number"})
           D == Optional("ANY_NUMERICAL", {"speed"})
           E == NeededIf(~g.flag, "ANY_INTEGER", {"s_id"})
           F == Optional("ANY_INTEGER", {"e_id"})
           G == NeededIf(g.flag, "ANY_NUMERICAL", {"s_x", "s_y"})
           H == Optional("ANY_NUMERICAL", {"e_x", "e_y"})
           I == Optional(Moment(g.use_timestamps), {"s_open", "s_close", "e_open", "e_close"})
           J == Optional(Lapse(g.use_timestamps), {"s_service", "e_service"})
           K == NeededIf(g.with_stops, "ANY_POSITIVE_ARRAY", {"stops"})
<1>1. Info(g) = UNION {A, B, C, D, E, F, G, H, I, J, K}
  BY DEF Info, get_vehicles
<1>2. /\ c \in A => Of(c, "ANY_INTEGER", {"id"})
      /\ c \in B => Of(c, "ANY_UINT", {"capacity"})
      /\ c \in C => Of(c, "ANY_UINT", {"number"})
      /\ c \in D => Of(c, "ANY_NUMERICAL", {"speed"})
      /\ c \in E => Of(c, "ANY_INTEGER", {"s_id"})
      /\ c \in F => Of(c, "ANY_INTEGER", {"e_id"})
      /\ c \in G => Of(c, "ANY_NUMERICAL", {"s_x", "s_y"})
      /\ c \in H => Of(c, "ANY_NUMERICAL", {"e_x", "e_y"})
      /\ c \in I => Of(c, Moment(g.use_timestamps), {"s_open", "s_close", "e_open", "e_close"})
      /\ c \in J => Of(c, Lapse(g.use_timestamps), {"s_service", "e_service"})
      /\ c \in K => Of(c, "ANY_POSITIVE_ARRAY", {"stops"})
  BY ColumnsAre DEF IsGetter
<1> HIDE DEF A, B, C, D, E, F, G, H, I, J, K
<1>3. c \in A \cup B \cup C \cup D \cup E \cup F \cup G \cup H \cup I \cup J \cup K
  BY <1>1
<1>4. QED
  BY <1>2, <1>3 DEF Of, NamedType

\* The columns of the matrix of vroom have the types of their names.
LEMMA VroomMatrixTypes ==
  ASSUME NEW g, IsGetter(g), g.name = "vroom_matrix", NEW c \in Info(g)
  PROVE  c.type = NamedType(g, c.name)
<1> DEFINE A == Needed("ANY_POSITIVE_INTEGER", {"start_id", "end_id"})
           B == Needed(Lapse(g.use_timestamps), {"duration"})
           C == Optional("INTEGER", {"cost"})
<1>1. Info(g) = UNION {A, B, C}
  BY DEF Info, vroom_get_matrix
<1>2. /\ c \in A => Of(c, "ANY_POSITIVE_INTEGER", {"start_id", "end_id"})
      /\ c \in B => Of(c, Lapse(g.use_timestamps), {"duration"})
      /\ c \in C => Of(c, "INTEGER", {"cost"})
  BY ColumnsAre DEF IsGetter
<1> HIDE DEF A, B, C
<1>3. c \in A \cup B \cup C
  BY <1>1
<1>4. QED
  BY <1>2, <1>3 DEF Of, NamedType

\* The columns of breaks have the types of their names.
LEMMA BreaksTypes ==
  ASSUME NEW g, IsGetter(g), g.name = "breaks", NEW c \in Info(g)
  PROVE  c.type = NamedType(g, c.name)
<1> DEFINE A == Needed("ANY_UINT", {"id", "vehicle_id"})
           B == Optional(Lapse(g.use_timestamps), {"service"})
           C == Optional("JSONB", {"data"})
<1>1. Info(g) = UNION {A, B, C}
  BY DEF Info, vroom_get_breaks
<1>2. /\ c \in A => Of(c, "ANY_UINT", {"id", "vehicle_id"})
      /\ c \in B => Of(c, Lapse(g.use_timestamps), {"service"})
      /\ c \in C => Of(c, "JSONB", {"data"})
  BY ColumnsAre DEF IsGetter
<1> HIDE DEF A, B, C
<1>3. c \in A \cup B \cup C
  BY <1>1
<1>4. QED
  BY <1>2, <1>3 DEF Of, NamedType

\* The columns of time windows have the types of their names.
LEMMA TimewindowsTypes ==
  ASSUME NEW g, IsGetter(g), g.name = "timewindows", NEW c \in Info(g)
  PROVE  c.type = NamedType(g, c.name)
<1> DEFINE A == Needed("ANY_INTEGER", {"id"})
           B == Needed(Moment(g.use_timestamps), {"tw_open", "tw_close"})
           C == NeededIf(g.flag, "CHAR1", {"kind"})
<1>1. Info(g) = UNION {A, B, C}
  BY DEF Info, vroom_get_timewindows
<1>2. /\ c \in A => Of(c, "ANY_INTEGER", {"id"})
      /\ c \in B => Of(c, Moment(g.use_timestamps), {"tw_open", "tw_close"})
      /\ c \in C => Of(c, "CHAR1", {"kind"})
  BY ColumnsAre DEF IsGetter
<1> HIDE DEF A, B, C
<1>3. c \in A \cup B \cup C
  BY <1>1
<1>4. QED
  BY <1>2, <1>3 DEF Of, NamedType

\* The columns of jobs have the types of their names.
LEMMA JobsTypes ==
  ASSUME NEW g, IsGetter(g), g.name = "jobs", NEW c \in Info(g)
  PROVE  c.type = NamedType(g, c.name)
<1> DEFINE A == Needed("ANY_UINT", {"id"})
           B == Needed("ANY_POSITIVE_INTEGER", {"location_id"})
           C == Optional(Lapse(g.use_timestamps), {"setup", "service"})
           D == Optional("ANY_POSITIVE_ARRAY", {"delivery", "pickup"})
           E == Optional("ANY_UINT_ARRAY", {"skills"})
           F == Optional("POSITIVE_INTEGER", {"priority"})
           G == Optional("JSONB", {"data"})
<1>1. Info(g) = UNION {A, B, C, D, E, F, G}
  BY DEF Info, vroom_get_jobs
<1>2. /\ c \in A => Of(c, "ANY_UINT", {"id"})
      /\ c \in B => Of(c, "ANY_POSITIVE_INTEGER", {"location_id"})
      /\ c \in C => Of(c, Lapse(g.use_timestamps), {"setup", "service"})
      /\ c \in D => Of(c, "ANY_POSITIVE_ARRAY", {"delivery", "pickup"})
      /\ c \in E => Of(c, "ANY_UINT_ARRAY", {"skills"})
      /\ c \in F => Of(c, "POSITIVE_INTEGER", {"priority"})
      /\ c \in G => Of(c, "JSONB", {"data"})
  BY ColumnsAre DEF IsGetter
<1> HIDE DEF A, B, C, D, E, F, G
<1>3. c \in A \cup B \cup C \cup D \cup E \cup F \cup G
  BY <1>1
<1>4. QED
  BY <1>2, <1>3 DEF Of, NamedType

\* The columns of shipments have the types of their names.
LEMMA ShipmentsTypes ==
  ASSUME NEW g, IsGetter(g), g.name = "shipments", NEW c \in Info(g)
  PROVE  c.type = NamedType(g, c.name)
<1> DEFINE A == Needed("ANY_UINT", {"id"})
           B == Needed("ANY_POSITIVE_INTEGER", {"p_location_id", "d_location_id"})
           C == Optional(Lapse(g.use_timestamps), {"p_setup", "p_service", "d_setup", "d_service"})
           D == Optional("ANY_POSITIVE_ARRAY", {"amount"})
           E == Optional("ANY_UINT_ARRAY", {"skills"})
           F == Optional("POSITIVE_INTEGER", {"priority"})
           G == Optional("JSONB", {"p_data", "d_data"})
<1>1. Info(g) = UNION {A, B, C, D, E, F, G}
  BY DEF Info, vroom_get_shipments
<1>2. /\ c \in A => Of(c, "ANY_UINT", {"id"})
      /\ c \in B => Of(c, "ANY_POSITIVE_INTEGER", {"p_location_id", "d_location_id"})
      /\ c \in C => Of(c, Lapse(g.use_timestamps), {"p_setup", "p_service", "d_setup", "d_service"})
      /\ c \in D => Of(c, "ANY_POSITIVE_ARRAY", {"amount"})
      /\ c \in E => Of(c, "ANY_UINT_ARRAY", {"skills"})
      /\ c \in F => Of(c, "POSITIVE_INTEGER", {"priority"})
      /\ c \in G => Of(c, "JSONB", {"p_data", "d_data"})
  BY ColumnsAre DEF IsGetter
<1> HIDE DEF A, B, C, D, E, F, G
<1>3. c \in A \cup B \cup C \cup D \cup E \cup F \cup G
  BY <1>1
<1>4. QED
  BY <1>2, <1>3 DEF Of, NamedType

\* The columns of the vehicles of vroom have the types of their names.
LEMMA VroomVehiclesTypes ==
  ASSUME NEW g, IsGetter(g), g.name = "vroom_vehicles", NEW c \in Info(g)
  PROVE  c.type = NamedType(g, c.name)
<1> DEFINE A == Needed("ANY_UINT", {"id"})
           B == Optional("ANY_POSITIVE_INTEGER", {"start_id", "end_id"})
           C == Optional("ANY_POSITIVE_ARRAY", {"capacity"})
           D == Optional("ANY_UINT_ARRAY", {"skills"})
           E == Optional(Moment(g.use_timestamps), {"tw_open", "tw_close"})
           F == Optional("ANY_NUMERICAL", {"speed_factor"})
           G == Optional("POSITIVE_INTEGER", {"max_tasks"})
           H == Optional("JSONB", {"data"})
<1>1. Info(g) = UNION {A, B, C, D, E, F, G, H}
  BY DEF Info, vroom_get_vehicles
<1>2. /\ c \in A => Of(c, "ANY_UINT", {"id"})
      /\ c \in B => Of(c, "ANY_POSITIVE_INTEGER", {"start_id", "end_id"})
      /\ c \in C => Of(c, "ANY_POSITIVE_ARRAY", {"capacity"})
      /\ c \in D => Of(c, "ANY_UINT_ARRAY", {"skills"})
      /\ c \in E => Of(c, Moment(g.use_timestamps), {"tw_open", "tw_close"})
      /\ c \in F => Of(c, "ANY_NUMERICAL", {"speed_factor"})
      /\ c \in G => Of(c, "POSITIVE_INTEGER", {"max_tasks"})
      /\ c \in H => Of(c, "JSONB", {"data"})
  BY ColumnsAre DEF IsGetter
<1> HIDE DEF A, B, C, D, E, F, G, H
<1>3. c \in A \cup B \cup C \cup D \cup E \cup F \cup G \cup H
  BY <1>1
<1>4. QED
  BY <1>2, <1>3 DEF Of, NamedType

\* Every column has the type of its name.
LEMMA ColumnTypes ==
  ASSUME NEW g, IsGetter(g), NEW c \in Info(g)
  PROVE  c.type = NamedType(g, c.name)
<1>1. CASE g.name = "matrix"
  BY <1>1, MatrixTypes
<1>2. CASE g.name = "multipliers"
  BY <1>2, MultipliersTypes
<1>3. CASE g.name = "orders"
  BY <1>3, OrdersTypes
<1>4. CASE g.name = "vehicles"
  BY <1>4, VehiclesTypes
<1>5. CASE g.name = "vroom_matrix"
  BY <1>5, VroomMatrixTypes
<1>6. CASE g.name = "breaks"
  BY <1>6, BreaksTypes
<1>7. CASE g.name = "timewindows"
  BY <1>7, TimewindowsTypes
<1>8. CASE g.name = "jobs"
  BY <1>8, JobsTypes
<1>9. CASE g.name = "shipments"
  BY <1>9, ShipmentsTypes
<1>10. CASE g.name = "vroom_vehicles"
  BY <1>10, VroomVehiclesTypes
<1>11. QED
  BY <1>1, <1>2, <1>3, <1>4, <1>5, <1>6, <1>7, <1>8, <1>9, <1>10 DEF IsGetter, Getters

(***************************************************************************)
(* What the readers make of a cell.                                        *)
(***************************************************************************)

IntTypes == {"ANY_INTEGER", "ANY_NUMERICAL", "INTEGER", "TIMESTAMP"}
NatTypes == {"ANY_POSITIVE_INTEGER", "ANY_UINT", "POSITIVE_INTEGER", "INTERVAL"}
ArrayTypes == {"ANY_POSITIVE_ARRAY", "ANY_UINT_ARRAY"}

\* x is a value of a type.
IsValue(type, x) ==
  /\ type \in IntTypes => x \in Int
  /\ type \in NatTypes => x \in Nat
  /\ type \in ArrayTypes => x \in Seq(Nat)

\* The types of the columns are those the readers know.
LEMMA TypesAreKnown ==
  ASSUME NEW g, NEW n
  PROVE  NamedType(g, n) \in IntTypes \cup NatTypes \cup ArrayTypes \cup {"CHAR1", "JSONB"}
  BY DEF NamedType, Moment, Lapse, IntTypes, NatTypes, ArrayTypes

\* An interval is a number of seconds.
LEMMA IntervalIsNumber ==
  ASSUME NEW cell, cell.month \in Int, cell.day \in Int, cell.time \in Int
  PROVE  getInterval(cell) \in Int
<1>1. \A a \in Int : a \div 1000000 \in Int /\ -a \in Int
  OBVIOUS
<1>2. TowardsZero(cell.time, 1000000) \in Int
  BY <1>1 DEF TowardsZero
<1>3. QED
  BY <1>2 DEF getInterval

\* An array that can be read is one of naturals.
LEMMA ArrayIsOfNumbers ==
  ASSUME NEW cell, ~BadArray(cell),
         cell # NULL => cell.dimensions \in Nat /\ cell.elements \in Seq(Int \cup {NULL}),
         ~\E k \in DOMAIN get_pgarray(cell) : get_pgarray(cell)[k] < 0
  PROVE  get_pgarray(cell) \in Seq(Nat)
<1>1. CASE cell = NULL \/ cell.dimensions = 0
  BY <1>1 DEF get_pgarray
<1>2. CASE cell # NULL /\ cell.dimensions # 0
  <2> DEFINE e == cell.elements
  <2>1. get_pgarray(cell) = e /\ NULL \notin Range(e) /\ e \in Seq(Int \cup {NULL})
    BY <1>2 DEF get_pgarray, BadArray
  <2>2. e \in [1..Len(e) -> Int \cup {NULL}] /\ Len(e) \in Nat /\ DOMAIN e = 1..Len(e)
    BY <2>1
  <2>3. \A k \in 1..Len(e) : e[k] \in Int /\ ~(e[k] < 0)
    <3> TAKE k \in 1..Len(e)
    <3>1. e[k] # NULL /\ ~(e[k] < 0)
      BY <2>1, <2>2 DEF Range
    <3>2. QED
      BY <2>2, <3>1
  <2> HIDE DEF e
  <2>4. \A k \in 1..Len(e) : e[k] \in Nat
    BY <2>3
  <2>5. e \in [1..Len(e) -> Nat]
    BY <2>2, <2>4
  <2>6. QED
    BY <2>1, <2>2, <2>5
<1>3. QED
  BY <1>1, <1>2

\* A reader that accepts a cell makes a value of the type of it.
LEMMA ReadersRead ==
  ASSUME NEW type, NEW pg \in Accepted(type), NEW cell, IsCell(pg, cell), ~Unreadable(type, cell)
  PROVE  IsValue(type, get_value(type, cell))
<1>1. CASE type \in ArrayTypes
  <2>1. pg \in {"int2[]", "int4[]", "int8[]"}
    BY <1>1 DEF Accepted, ArrayTypes
  <2>2. cell # NULL => cell.dimensions \in Nat /\ cell.elements \in Seq(Int \cup {NULL})
    BY <2>1 DEF IsCell, Integral
  <2>3. ~BadArray(cell) /\ ~\E k \in DOMAIN get_pgarray(cell) : get_pgarray(cell)[k] < 0
    BY <1>1 DEF Unreadable, Negative, ArrayTypes
  <2>4. get_value(type, cell) = get_pgarray(cell)
    BY <1>1 DEF get_value, ArrayTypes
  <2>5. QED
    BY <1>1, <2>2, <2>3, <2>4, ArrayIsOfNumbers DEF IsValue, IntTypes, NatTypes, ArrayTypes
<1>2. CASE type = "INTERVAL"
  <2>1. pg = "interval" /\ cell # NULL /\ ~(getInterval(cell) < 0)
    BY <1>2 DEF Accepted, Unreadable, Negative
  <2>2. getInterval(cell) \in Int
    BY <2>1, IntervalIsNumber DEF IsCell, Integral
  <2>3. get_value(type, cell) = getInterval(cell)
    BY <1>2 DEF get_value
  <2>4. QED
    BY <1>2, <2>1, <2>2, <2>3 DEF IsValue, IntTypes, NatTypes, ArrayTypes
<1>3. CASE type = "TIMESTAMP"
  <2>1. pg = "timestamp" /\ cell # NULL
    BY <1>3 DEF Accepted, Unreadable
  <2>2. cell \in Int
    BY <2>1 DEF IsCell, Integral
  <2>3. get_value(type, cell) = (cell \div 1000000) + 946684800
    BY <1>3 DEF get_value, get_timestamp_without_timezone
  <2>4. QED
    BY <1>3, <2>2, <2>3 DEF IsValue, IntTypes, NatTypes, ArrayTypes
<1>4. CASE type \in (IntTypes \cup NatTypes) \ {"INTERVAL", "TIMESTAMP"}
  <2>1. pg \in Integral \cup {"float4", "float8", "numeric"} /\ cell # NULL
    BY <1>4 DEF Accepted, Unreadable, IntTypes, NatTypes, Integral
  <2>2. cell \in Int
    BY <2>1 DEF IsCell, Integral
  <2>3. type \in NatTypes => ~(cell < 0)
    BY <1>4 DEF Unreadable, Negative, NatTypes
  <2>4. get_value(type, cell) = cell
    BY <1>4 DEF get_value, IntTypes, NatTypes
  <2>5. QED
    BY <1>4, <2>2, <2>3, <2>4 DEF IsValue, IntTypes, NatTypes, ArrayTypes
<1>5. CASE type \notin IntTypes \cup NatTypes \cup ArrayTypes
  BY <1>5 DEF IsValue
<1>6. QED
  BY <1>1, <1>2, <1>3, <1>4, <1>5 DEF IntTypes, NatTypes

\* A whole number is read as it is.
LEMMA WholeNumbersRead ==
  ASSUME NEW g, NEW n, NEW cell, NEW pg \in Accepted(NamedType(g, n)), pg \in Integral
  PROVE  get_value(NamedType(g, n), cell) = cell
  BY TypesAreKnown DEF Accepted, get_value, Integral, IntTypes, NatTypes, ArrayTypes

(***************************************************************************)
(* What the fetchers make of a row.                                        *)
(***************************************************************************)

\* The names of the columns a getter looks at.
Fields(g) == {column.name : column \in Looked(g)}

\* The value of a column that is found is of its type, and a column that is
\* left out has none, which only one that is not needed may be.
IsRead(q, c) ==
  /\ c = [n \in Fields(q.getter) |-> c[n]]
  /\ \A n \in Fields(q.getter) :
       IF column_found(q, n) THEN IsValue(NamedType(q.getter, n), c[n]) ELSE c[n] = Absent
  /\ \A column \in Looked(q.getter) : column.strict => column_found(q, column.name)

\* The getters of the queries.
LEMMA QueriesAre ==
  ASSUME NEW q \in Queries
  PROVE  /\ IsGetter(q.getter) /\ Len(q.rows) \in Nat /\ DOMAIN q.rows = 1..Len(q.rows)
         /\ \A k \in DOMAIN q.rows : \A n \in DOMAIN q.types :
              IsCell(q.types[n], q.rows[k][n])
<1>1. q.rows \in Seq(Range(q.rows))
  BY QueriesAssumption
<1>2. Len(q.rows) \in Nat /\ DOMAIN q.rows = 1..Len(q.rows)
  BY <1>1
<1>3. QED
  BY <1>2, QueriesAssumption DEF IsGetter

\* The cell of a column is read by the reader for its type.
LEMMA CellsAre ==
  ASSUME NEW q \in Queries, NEW row
  PROVE  /\ Cells(q, row) = [n \in Fields(q.getter) |-> Cells(q, row)[n]]
         /\ \A n \in Fields(q.getter) :
              Cells(q, row)[n] = IF column_found(q, n) THEN get_value(NamedType(q.getter, n), row[n])
                                 ELSE Absent
<1>1. ASSUME NEW n \in Fields(q.getter)
      PROVE  (CHOOSE column \in Info(q.getter) : column.name = n).type = NamedType(q.getter, n)
  <2>1. \E column \in Info(q.getter) : column.name = n
    BY DEF Fields, Looked
  <2> DEFINE d == CHOOSE column \in Info(q.getter) : column.name = n
  <2>2. d \in Info(q.getter) /\ d.name = n
    BY <2>1
  <2> HIDE DEF d
  <2>3. d.type = NamedType(q.getter, n)
    BY <2>2, QueriesAre, ColumnTypes
  <2>4. QED
    BY <2>3 DEF d
<1>2. Cells(q, row) =
        [n \in Fields(q.getter) |->
           IF column_found(q, n)
           THEN get_value((CHOOSE column \in Info(q.getter) : column.name = n).type, row[n])
           ELSE Absent]
  BY DEF Cells, Fields
<1>3. QED
  BY <1>1, <1>2

\* What is read of a row that is not refused.
LEMMA AcceptedAreRead ==
  ASSUME NEW q \in Queries, fetch_column_info(q), NEW k \in DOMAIN q.rows,
         ~Refused(q, q.rows[k])
  PROVE  IsRead(q, Cells(q, q.rows[k]))
<1> DEFINE row == q.rows[k]
           c == Cells(q, row)
<1>1. /\ c = [n \in Fields(q.getter) |-> c[n]]
      /\ \A n \in Fields(q.getter) :
           c[n] = IF column_found(q, n) THEN get_value(NamedType(q.getter, n), row[n]) ELSE Absent
  BY CellsAre
<1> HIDE DEF c
<1>2. \A column \in Looked(q.getter) : column \in Info(q.getter)
  BY DEF Looked
<1>3. \A column \in Looked(q.getter) : column.strict => column_found(q, column.name)
  BY <1>2 DEF fetch_column_info, get_column_info
<1>4. ASSUME NEW n \in Fields(q.getter), column_found(q, n)
      PROVE  IsValue(NamedType(q.getter, n), get_value(NamedType(q.getter, n), row[n]))
  <2>1. PICK column \in Looked(q.getter) : column.name = n
    BY DEF Fields
  <2>2. column.type = NamedType(q.getter, n)
    BY <1>2, <2>1, QueriesAre, ColumnTypes
  <2>3. q.types[n] \in Accepted(column.type)
    BY <1>2, <1>4, <2>1 DEF fetch_column_info
  <2>4. ~Unreadable(column.type, row[n])
    BY <1>4, <2>1 DEF Refused
  <2>5. IsCell(q.types[n], row[n])
    BY <1>4, QueriesAre DEF column_found
  <2>6. QED
    BY <2>2, <2>3, <2>4, <2>5, ReadersRead
<1>5. \A n \in Fields(q.getter) :
        IF column_found(q, n) THEN IsValue(NamedType(q.getter, n), c[n]) ELSE c[n] = Absent
  BY <1>1, <1>4
<1>6. QED
  BY <1>1, <1>3, <1>5 DEF IsRead, c

\* A number that fits is kept by the conversions.
LEMMA ConversionsKeep ==
  ASSUME NEW x \in 0 .. Word - 1, NEW d
  PROVE  UInt32(x) = x /\ Or(x, d) = x
  BY DataRowsAssumption DEF UInt32, Or

\* A word has numbers.
LEMMA WordIs == Word \in Int /\ Word - 1 \in Int /\ 0 .. Word - 1 \subseteq Int
<1>1. Word \in Nat
  BY DataRowsAssumption
<1>2. QED
  BY <1>1

\* What fetch_orders makes of the values.
LEMMA OrderFields ==
  ASSUME NEW c
  PROVE  /\ DOMAIN fetch_orders(c) = DOMAIN c
         /\ \A n \in DOMAIN c :
              fetch_orders(c)[n] =
                CASE n = "amount" -> UInt32(c[n])
                  [] n \in {"p_service", "d_service"} -> Or(c[n], 0)
                  [] OTHER -> c[n]
  BY DEF fetch_orders

\* What fetch_vehicles makes of the values.
LEMMA VehicleFields ==
  ASSUME NEW c, "s_open" \in DOMAIN c, "s_close" \in DOMAIN c
  PROVE  /\ DOMAIN fetch_vehicles(c) = DOMAIN c
         /\ \A n \in DOMAIN c :
              fetch_vehicles(c)[n] =
                CASE n = "capacity" -> UInt32(c[n])
                  [] n = "number" -> UInt32(Or(c[n], 1))
                  [] n = "speed" -> Or(c[n], 1)
                  [] n \in {"s_open", "s_service", "e_service"} -> Or(c[n], 0)
                  [] n = "s_close" -> Or(c[n], LastTime)
                  [] n = "stops" -> Or(c[n], <<>>)
                  [] n = "e_id" -> Or(c[n], c["s_id"])
                  [] n = "e_x" -> Or(c[n], c["s_x"])
                  [] n = "e_y" -> Or(c[n], c["s_y"])
                  [] n = "e_open" -> Or(c[n], Or(c["s_open"], 0))
                  [] n = "e_close" -> Or(c[n], Or(c["s_close"], LastTime))
                  [] OTHER -> c[n]
<1> DEFINE w == WithStart(c)
           v == EndIsStart(w)
<1>1. /\ DOMAIN w = DOMAIN c
      /\ \A n \in DOMAIN c :
           w[n] = CASE n = "capacity" -> UInt32(c[n])
                    [] n = "number" -> UInt32(Or(c[n], 1))
                    [] n = "speed" -> Or(c[n], 1)
                    [] n \in {"s_open", "s_service", "e_service"} -> Or(c[n], 0)
                    [] n = "s_close" -> Or(c[n], LastTime)
                    [] n = "stops" -> Or(c[n], <<>>)
                    [] OTHER -> c[n]
  BY DEF WithStart
<1>2. w["s_id"] = c["s_id"] /\ w["s_x"] = c["s_x"] /\ w["s_y"] = c["s_y"]
  BY DEF WithStart
<1> HIDE DEF w
<1>3. /\ DOMAIN v = DOMAIN c
      /\ \A n \in DOMAIN c :
           v[n] = CASE n = "e_id" -> Or(c[n], c["s_id"])
                    [] n = "e_x" -> Or(c[n], c["s_x"])
                    [] n = "e_y" -> Or(c[n], c["s_y"])
                    [] OTHER -> w[n]
  BY <1>1, <1>2 DEF EndIsStart
<1> HIDE DEF v
<1>4. v["s_open"] = Or(c["s_open"], 0) /\ v["s_close"] = Or(c["s_close"], LastTime)
  BY <1>1, <1>3
<1>5. /\ v["e_open"] = IF "e_open" \in DOMAIN c THEN c["e_open"] ELSE v["e_open"]
      /\ v["e_close"] = IF "e_close" \in DOMAIN c THEN c["e_close"] ELSE v["e_close"]
  BY <1>1, <1>3
<1>6. fetch_vehicles(c) = [v EXCEPT !["e_open"] = Or(@, v["s_open"]), !["e_close"] = Or(@, v["s_close"])]
  BY DEF fetch_vehicles, w, v
<1>7. DOMAIN fetch_vehicles(c) = DOMAIN c
  BY <1>3, <1>6
<1>8. ASSUME NEW n \in DOMAIN c
      PROVE  fetch_vehicles(c)[n] = IF n = "e_open" THEN Or(c[n], Or(c["s_open"], 0))
                                    ELSE IF n = "e_close" THEN Or(c[n], Or(c["s_close"], LastTime))
                                    ELSE v[n]
  BY <1>3, <1>4, <1>5, <1>6
<1>9. QED
  BY <1>1, <1>3, <1>7, <1>8

\* What fetch_vroom_matrix makes of the values.
LEMMA VroomMatrixFields ==
  ASSUME NEW c
  PROVE  /\ DOMAIN fetch_vroom_matrix(c) = DOMAIN c
         /\ \A n \in DOMAIN c :
              fetch_vroom_matrix(c)[n] =
                CASE n = "duration" -> UInt32(c[n])
                  [] n = "cost" -> UInt32(Or(c[n], UInt32(c["duration"])))
                  [] OTHER -> c[n]
  BY DEF fetch_vroom_matrix

\* What fetch_breaks makes of the values.
LEMMA BreakFields ==
  ASSUME NEW c
  PROVE  /\ DOMAIN fetch_breaks(c) = DOMAIN c
         /\ \A n \in DOMAIN c :
              fetch_breaks(c)[n] =
                CASE n = "service" -> UInt32(Or(c[n], 0))
                  [] n = "data" -> Or(c[n], EmptyObject)
                  [] OTHER -> c[n]
  BY DEF fetch_breaks

\* What fetch_timewindows makes of the values.
LEMMA WindowFields ==
  ASSUME NEW c
  PROVE  /\ DOMAIN fetch_timewindows(c) = DOMAIN c
         /\ \A n \in DOMAIN c :
              fetch_timewindows(c)[n] = IF n \in {"tw_open", "tw_close"} THEN UInt32(c[n]) ELSE c[n]
  BY DEF fetch_timewindows

\* What fetch_jobs makes of the values.
LEMMA JobFields ==
  ASSUME NEW c
  PROVE  /\ DOMAIN fetch_jobs(c) = DOMAIN c
         /\ \A n \in DOMAIN c :
              fetch_jobs(c)[n] =
                CASE n \in {"setup", "service"} -> UInt32(Or(c[n], 0))
                  [] n \in {"pickup", "delivery", "skills"} -> Or(c[n], <<>>)
                  [] n = "priority" -> Or(c[n], 0)
                  [] n = "data" -> Or(c[n], EmptyObject)
                  [] OTHER -> c[n]
  BY DEF fetch_jobs

\* What fetch_shipments makes of the values.
LEMMA ShipmentFields ==
  ASSUME NEW c
  PROVE  /\ DOMAIN fetch_shipments(c) = DOMAIN c
         /\ \A n \in DOMAIN c :
              fetch_shipments(c)[n] =
                CASE n \in {"p_setup", "p_service", "d_setup", "d_service"} -> UInt32(Or(c[n], 0))
                  [] n \in {"amount", "skills"} -> Or(c[n], <<>>)
                  [] n = "priority" -> Or(c[n], 0)
                  [] n \in {"p_data", "d_data"} -> Or(c[n], EmptyObject)
                  [] OTHER -> c[n]
  BY DEF fetch_shipments

\* What the fetcher of the vehicles of vroom makes of the values.
LEMMA VroomVehicleFields ==
  ASSUME NEW c
  PROVE  /\ DOMAIN fetch_vroom_vehicles(c) = DOMAIN c
         /\ \A n \in DOMAIN c :
              fetch_vroom_vehicles(c)[n] =
                CASE n \in {"start_id", "end_id"} -> Or(c[n], -1)
                  [] n \in {"capacity", "skills"} -> Or(c[n], <<>>)
                  [] n = "tw_open" -> UInt32(Or(c[n], 0))
                  [] n = "tw_close" -> UInt32(Or(c[n], Word - 1))
                  [] n = "speed_factor" -> Or(c[n], 1)
                  [] n = "max_tasks" -> Or(c[n], Word \div 2 - 1)
                  [] n = "data" -> Or(c[n], EmptyObject)
                  [] OTHER -> c[n]
  BY DEF fetch_vroom_vehicles


(***************************************************************************)
(* The rows that are accepted are fit for the optimizers.                  *)
(***************************************************************************)

\* A column of every name.
LEMMA ColumnsIn ==
  ASSUME NEW type, NEW names, NEW n \in names, NEW strict \in BOOLEAN
  PROVE  /\ [name |-> n, type |-> type, strict |-> TRUE] \in Needed(type, names)
         /\ [name |-> n, type |-> type, strict |-> FALSE] \in Optional(type, names)
         /\ [name |-> n, type |-> type, strict |-> strict] \in NeededIf(strict, type, names)
<1>1. [name |-> n, type |-> type, strict |-> TRUE] \in Needed(type, names)
  BY DEF Needed
<1>2. [name |-> n, type |-> type, strict |-> FALSE] \in Optional(type, names)
  BY DEF Optional
<1>3. CASE strict
  BY <1>1, <1>2, <1>3 DEF NeededIf
<1>4. CASE ~strict
  BY <1>1, <1>2, <1>4 DEF NeededIf
<1>5. QED
  BY <1>3, <1>4

\* A column of the getter that is not ignored is read as a value of its type.
LEMMA ColumnIsRead ==
  ASSUME NEW q \in Queries, NEW c, IsRead(q, c), NEW type, NEW n, NEW strict \in BOOLEAN,
         [name |-> n, type |-> type, strict |-> strict] \in Info(q.getter),
         n \notin Ignored(q.getter)
  PROVE  /\ n \in Fields(q.getter)
         /\ strict => IsValue(type, c[n])
         /\ IsValue(type, c[n]) \/ c[n] = Absent
<1> DEFINE column == [name |-> n, type |-> type, strict |-> strict]
<1>1. /\ column \in Looked(q.getter) /\ column \in Info(q.getter)
      /\ column.name = n /\ column.strict = strict /\ column.type = type
  BY DEF Looked
<1> HIDE DEF column
<1>2. n \in Fields(q.getter)
  BY <1>1 DEF Fields
<1>3. strict => column_found(q, n)
  BY <1>1 DEF IsRead
<1>4. type = NamedType(q.getter, n)
  BY <1>1, QueriesAre, ColumnTypes
<1>5. QED
  BY <1>2, <1>3, <1>4 DEF IsRead

\* The values of the types.
LEMMA ValuesAre ==
  ASSUME NEW x
  PROVE  /\ IsValue("ANY_UINT", x) => x \in Nat
         /\ IsValue("POSITIVE_INTEGER", x) => x \in Nat
         /\ IsValue("INTEGER", x) => x \in Int
         /\ IsValue("ANY_NUMERICAL", x) => x \in Int
         /\ IsValue("ANY_POSITIVE_ARRAY", x) => x \in Seq(Nat)
         /\ \A stamps \in BOOLEAN : IsValue(Lapse(stamps), x) => x \in Nat
         /\ \A stamps \in BOOLEAN : IsValue(Moment(stamps), x) => x \in Int
<1>1. /\ IsValue("ANY_UINT", x) => x \in Nat
      /\ IsValue("POSITIVE_INTEGER", x) => x \in Nat
      /\ IsValue("INTERVAL", x) => x \in Nat
      /\ IsValue("ANY_POSITIVE_INTEGER", x) => x \in Nat
  BY DEF IsValue, NatTypes
<1>2. /\ IsValue("INTEGER", x) => x \in Int
      /\ IsValue("ANY_NUMERICAL", x) => x \in Int
      /\ IsValue("ANY_INTEGER", x) => x \in Int
      /\ IsValue("TIMESTAMP", x) => x \in Int
  BY DEF IsValue, IntTypes
<1>3. IsValue("ANY_POSITIVE_ARRAY", x) => x \in Seq(Nat)
  BY DEF IsValue, ArrayTypes
<1>4. QED
  BY <1>1, <1>2, <1>3 DEF Lapse, Moment

\* A row of a getter that the rest of the program can use.
Fits(g, t) ==
  /\ DOMAIN t = Fields(g)
  /\ \A n \in UInt32Columns(g) : t[n] \in 0 .. Word - 1
  /\ Usable(g, t)

\* The rows of orders fit.
LEMMA OrdersFit ==
  ASSUME NEW q \in Queries, NEW c, IsRead(q, c), q.getter.name = "orders",
         ~RefusesOrder(fetch_orders(c))
  PROVE  Fits(q.getter, fetch_orders(c))
<1> DEFINE g == q.getter
           t == fetch_orders(c)
           L == Lapse(g.use_timestamps)
           M == Moment(g.use_timestamps)
<1>1. IsGetter(g)
  BY QueriesAre
<1>2. /\ [name |-> "amount", type |-> "ANY_UINT", strict |-> TRUE] \in Info(g)
      /\ \A n \in {"p_open", "p_close", "d_open", "d_close"} :
           [name |-> n, type |-> M, strict |-> TRUE] \in Info(g)
      /\ \A n \in {"p_service", "d_service"} : [name |-> n, type |-> L, strict |-> FALSE] \in Info(g)
  <2>1. /\ Needed("ANY_UINT", {"amount"}) \subseteq Info(g)
        /\ Needed(M, {"p_open", "p_close", "d_open", "d_close"}) \subseteq Info(g)
        /\ Optional(L, {"p_service", "d_service"}) \subseteq Info(g)
    BY DEF Info, get_orders
  <2>2. QED
    BY <2>1, ColumnsIn
<1>3. \A n \in {"amount", "p_open", "p_close", "d_open", "d_close", "p_service", "d_service"} :
        n \notin Ignored(g)
  BY DEF Ignored
<1>4. "amount" \in Fields(g) /\ c["amount"] \in Nat
  BY <1>1, <1>2, <1>3, ColumnIsRead, ValuesAre DEF IsGetter
<1>5. \A n \in {"p_open", "p_close", "d_open", "d_close"} : n \in Fields(g) /\ c[n] \in Int
  <2> TAKE n \in {"p_open", "p_close", "d_open", "d_close"}
  <2>1. n \in Fields(g) /\ IsValue(M, c[n])
    BY <1>2, <1>3, ColumnIsRead, ZenonT(60)
  <2>2. QED
    BY <1>1, <2>1, ValuesAre DEF IsGetter
<1>6. \A n \in {"p_service", "d_service"} : n \in Fields(g) /\ (c[n] \in Nat \/ c[n] = Absent)
  BY <1>1, <1>2, <1>3, ColumnIsRead, ValuesAre, ZenonT(60) DEF IsGetter
<1>7. DOMAIN c = Fields(g)
  BY DEF IsRead
<1>8. UInt32(c["amount"]) \in 0 .. Word - 1
  BY <1>4, DataRowsAssumption DEF UInt32
<1>9. \A n \in {"p_service", "d_service"} : Or(c[n], 0) \in Nat
  BY <1>6 DEF Or
<1>10. /\ DOMAIN t = Fields(g) /\ t["amount"] = UInt32(c["amount"])
       /\ \A n \in {"p_service", "d_service"} : t[n] = Or(c[n], 0)
       /\ \A n \in {"p_open", "p_close", "d_open", "d_close"} : t[n] = c[n]
  BY <1>4, <1>5, <1>6, <1>7, OrderFields
<1> HIDE DEF t
<1>11. t.amount # 0 /\ ~(t.p_close < t.p_open) /\ ~(t.d_close < t.d_open)
  BY DEF RefusesOrder, t
<1>12. Usable(g, t)
  BY <1>5, <1>8, <1>9, <1>10, <1>11 DEF Usable
<1>13. QED
  BY <1>8, <1>10, <1>12 DEF Fits, UInt32Columns, t

\* The rows of vehicles fit.
LEMMA VehiclesFit ==
  ASSUME NEW q \in Queries, NEW c, IsRead(q, c), q.getter.name = "vehicles"
  PROVE  Fits(q.getter, fetch_vehicles(c))
<1> DEFINE g == q.getter
           t == fetch_vehicles(c)
           L == Lapse(g.use_timestamps)
           M == Moment(g.use_timestamps)
<1>1. IsGetter(g)
  BY QueriesAre
<1>2. /\ [name |-> "capacity", type |-> "ANY_UINT", strict |-> TRUE] \in Info(g)
      /\ [name |-> "number", type |-> "ANY_UINT", strict |-> FALSE] \in Info(g)
      /\ \A n \in {"s_open", "s_close"} : [name |-> n, type |-> M, strict |-> FALSE] \in Info(g)
      /\ \A n \in {"s_service", "e_service"} : [name |-> n, type |-> L, strict |-> FALSE] \in Info(g)
      /\ [name |-> "stops", type |-> "ANY_POSITIVE_ARRAY", strict |-> g.with_stops] \in Info(g)
  <2>1. /\ Needed("ANY_UINT", {"capacity"}) \subseteq Info(g)
        /\ Optional("ANY_UINT", {"number"}) \subseteq Info(g)
        /\ Optional(M, {"s_open", "s_close", "e_open", "e_close"}) \subseteq Info(g)
        /\ Optional(L, {"s_service", "e_service"}) \subseteq Info(g)
        /\ NeededIf(g.with_stops, "ANY_POSITIVE_ARRAY", {"stops"}) \subseteq Info(g)
    BY DEF Info, get_vehicles
  <2>2. QED
    BY <1>1, <2>1, ColumnsIn DEF IsGetter
<1>3. \A n \in {"capacity", "number", "s_open", "s_close", "s_service", "e_service", "stops"} :
        n \notin Ignored(g)
  BY DEF Ignored
<1>4. "capacity" \in Fields(g) /\ c["capacity"] \in Nat
  BY <1>1, <1>2, <1>3, ColumnIsRead, ValuesAre DEF IsGetter
<1>5. "number" \in Fields(g) /\ (c["number"] \in Nat \/ c["number"] = Absent)
  BY <1>1, <1>2, <1>3, ColumnIsRead, ValuesAre DEF IsGetter
<1>6. "s_open" \in Fields(g) /\ "s_close" \in Fields(g)
  BY <1>1, <1>2, <1>3, ColumnIsRead
<1>7. \A n \in {"s_service", "e_service"} : n \in Fields(g) /\ (c[n] \in Nat \/ c[n] = Absent)
  BY <1>1, <1>2, <1>3, ColumnIsRead, ValuesAre, ZenonT(60) DEF IsGetter
<1>8. "stops" \in Fields(g) /\ (c["stops"] \in Seq(Nat) \/ c["stops"] = Absent)
  BY <1>1, <1>2, <1>3, ColumnIsRead, ValuesAre DEF IsGetter
<1>9. DOMAIN c = Fields(g)
  BY DEF IsRead
<1>10. UInt32(c["capacity"]) \in 0 .. Word - 1 /\ UInt32(Or(c["number"], 1)) \in 0 .. Word - 1
  BY <1>4, <1>5, DataRowsAssumption DEF UInt32, Or
<1>11. (\A n \in {"s_service", "e_service"} : Or(c[n], 0) \in Nat) /\ Or(c["stops"], <<>>) \in Seq(Nat)
  BY <1>7, <1>8 DEF Or
<1>12. /\ DOMAIN t = Fields(g) /\ t["capacity"] = UInt32(c["capacity"])
       /\ t["number"] = UInt32(Or(c["number"], 1)) /\ t["stops"] = Or(c["stops"], <<>>)
       /\ \A n \in {"s_service", "e_service"} : t[n] = Or(c[n], 0)
  BY <1>4, <1>5, <1>6, <1>7, <1>8, <1>9, VehicleFields
<1> HIDE DEF t
<1>13. \A k \in DOMAIN t.stops : t.stops[k] >= 0
  BY <1>11, <1>12
<1>14. Usable(g, t)
  BY <1>10, <1>11, <1>12, <1>13 DEF Usable
<1>15. QED
  BY <1>10, <1>12, <1>14 DEF Fits, UInt32Columns, t


\* The rows of a matrix fit.
LEMMA MatrixFits ==
  ASSUME NEW q \in Queries, NEW c, IsRead(q, c), q.getter.name = "matrix"
  PROVE  Fits(q.getter, c)
<1> DEFINE g == q.getter
           L == Lapse(g.use_timestamps)
<1>1. IsGetter(g)
  BY QueriesAre
<1>2. [name |-> "agg_cost", type |-> L, strict |-> TRUE] \in Info(g)
  <2>1. Needed(L, {"agg_cost"}) \subseteq Info(g)
    BY DEF Info, get_matrix
  <2>2. QED
    BY <2>1, ColumnsIn
<1>3. "agg_cost" \notin Ignored(g)
  BY DEF Ignored
<1>4. IsValue(L, c["agg_cost"])
  BY <1>2, <1>3, ColumnIsRead
<1>5. c["agg_cost"] \in Nat
  BY <1>1, <1>4, ValuesAre DEF IsGetter
<1>6. DOMAIN c = Fields(g)
  BY DEF IsRead
<1>7. Usable(g, c)
  BY <1>5 DEF Usable
<1>8. QED
  BY <1>6, <1>7 DEF Fits, UInt32Columns

\* The rows of the multipliers fit.
LEMMA MultipliersFit ==
  ASSUME NEW q \in Queries, NEW c, IsRead(q, c), q.getter.name = "multipliers"
  PROVE  Fits(q.getter, c)
<1>1. DOMAIN c = Fields(q.getter)
  BY DEF IsRead
<1>2. QED
  BY <1>1 DEF Fits, UInt32Columns, Usable

\* The rows of the matrix of vroom fit.
LEMMA VroomMatrixFits ==
  ASSUME NEW q \in Queries, NEW c, IsRead(q, c), q.getter.name = "vroom_matrix"
  PROVE  Fits(q.getter, fetch_vroom_matrix(c))
<1> DEFINE g == q.getter
           t == fetch_vroom_matrix(c)
           L == Lapse(g.use_timestamps)
<1>1. IsGetter(g)
  BY QueriesAre
<1>2. /\ [name |-> "duration", type |-> L, strict |-> TRUE] \in Info(g)
      /\ [name |-> "cost", type |-> "INTEGER", strict |-> FALSE] \in Info(g)
  <2>1. /\ Needed(L, {"duration"}) \subseteq Info(g)
        /\ Optional("INTEGER", {"cost"}) \subseteq Info(g)
    BY DEF Info, vroom_get_matrix
  <2>2. QED
    BY <2>1, ColumnsIn
<1>3. "duration" \notin Ignored(g) /\ "cost" \notin Ignored(g)
  BY DEF Ignored
<1>4. "duration" \in Fields(g) /\ c["duration"] \in Nat
  BY <1>1, <1>2, <1>3, ColumnIsRead, ValuesAre DEF IsGetter
<1>5. "cost" \in Fields(g) /\ (c["cost"] \in Int \/ c["cost"] = Absent)
  BY <1>1, <1>2, <1>3, ColumnIsRead, ValuesAre DEF IsGetter
<1>6. DOMAIN c = Fields(g)
  BY DEF IsRead
<1>7. UInt32(c["duration"]) \in 0 .. Word - 1
  BY <1>4, DataRowsAssumption DEF UInt32
<1>8. UInt32(Or(c["cost"], UInt32(c["duration"]))) \in 0 .. Word - 1
  <2> DEFINE d == UInt32(c["duration"])
  <2>1. d \in Int
    BY <1>7, WordIs
  <2> HIDE DEF d
  <2>2. Or(c["cost"], d) \in Int
    BY <1>5, <2>1 DEF Or
  <2>3. UInt32(Or(c["cost"], d)) \in 0 .. Word - 1
    BY <2>2, DataRowsAssumption DEF UInt32
  <2>4. QED
    BY <2>3 DEF d
<1>9. /\ DOMAIN t = Fields(g) /\ t["duration"] = UInt32(c["duration"])
      /\ t["cost"] = UInt32(Or(c["cost"], UInt32(c["duration"])))
  BY <1>4, <1>5, <1>6, VroomMatrixFields
<1> HIDE DEF t
<1>10. QED
  BY <1>7, <1>8, <1>9 DEF Fits, UInt32Columns, Usable, t

\* The rows of breaks fit.
LEMMA BreaksFit ==
  ASSUME NEW q \in Queries, NEW c, IsRead(q, c), q.getter.name = "breaks"
  PROVE  Fits(q.getter, fetch_breaks(c))
<1> DEFINE g == q.getter
           t == fetch_breaks(c)
           L == Lapse(g.use_timestamps)
<1>1. IsGetter(g)
  BY QueriesAre
<1>2. [name |-> "service", type |-> L, strict |-> FALSE] \in Info(g)
  <2>1. Optional(L, {"service"}) \subseteq Info(g)
    BY DEF Info, vroom_get_breaks
  <2>2. QED
    BY <2>1, ColumnsIn
<1>3. "service" \notin Ignored(g)
  BY DEF Ignored
<1>4. "service" \in Fields(g) /\ (c["service"] \in Nat \/ c["service"] = Absent)
  BY <1>1, <1>2, <1>3, ColumnIsRead, ValuesAre DEF IsGetter
<1>5. DOMAIN c = Fields(g)
  BY DEF IsRead
<1>6. UInt32(Or(c["service"], 0)) \in 0 .. Word - 1
  BY <1>4, DataRowsAssumption DEF UInt32, Or
<1>7. DOMAIN t = Fields(g) /\ t["service"] = UInt32(Or(c["service"], 0))
  BY <1>4, <1>5, BreakFields
<1> HIDE DEF t
<1>8. QED
  BY <1>6, <1>7 DEF Fits, UInt32Columns, Usable, t

\* The rows of time windows fit.
LEMMA WindowsFit ==
  ASSUME NEW q \in Queries, NEW c, IsRead(q, c), q.getter.name = "timewindows",
         ~RefusesWindow(q.getter, fetch_timewindows(c))
  PROVE  Fits(q.getter, fetch_timewindows(c))
<1> DEFINE g == q.getter
           t == fetch_timewindows(c)
           M == Moment(g.use_timestamps)
<1>1. IsGetter(g)
  BY QueriesAre
<1>2. \A n \in {"tw_open", "tw_close"} : [name |-> n, type |-> M, strict |-> TRUE] \in Info(g)
  <2>1. Needed(M, {"tw_open", "tw_close"}) \subseteq Info(g)
    BY DEF Info, vroom_get_timewindows
  <2>2. QED
    BY <2>1, ColumnsIn
<1>3. \A n \in {"tw_open", "tw_close"} : n \notin Ignored(g)
  BY DEF Ignored
<1>4. \A n \in {"tw_open", "tw_close"} : n \in Fields(g) /\ c[n] \in Int
  <2> TAKE n \in {"tw_open", "tw_close"}
  <2>1. n \in Fields(g) /\ IsValue(M, c[n])
    BY <1>2, <1>3, ColumnIsRead
  <2>2. QED
    BY <1>1, <2>1, ValuesAre DEF IsGetter
<1>5. DOMAIN c = Fields(g)
  BY DEF IsRead
<1>6. \A n \in {"tw_open", "tw_close"} : UInt32(c[n]) \in 0 .. Word - 1
  BY <1>4, DataRowsAssumption DEF UInt32
<1>7. DOMAIN t = Fields(g) /\ \A n \in {"tw_open", "tw_close"} : t[n] = UInt32(c[n])
  BY <1>4, <1>5, WindowFields
<1> HIDE DEF t
<1>8. (g.flag => t.kind \in {"p", "d"}) /\ ~(t.tw_open > t.tw_close)
  BY DEF RefusesWindow, t
<1>9. Usable(g, t)
  BY <1>6, <1>7, <1>8 DEF Usable
<1>10. QED
  BY <1>6, <1>7, <1>9 DEF Fits, UInt32Columns, t

\* The rows of jobs fit.
LEMMA JobsFit ==
  ASSUME NEW q \in Queries, NEW c, IsRead(q, c), q.getter.name = "jobs",
         ~(fetch_jobs(c).priority > 100)
  PROVE  Fits(q.getter, fetch_jobs(c))
<1> DEFINE g == q.getter
           t == fetch_jobs(c)
           L == Lapse(g.use_timestamps)
<1>1. IsGetter(g)
  BY QueriesAre
<1>2. /\ \A n \in {"setup", "service"} : [name |-> n, type |-> L, strict |-> FALSE] \in Info(g)
      /\ [name |-> "priority", type |-> "POSITIVE_INTEGER", strict |-> FALSE] \in Info(g)
  <2>1. /\ Optional(L, {"setup", "service"}) \subseteq Info(g)
        /\ Optional("POSITIVE_INTEGER", {"priority"}) \subseteq Info(g)
    BY DEF Info, vroom_get_jobs
  <2>2. QED
    BY <2>1, ColumnsIn
<1>3. \A n \in {"setup", "service", "priority"} : n \notin Ignored(g)
  BY DEF Ignored
<1>4. \A n \in {"setup", "service"} : n \in Fields(g) /\ (c[n] \in Nat \/ c[n] = Absent)
  <2> TAKE n \in {"setup", "service"}
  <2>1. n \in Fields(g) /\ (IsValue(L, c[n]) \/ c[n] = Absent)
    BY <1>2, <1>3, ColumnIsRead
  <2>2. QED
    BY <1>1, <2>1, ValuesAre DEF IsGetter
<1>5. "priority" \in Fields(g) /\ (c["priority"] \in Nat \/ c["priority"] = Absent)
  BY <1>1, <1>2, <1>3, ColumnIsRead, ValuesAre
<1>6. DOMAIN c = Fields(g)
  BY DEF IsRead
<1>7. \A n \in {"setup", "service"} : UInt32(Or(c[n], 0)) \in 0 .. Word - 1
  BY <1>4, DataRowsAssumption DEF UInt32, Or
<1>8. Or(c["priority"], 0) \in Nat
  BY <1>5 DEF Or
<1>9. /\ DOMAIN t = Fields(g) /\ t["priority"] = Or(c["priority"], 0)
      /\ \A n \in {"setup", "service"} : t[n] = UInt32(Or(c[n], 0))
  BY <1>4, <1>5, <1>6, JobFields
<1> HIDE DEF t
<1>10. ~(t.priority > 100)
  BY DEF t
<1>11. Usable(g, t)
  BY <1>8, <1>9, <1>10 DEF Usable
<1>12. QED
  BY <1>7, <1>9, <1>11 DEF Fits, UInt32Columns, t

\* The rows of shipments fit.
LEMMA ShipmentsFit ==
  ASSUME NEW q \in Queries, NEW c, IsRead(q, c), q.getter.name = "shipments",
         ~(fetch_shipments(c).priority > 100)
  PROVE  Fits(q.getter, fetch_shipments(c))
<1> DEFINE g == q.getter
           t == fetch_shipments(c)
           L == Lapse(g.use_timestamps)
           Lapses == {"p_setup", "p_service", "d_setup", "d_service"}
<1>1. IsGetter(g)
  BY QueriesAre
<1>2. /\ \A n \in Lapses : [name |-> n, type |-> L, strict |-> FALSE] \in Info(g)
      /\ [name |-> "priority", type |-> "POSITIVE_INTEGER", strict |-> FALSE] \in Info(g)
  <2>1. /\ Optional(L, Lapses) \subseteq Info(g)
        /\ Optional("POSITIVE_INTEGER", {"priority"}) \subseteq Info(g)
    BY DEF Info, vroom_get_shipments
  <2> HIDE DEF Lapses
  <2>2. QED
    BY <2>1, ColumnsIn
<1>3. \A n \in Lapses \cup {"priority"} : n \notin Ignored(g)
  BY DEF Ignored
<1>4. \A n \in Lapses : n \in Fields(g) /\ (c[n] \in Nat \/ c[n] = Absent)
  <2> HIDE DEF Lapses
  <2> TAKE n \in Lapses
  <2>1. n \in Fields(g) /\ (IsValue(L, c[n]) \/ c[n] = Absent)
    BY <1>2, <1>3, ColumnIsRead
  <2>2. QED
    BY <1>1, <2>1, ValuesAre DEF IsGetter
<1>5. "priority" \in Fields(g) /\ (c["priority"] \in Nat \/ c["priority"] = Absent)
  BY <1>1, <1>2, <1>3, ColumnIsRead, ValuesAre
<1>6. DOMAIN c = Fields(g)
  BY DEF IsRead
<1>7. \A n \in Lapses : UInt32(Or(c[n], 0)) \in 0 .. Word - 1
  BY <1>4, DataRowsAssumption DEF UInt32, Or
<1>8. Or(c["priority"], 0) \in Nat
  BY <1>5 DEF Or
<1>9. /\ DOMAIN t = Fields(g) /\ t["priority"] = Or(c["priority"], 0)
      /\ \A n \in Lapses : t[n] = UInt32(Or(c[n], 0))
  BY <1>4, <1>5, <1>6, ShipmentFields
<1> HIDE DEF t
<1>10. ~(t.priority > 100)
  BY DEF t
<1>11. Usable(g, t)
  BY <1>8, <1>9, <1>10 DEF Usable
<1>12. QED
  BY <1>7, <1>9, <1>11 DEF Fits, UInt32Columns, t

\* The rows of the vehicles of vroom fit.
LEMMA VroomVehiclesFit ==
  ASSUME NEW q \in Queries, NEW c, IsRead(q, c), q.getter.name = "vroom_vehicles",
         ~RefusesVehicle(q, fetch_vroom_vehicles(c))
  PROVE  Fits(q.getter, fetch_vroom_vehicles(c))
<1> DEFINE g == q.getter
           t == fetch_vroom_vehicles(c)
           M == Moment(g.use_timestamps)
<1>1. IsGetter(g)
  BY QueriesAre
<1>2. /\ \A n \in {"tw_open", "tw_close"} : [name |-> n, type |-> M, strict |-> FALSE] \in Info(g)
      /\ [name |-> "capacity", type |-> "ANY_POSITIVE_ARRAY", strict |-> FALSE] \in Info(g)
      /\ [name |-> "speed_factor", type |-> "ANY_NUMERICAL", strict |-> FALSE] \in Info(g)
  <2>1. /\ Optional(M, {"tw_open", "tw_close"}) \subseteq Info(g)
        /\ Optional("ANY_POSITIVE_ARRAY", {"capacity"}) \subseteq Info(g)
        /\ Optional("ANY_NUMERICAL", {"speed_factor"}) \subseteq Info(g)
    BY DEF Info, vroom_get_vehicles
  <2>2. QED
    BY <2>1, ColumnsIn
<1>3. \A n \in {"tw_open", "tw_close", "capacity", "speed_factor"} : n \notin Ignored(g)
  BY DEF Ignored
<1>4. \A n \in {"tw_open", "tw_close"} : n \in Fields(g) /\ (c[n] \in Int \/ c[n] = Absent)
  <2> TAKE n \in {"tw_open", "tw_close"}
  <2>1. n \in Fields(g) /\ (IsValue(M, c[n]) \/ c[n] = Absent)
    BY <1>2, <1>3, ColumnIsRead
  <2>2. QED
    BY <1>1, <2>1, ValuesAre DEF IsGetter
<1>5. "capacity" \in Fields(g) /\ (c["capacity"] \in Seq(Nat) \/ c["capacity"] = Absent)
  BY <1>1, <1>2, <1>3, ColumnIsRead, ValuesAre
<1>6. "speed_factor" \in Fields(g) /\ (c["speed_factor"] \in Int \/ c["speed_factor"] = Absent)
  BY <1>1, <1>2, <1>3, ColumnIsRead, ValuesAre
<1>7. DOMAIN c = Fields(g)
  BY DEF IsRead
<1>8. Word - 1 \in Int
  BY WordIs
<1>9. /\ UInt32(Or(c["tw_open"], 0)) \in 0 .. Word - 1
      /\ UInt32(Or(c["tw_close"], Word - 1)) \in 0 .. Word - 1
  <2>1. Or(c["tw_open"], 0) \in Int /\ Or(c["tw_close"], Word - 1) \in Int
    BY <1>4, <1>8 DEF Or
  <2>2. QED
    BY <2>1, DataRowsAssumption DEF UInt32
<1>10. Or(c["capacity"], <<>>) \in Seq(Nat) /\ Or(c["speed_factor"], 1) \in Int
  <2>1. Or(c["capacity"], <<>>) \in Seq(Nat)
    BY <1>5 DEF Or
  <2>2. Or(c["speed_factor"], 1) \in Int
    BY <1>6 DEF Or
  <2>3. QED
    BY <2>1, <2>2
<1>11. /\ DOMAIN t = Fields(g)
       /\ t["tw_open"] = UInt32(Or(c["tw_open"], 0))
       /\ t["tw_close"] = UInt32(Or(c["tw_close"], Word - 1))
       /\ t["capacity"] = Or(c["capacity"], <<>>)
       /\ t["speed_factor"] = Or(c["speed_factor"], 1)
  BY <1>4, <1>5, <1>6, <1>7, VroomVehicleFields
<1> HIDE DEF t
<1>12. ~(t.tw_open > t.tw_close) /\ ~(t.speed_factor <= 0)
  BY DEF RefusesVehicle, t
<1>13. \A k \in DOMAIN t.capacity : t.capacity[k] >= 0
  <2>1. t.capacity \in Seq(Nat)
    BY <1>10, <1>11
  <2>2. QED
    BY <2>1
<1>14. t.tw_open \in Int /\ t.tw_close \in Int /\ t.speed_factor \in Int
  BY <1>9, <1>10, <1>11, WordIs
<1>15. t.tw_open <= t.tw_close /\ t.speed_factor > 0
  BY <1>12, <1>14
<1>16. Usable(g, t)
  BY <1>13, <1>15 DEF Usable
<1>17. QED
  BY <1>9, <1>11, <1>16 DEF Fits, UInt32Columns, t

\* A row that is accepted fits, whatever the getter.
LEMMA AcceptedFit ==
  ASSUME NEW q \in Queries, fetch_column_info(q), NEW k \in DOMAIN q.rows,
         ~Refused(q, q.rows[k])
  PROVE  Fits(q.getter, Fetched(q, q.rows[k]))
<1> DEFINE g == q.getter
           c == Cells(q, q.rows[k])
           t == Fetched(q, q.rows[k])
<1>1. IsRead(q, c)
  BY AcceptedAreRead
<1> HIDE DEF c, t
<1>2. CASE g.name = "matrix"
  BY <1>1, <1>2, MatrixFits DEF Fetched, c, t
<1>3. CASE g.name = "multipliers"
  BY <1>1, <1>3, MultipliersFit DEF Fetched, c, t
<1>4. CASE g.name = "orders"
  <2>1. t = fetch_orders(c) /\ ~RefusesOrder(t)
    BY <1>4 DEF Fetched, Refused, c, t
  <2>2. QED
    BY <1>1, <1>4, <2>1, OrdersFit DEF t
<1>5. CASE g.name = "vehicles"
  BY <1>1, <1>5, VehiclesFit DEF Fetched, c, t
<1>6. CASE g.name = "vroom_matrix"
  BY <1>1, <1>6, VroomMatrixFits DEF Fetched, c, t
<1>7. CASE g.name = "breaks"
  BY <1>1, <1>7, BreaksFit DEF Fetched, c, t
<1>8. CASE g.name = "timewindows"
  <2>1. t = fetch_timewindows(c) /\ ~RefusesWindow(g, t)
    BY <1>8 DEF Fetched, Refused, c, t
  <2>2. QED
    BY <1>1, <1>8, <2>1, WindowsFit DEF t
<1>9. CASE g.name = "jobs"
  <2>1. t = fetch_jobs(c) /\ ~(t.priority > 100)
    BY <1>9 DEF Fetched, Refused, c, t
  <2>2. QED
    BY <1>1, <1>9, <2>1, JobsFit DEF t
<1>10. CASE g.name = "shipments"
  <2>1. t = fetch_shipments(c) /\ ~(t.priority > 100)
    BY <1>10 DEF Fetched, Refused, c, t
  <2>2. QED
    BY <1>1, <1>10, <2>1, ShipmentsFit DEF t
<1>11. CASE g.name = "vroom_vehicles"
  <2>1. t = fetch_vroom_vehicles(c) /\ ~RefusesVehicle(q, t)
    BY <1>11 DEF Fetched, Refused, c, t
  <2>2. QED
    BY <1>1, <1>11, <2>1, VroomVehiclesFit DEF t
<1>12. g.name \in Getters
  BY QueriesAre DEF IsGetter
<1>13. QED
  BY <1>2, <1>3, <1>4, <1>5, <1>6, <1>7, <1>8, <1>9, <1>10, <1>11, <1>12 DEF Getters


(***************************************************************************)
(* What a cell becomes.                                                    *)
(***************************************************************************)

\* The window of the start of a vehicle is read.
LEMMA WindowIsRead ==
  ASSUME NEW q \in Queries, NEW c, IsRead(q, c), q.getter.name = "vehicles"
  PROVE  "s_open" \in Fields(q.getter) /\ "s_close" \in Fields(q.getter)
<1> DEFINE g == q.getter
           M == Moment(g.use_timestamps)
<1>1. \A n \in {"s_open", "s_close"} : [name |-> n, type |-> M, strict |-> FALSE] \in Info(g)
  <2>1. Optional(M, {"s_open", "s_close", "e_open", "e_close"}) \subseteq Info(g)
    BY DEF Info, get_vehicles
  <2>2. QED
    BY <2>1, ColumnsIn
<1>2. \A n \in {"s_open", "s_close"} : n \notin Ignored(g)
  BY DEF Ignored
<1>3. QED
  BY <1>1, <1>2, ColumnIsRead

\* The place of the start of a vehicle is read when the one of the end is.
LEMMA StartIsRead ==
  ASSUME NEW q \in Queries, NEW c, IsRead(q, c), q.getter.name = "vehicles"
  PROVE  /\ "e_id" \in Fields(q.getter) => "s_id" \in Fields(q.getter)
         /\ "e_x" \in Fields(q.getter) => "s_x" \in Fields(q.getter)
         /\ "e_y" \in Fields(q.getter) => "s_y" \in Fields(q.getter)
<1> DEFINE g == q.getter
<1>1. g.flag \in BOOLEAN
  BY QueriesAre DEF IsGetter
<1>2. /\ [name |-> "s_id", type |-> "ANY_INTEGER", strict |-> ~g.flag] \in Info(g)
      /\ [name |-> "s_x", type |-> "ANY_NUMERICAL", strict |-> g.flag] \in Info(g)
      /\ [name |-> "s_y", type |-> "ANY_NUMERICAL", strict |-> g.flag] \in Info(g)
  <2>1. /\ NeededIf(~g.flag, "ANY_INTEGER", {"s_id"}) \subseteq Info(g)
        /\ NeededIf(g.flag, "ANY_NUMERICAL", {"s_x", "s_y"}) \subseteq Info(g)
    BY DEF Info, get_vehicles
  <2>2. (~g.flag) \in BOOLEAN
    BY <1>1
  <2>3. /\ [name |-> "s_id", type |-> "ANY_INTEGER", strict |-> ~g.flag]
             \in NeededIf(~g.flag, "ANY_INTEGER", {"s_id"})
        /\ [name |-> "s_x", type |-> "ANY_NUMERICAL", strict |-> g.flag]
             \in NeededIf(g.flag, "ANY_NUMERICAL", {"s_x", "s_y"})
        /\ [name |-> "s_y", type |-> "ANY_NUMERICAL", strict |-> g.flag]
             \in NeededIf(g.flag, "ANY_NUMERICAL", {"s_x", "s_y"})
    BY <1>1, <2>2, ColumnsIn
  <2>4. QED
    BY <2>1, <2>3
<1>3. \A n \in Fields(g) : n \notin Ignored(g)
  BY DEF Fields, Looked
<1>4. CASE g.flag
  <2>1. Ignored(g) = {"s_id", "e_id"}
    BY <1>4 DEF Ignored
  <2>2. "s_x" \in Fields(g) /\ "s_y" \in Fields(g)
    BY <1>1, <1>2, <2>1, ColumnIsRead
  <2>3. QED
    BY <1>3, <2>1, <2>2
<1>5. CASE ~g.flag
  <2>1. Ignored(g) = {"s_x", "s_y", "e_x", "e_y"}
    BY <1>5 DEF Ignored
  <2>2. "s_id" \in Fields(g)
    BY <1>1, <1>2, <2>1, ColumnIsRead
  <2>3. QED
    BY <1>3, <2>1, <2>2
<1>6. QED
  BY <1>1, <1>4, <1>5

\* The fetchers keep a number that fits.
LEMMA FetchersKeep ==
  ASSUME NEW q \in Queries, fetch_column_info(q), NEW k \in DOMAIN q.rows,
         ~Refused(q, q.rows[k]), NEW n \in Fields(q.getter),
         Cells(q, q.rows[k])[n] \in 0 .. Word - 1
  PROVE  Fetched(q, q.rows[k])[n] = Cells(q, q.rows[k])[n]
<1> DEFINE g == q.getter
           c == Cells(q, q.rows[k])
           t == Fetched(q, q.rows[k])
<1>1. IsRead(q, c)
  BY AcceptedAreRead
<1> HIDE DEF c, t
<1>2. DOMAIN c = Fields(g)
  BY <1>1 DEF IsRead
<1>3. UInt32(c[n]) = c[n] /\ \A d : Or(c[n], d) = c[n]
  BY ConversionsKeep DEF c
<1>4. CASE g.name \in {"matrix", "multipliers"}
  BY <1>4 DEF Fetched, c, t
<1>5. CASE g.name = "orders"
  <2>1. t = fetch_orders(c)
    BY <1>5 DEF Fetched, c, t
  <2>2. t[n] = c[n]
    BY <1>2, <1>3, <2>1, OrderFields
  <2>3. QED
    BY <2>2 DEF c, t
<1>6. CASE g.name = "vehicles"
  <2>1. t = fetch_vehicles(c)
    BY <1>6 DEF Fetched, c, t
  <2>2. "s_open" \in Fields(g) /\ "s_close" \in Fields(g)
    BY <1>1, <1>6, WindowIsRead
  <2>3. t[n] = c[n]
    BY <1>2, <1>3, <2>1, <2>2, VehicleFields
  <2>4. QED
    BY <2>3 DEF c, t
<1>7. CASE g.name = "vroom_matrix"
  <2>1. t = fetch_vroom_matrix(c)
    BY <1>7 DEF Fetched, c, t
  <2>2. t[n] = c[n]
    BY <1>2, <1>3, <2>1, VroomMatrixFields
  <2>3. QED
    BY <2>2 DEF c, t
<1>8. CASE g.name = "breaks"
  <2>1. t = fetch_breaks(c)
    BY <1>8 DEF Fetched, c, t
  <2>2. t[n] = c[n]
    BY <1>2, <1>3, <2>1, BreakFields
  <2>3. QED
    BY <2>2 DEF c, t
<1>9. CASE g.name = "timewindows"
  <2>1. t = fetch_timewindows(c)
    BY <1>9 DEF Fetched, c, t
  <2>2. t[n] = c[n]
    BY <1>2, <1>3, <2>1, WindowFields
  <2>3. QED
    BY <2>2 DEF c, t
<1>10. CASE g.name = "jobs"
  <2>1. t = fetch_jobs(c)
    BY <1>10 DEF Fetched, c, t
  <2> HIDE DEF c, t
  <2>2. n \in DOMAIN c
    BY <1>2
  <2>3. fetch_jobs(c)[n] = c[n]
    BY <1>3, <2>2, JobFields
  <2>4. t[n] = c[n]
    BY <2>1, <2>3
  <2>5. QED
    BY <2>4 DEF c, t
<1>11. CASE g.name = "shipments"
  <2>1. t = fetch_shipments(c)
    BY <1>11 DEF Fetched, c, t
  <2> HIDE DEF c, t
  <2>2. n \in DOMAIN c
    BY <1>2
  <2>3. fetch_shipments(c)[n] = c[n]
    BY <1>3, <2>2, ShipmentFields
  <2>4. t[n] = c[n]
    BY <2>1, <2>3
  <2>5. QED
    BY <2>4 DEF c, t
<1>12. CASE g.name = "vroom_vehicles"
  <2>1. t = fetch_vroom_vehicles(c)
    BY <1>12 DEF Fetched, c, t
  <2> HIDE DEF c, t
  <2>2. n \in DOMAIN c
    BY <1>2
  <2>3. fetch_vroom_vehicles(c)[n] = c[n]
    BY <1>3, <2>2, VroomVehicleFields
  <2>4. t[n] = c[n]
    BY <2>1, <2>3
  <2>5. QED
    BY <2>4 DEF c, t
<1>13. g.name \in Getters
  BY QueriesAre DEF IsGetter
<1>14. QED
  BY <1>4, <1>5, <1>6, <1>7, <1>8, <1>9, <1>10, <1>11, <1>12, <1>13 DEF Getters

\* A whole number that fits is kept.
LEMMA NumberIsKept ==
  ASSUME NEW q \in Queries, fetch_column_info(q), NEW k \in DOMAIN q.rows,
         ~Refused(q, q.rows[k]), NEW column \in Looked(q.getter),
         column_found(q, column.name), q.types[column.name] \in Integral,
         q.rows[k][column.name] \in 0 .. Word - 1
  PROVE  Fetched(q, q.rows[k])[column.name] = q.rows[k][column.name]
<1> DEFINE n == column.name
<1>1. n \in Fields(q.getter)
  BY DEF Fields
<1>2. column \in Info(q.getter)
  BY DEF Looked
<1>3. q.types[n] \in Accepted(NamedType(q.getter, n))
  <2>1. q.types[n] \in Accepted(column.type)
    BY <1>2 DEF fetch_column_info
  <2>2. column.type = NamedType(q.getter, n)
    BY <1>2, QueriesAre, ColumnTypes
  <2>3. QED
    BY <2>1, <2>2
<1>4. Cells(q, q.rows[k])[n] = get_value(NamedType(q.getter, n), q.rows[k][n])
  BY <1>1, CellsAre
<1>5. Cells(q, q.rows[k])[n] = q.rows[k][n]
  BY <1>3, <1>4, WholeNumbersRead
<1>6. QED
  BY <1>1, <1>5, FetchersKeep

\* What stands for the columns of the vehicles that are left out.
Default(t, n) ==
  CASE n \in {"number", "speed"} -> 1 [] n \in {"s_open", "s_service", "e_service"} -> 0
    [] n = "s_close" -> LastTime
    [] n = "e_open" -> t.s_open [] n = "e_close" -> t.s_close
    [] n = "e_id" -> t.s_id [] n = "e_x" -> t.s_x [] n = "e_y" -> t.s_y

\* A column of the vehicles that is left out has its default.
LEMMA DefaultIsGiven ==
  ASSUME NEW q \in Queries, fetch_column_info(q), NEW k \in DOMAIN q.rows,
         ~Refused(q, q.rows[k]), q.getter.name = "vehicles",
         NEW n \in {"number", "speed", "s_open", "s_close", "s_service",
                    "e_open", "e_close", "e_service", "e_id", "e_x", "e_y"},
         n \in Fields(q.getter), ~column_found(q, n)
  PROVE  Fetched(q, q.rows[k])[n] = Default(Fetched(q, q.rows[k]), n)
<1> DEFINE g == q.getter
           c == Cells(q, q.rows[k])
           t == Fetched(q, q.rows[k])
<1>1. IsRead(q, c)
  BY AcceptedAreRead
<1>2. t = fetch_vehicles(c)
  BY DEF Fetched
<1> HIDE DEF c, t
<1>3. DOMAIN c = Fields(g) /\ c[n] = Absent
  BY <1>1 DEF IsRead
<1>4. "s_open" \in Fields(g) /\ "s_close" \in Fields(g)
  BY <1>1, WindowIsRead
<1>5. UInt32(1) = 1 /\ \A d : Or(c[n], d) = d
  <2>1. 1 % Word = 1
    BY DataRowsAssumption
  <2>2. QED
    BY <1>3, <2>1 DEF UInt32, Or
<1>6. t["s_open"] = Or(c["s_open"], 0) /\ t["s_close"] = Or(c["s_close"], LastTime)
  BY <1>2, <1>3, <1>4, VehicleFields
<1>7. \A s \in {"s_id", "s_x", "s_y"} : s \in Fields(g) => t[s] = c[s]
  BY <1>2, <1>3, <1>4, VehicleFields
<1>8. /\ n = "e_id" => "s_id" \in Fields(g)
      /\ n = "e_x" => "s_x" \in Fields(g)
      /\ n = "e_y" => "s_y" \in Fields(g)
  BY <1>1, StartIsRead
<1>9. t[n] = CASE n = "number" -> UInt32(Or(c[n], 1))
               [] n = "speed" -> Or(c[n], 1)
               [] n \in {"s_open", "s_service", "e_service"} -> Or(c[n], 0)
               [] n = "s_close" -> Or(c[n], LastTime)
               [] n = "e_id" -> Or(c[n], c["s_id"])
               [] n = "e_x" -> Or(c[n], c["s_x"])
               [] n = "e_y" -> Or(c[n], c["s_y"])
               [] n = "e_open" -> Or(c[n], Or(c["s_open"], 0))
               [] n = "e_close" -> Or(c[n], Or(c["s_close"], LastTime))
  BY <1>2, <1>3, <1>4, VehicleFields
<1>10. t[n] = Default(t, n)
  BY <1>5, <1>6, <1>7, <1>8, <1>9 DEF Default
<1>11. QED
  BY <1>10 DEF t


(***************************************************************************)
(* The cursor.                                                             *)
(***************************************************************************)

\* The rows before the cursor, as the fetchers make them.
RowsRead(q, n) == [k \in 1 .. n |-> Fetched(q, q.rows[k])]

\* The rows read are the ones before the cursor, all of them accepted; the
\* columns have been verified before the first of them.
DataInv ==
  /\ query \in Queries /\ checked \in BOOLEAN
  /\ pc \in {"fetch", "done", "failed"}
  /\ total_tuples \in 0 .. Len(query.rows)
  /\ pc = "failed" => tuples = <<>>
  /\ pc # "failed" =>
       /\ tuples = RowsRead(query, total_tuples)
       /\ \A k \in 1 .. total_tuples : ~Refused(query, query.rows[k])
       /\ total_tuples > 0 => fetch_column_info(query)
  /\ pc = "done" => total_tuples = Len(query.rows) /\ fetch_column_info(query)

\* A batch is made of the rows that come next, and there is one as long as
\* there are rows.
LEMMA BatchIs ==
  ASSUME query \in Queries, total_tuples \in 0 .. Len(query.rows)
  PROVE  /\ Len(Batch) \in Nat /\ DOMAIN Batch = 1 .. Len(Batch)
         /\ total_tuples + Len(Batch) <= Len(query.rows)
         /\ \A k \in 1 .. Len(Batch) : Batch[k] = query.rows[total_tuples + k]
         /\ Batch = <<>> => total_tuples = Len(query.rows)
<1> DEFINE s == query.rows
           hi == IF total_tuples + TupleLimit < Len(s) THEN total_tuples + TupleLimit ELSE Len(s)
<1>1. Len(s) \in Nat /\ total_tuples \in Nat /\ TupleLimit \in Nat /\ TupleLimit > 0
  BY QueriesAre, DataRowsAssumption
<1>2. /\ hi \in Nat /\ total_tuples <= hi /\ hi <= Len(s)
      /\ hi = total_tuples => total_tuples = Len(s)
  BY <1>1
<1> HIDE DEF hi
<1>3. \A i \in total_tuples + 1 .. hi : s[i] \in Range(s)
  <2>1. DOMAIN s = 1 .. Len(s)
    BY QueriesAre
  <2>2. QED
    BY <1>1, <1>2, <2>1 DEF Range
<1>4. total_tuples + 1 \in Int /\ hi \in Int
  BY <1>1, <1>2
<1>5. /\ SubSeq(s, total_tuples + 1, hi) \in Seq(Range(s))
      /\ Len(SubSeq(s, total_tuples + 1, hi)) = IF total_tuples + 1 <= hi THEN hi - (total_tuples + 1) + 1 ELSE 0
      /\ \A i \in 1 .. hi - (total_tuples + 1) + 1 :
           SubSeq(s, total_tuples + 1, hi)[i] = s[total_tuples + 1 + i - 1]
  BY <1>3, <1>4, SubSeqProperties, SMTT(60)
<1>6. Batch = SubSeq(s, total_tuples + 1, hi)
  BY DEF Batch, hi
<1>7. Batch \in Seq(Range(s)) /\ Len(Batch) = hi - total_tuples
  BY <1>1, <1>2, <1>5, <1>6
<1>8. \A k \in 1 .. Len(Batch) : Batch[k] = s[total_tuples + k]
  <2> TAKE k \in 1 .. Len(Batch)
  <2>1. k \in 1 .. hi - (total_tuples + 1) + 1 /\ total_tuples + 1 + k - 1 = total_tuples + k
    BY <1>1, <1>2, <1>7
  <2>2. QED
    BY <1>5, <1>6, <2>1
<1>9. Len(Batch) \in Nat /\ DOMAIN Batch = 1 .. Len(Batch)
  BY <1>7
<1>10. Batch = <<>> => Len(Batch) = 0
  OBVIOUS
<1>11. QED
  BY <1>1, <1>2, <1>7, <1>8, <1>9, <1>10

\* The loop starts before the first row.
LEMMA DataInit == Init => DataInv
<1> SUFFICES ASSUME Init
             PROVE  DataInv
  OBVIOUS
<1>1. query \in Queries /\ checked = FALSE /\ total_tuples = 0 /\ tuples = <<>> /\ pc = "fetch"
  BY DEF Init
<1>2. 0 \in 0 .. Len(query.rows)
  BY <1>1, QueriesAre
<1>3. RowsRead(query, 0) = <<>>
  BY DEF RowsRead
<1>4. /\ total_tuples \in 0 .. Len(query.rows)
      /\ tuples = RowsRead(query, total_tuples)
      /\ \A k \in 1 .. total_tuples : ~Refused(query, query.rows[k])
      /\ total_tuples > 0 => fetch_column_info(query)
  BY <1>1, <1>2, <1>3
<1>5. QED
  BY <1>1, <1>4 DEF DataInv

\* A batch that is accepted is put behind the rows before.
LEMMA DataFetches ==
  ASSUME DataInv, FetchBatch
  PROVE  DataInv'
<1> DEFINE n == total_tuples
           b == Len(Batch)
<1>1. /\ query \in Queries /\ n \in 0 .. Len(query.rows) /\ pc = "fetch"
      /\ tuples = RowsRead(query, n) /\ \A k \in 1 .. n : ~Refused(query, query.rows[k])
      /\ n > 0 => fetch_column_info(query)
  BY DEF DataInv, FetchBatch
<1>2. Len(query.rows) \in Nat /\ n \in Nat
  BY <1>1, QueriesAre
<1>3. /\ b \in Nat /\ DOMAIN Batch = 1 .. b /\ n + b <= Len(query.rows)
      /\ \A k \in 1 .. b : Batch[k] = query.rows[n + k]
  BY <1>1, BatchIs
<1>4. /\ checked' = TRUE /\ total_tuples' = n + b /\ query' = query /\ pc' = pc
      /\ tuples' = tuples \o [k \in DOMAIN Batch |-> Fetched(query, Batch[k])]
      /\ ColumnsAreRight /\ \A k \in DOMAIN Batch : ~Refused(query, Batch[k])
  BY DEF FetchBatch, BatchIsRight
<1> HIDE DEF n, b
<1>5. \A k \in 1 .. n + b : ~Refused(query, query.rows[k])
  <2> TAKE k \in 1 .. n + b
  <2>1. CASE k <= n
    BY <1>1, <1>2, <2>1
  <2>2. CASE k > n
    <3>1. k - n \in 1 .. b /\ n + (k - n) = k
      BY <1>2, <1>3, <2>2
    <3>2. Batch[k - n] = query.rows[k]
      BY <1>3, <3>1
    <3>3. QED
      BY <1>3, <1>4, <3>1, <3>2
  <2>3. QED
    BY <1>2, <1>3, <2>1, <2>2
<1>6. tuples' = RowsRead(query, n + b)
  <2> DEFINE F(k) == Fetched(query, query.rows[k])
             more == [k \in 1 .. b |-> F(n + k)]
  <2>1. tuples = [k \in 1 .. n |-> F(k)]
    BY <1>1 DEF RowsRead
  <2>2. tuples' = tuples \o more
    BY <1>3, <1>4
  <2>3. RowsRead(query, n + b) = [k \in 1 .. n + b |-> F(k)]
    BY DEF RowsRead
  <2> HIDE DEF F
  <2>4. [k \in 1 .. n |-> F(k)] \o more = [k \in 1 .. n + b |-> F(k)]
    BY <1>2, <1>3
  <2>5. QED
    BY <2>1, <2>2, <2>3, <2>4
<1>7. fetch_column_info(query)
  BY <1>1, <1>2, <1>4 DEF ColumnsAreRight, n
<1>8. n + b \in 0 .. Len(query.rows)
  BY <1>2, <1>3
<1>9. pc' = "fetch"
  BY <1>1, <1>4
<1>10. /\ query' \in Queries /\ checked' \in BOOLEAN
       /\ total_tuples' \in 0 .. Len(query'.rows)
       /\ tuples' = RowsRead(query', total_tuples')
       /\ \A k \in 1 .. total_tuples' : ~Refused(query', query'.rows[k])
       /\ fetch_column_info(query')
  BY <1>1, <1>4, <1>5, <1>6, <1>7, <1>8
<1>11. QED
  BY <1>9, <1>10 DEF DataInv

\* Every step keeps the invariant.
LEMMA DataNext == DataInv /\ [Next]_vars => DataInv'
<1> SUFFICES ASSUME DataInv, [Next]_vars
             PROVE  DataInv'
  OBVIOUS
<1>1. CASE Fail
  BY <1>1 DEF Fail, DataInv
<1>2. CASE FetchBatch
  BY <1>2, DataFetches
<1>3. CASE CloseCursor
  <2>1. /\ query' = query /\ total_tuples' = total_tuples /\ tuples' = tuples
        /\ checked' = TRUE /\ pc' = "done" /\ pc = "fetch"
        /\ ColumnsAreRight /\ Batch = <<>>
    BY <1>3 DEF CloseCursor, BatchIsRight, NoMoreData
  <2>2. query \in Queries /\ total_tuples \in 0 .. Len(query.rows) /\ Len(query.rows) \in Nat
    BY QueriesAre DEF DataInv
  <2>3. total_tuples = Len(query.rows)
    BY <2>1, <2>2, BatchIs
  <2>4. fetch_column_info(query)
    BY <2>1, <2>2 DEF ColumnsAreRight, DataInv
  <2>5. QED
    BY <2>1, <2>2, <2>3, <2>4 DEF DataInv
<1>4. CASE Terminated
  BY <1>4 DEF Terminated, vars, DataInv
<1>5. CASE UNCHANGED vars
  BY <1>5 DEF vars, DataInv
<1>6. QED
  BY <1>1, <1>2, <1>3, <1>4, <1>5 DEF Next

\* The invariant of the cursor holds in every state.
LEMMA DataInvariant == Spec => []DataInv
<1>1. QED
  BY DataInit, DataNext, PTL DEF Spec

\* The rows read are rows of the query that were accepted.
LEMMA TuplesAre ==
  ASSUME DataInv, NEW k \in DOMAIN tuples
  PROVE  /\ k \in DOMAIN query.rows /\ query \in Queries
         /\ tuples[k] = Fetched(query, query.rows[k])
         /\ ~Refused(query, query.rows[k]) /\ fetch_column_info(query)
<1>1. query \in Queries /\ total_tuples \in 0 .. Len(query.rows)
  BY DEF DataInv
<1>2. Len(query.rows) \in Nat /\ DOMAIN query.rows = 1 .. Len(query.rows)
  BY <1>1, QueriesAre
<1>3. pc # "failed"
  <2>1. DOMAIN <<>> = {}
    OBVIOUS
  <2>2. QED
    BY <2>1 DEF DataInv
<1>4. /\ tuples = RowsRead(query, total_tuples)
      /\ \A i \in 1 .. total_tuples : ~Refused(query, query.rows[i])
      /\ total_tuples > 0 => fetch_column_info(query)
  BY <1>3 DEF DataInv
<1>5. k \in 1 .. total_tuples /\ tuples[k] = Fetched(query, query.rows[k])
  BY <1>4 DEF RowsRead
<1>6. k \in DOMAIN query.rows /\ total_tuples > 0
  BY <1>1, <1>2, <1>5
<1>7. QED
  BY <1>1, <1>4, <1>5, <1>6

\* Whatever the query and the size of the batches, a call that succeeds has
\* every row of the query, in the order of the query, as the fetchers read it:
\* none is lost or read twice at the border of two batches (get_data).
THEOREM RowsInOrder ==
  Spec => [](pc = "done" => tuples = [k \in 1 .. Len(query.rows) |-> Fetched(query, query.rows[k])])
<1>1. DataInv => (pc = "done" => tuples = [k \in 1 .. Len(query.rows) |-> Fetched(query, query.rows[k])])
  BY DEF DataInv, RowsRead
<1>2. QED
  BY <1>1, DataInvariant, PTL

\* Every row that reaches the program is one it can use, whatever the getter,
\* the columns that are there, the cells and the size of the batches: its
\* columns are the ones of the getter, what is kept in a uint32_t fits, no
\* window closes before it opens, no service gives time back; and a call that
\* succeeds has verified its columns (fetch_column_info, the readers and the
\* fetchers).
THEOREM DataAreUsable == Spec => []AcceptedDataAreUsable
<1>1. DataInv => AcceptedDataAreUsable
  <2> SUFFICES ASSUME DataInv
               PROVE  AcceptedDataAreUsable
    OBVIOUS
  <2>1. ASSUME NEW k \in DOMAIN tuples
        PROVE  Fits(query.getter, tuples[k])
    <3>1. /\ k \in DOMAIN query.rows /\ query \in Queries
          /\ tuples[k] = Fetched(query, query.rows[k])
          /\ ~Refused(query, query.rows[k]) /\ fetch_column_info(query)
      BY TuplesAre
    <3>2. QED
      BY <3>1, AcceptedFit
  <2>2. TypeOK
    <3>1. /\ checked \in BOOLEAN /\ pc \in {"fetch", "done", "failed"}
          /\ total_tuples \in 0 .. Len(query.rows)
      BY DEF DataInv
    <3>2. \A k \in DOMAIN tuples :
            /\ DOMAIN tuples[k] = {column.name : column \in Looked(query.getter)}
            /\ \A n \in UInt32Columns(query.getter) : tuples[k][n] \in 0 .. Word - 1
      BY <2>1 DEF Fits, Fields
    <3>3. QED
      BY <3>1, <3>2 DEF TypeOK
  <2>3. RowsAreUsable
    BY <2>1 DEF Fits, RowsAreUsable
  <2>4. ColumnsAreVerified
    <3>1. pc = "done" => fetch_column_info(query)
      BY DEF DataInv
    <3>2. QED
      BY <3>1 DEF ColumnsAreVerified, fetch_column_info, get_column_info, column_found
  <2>5. QED
    BY <2>2, <2>3, <2>4 DEF AcceptedDataAreUsable
<1>2. QED
  BY <1>1, DataInvariant, PTL

\* A whole number that fits its field is what the program gets, for every
\* column of every getter, and for a column of the vehicles that is left out it
\* gets the default of that column, which is the documented one for all of them
\* but e_service, where it is 0: no default, conversion or reader of another
\* column takes its place (get_value, the fetchers).
THEOREM CellsRead == Spec => []CellsMeanWhatTheySay
<1>1. DataInv => CellsMeanWhatTheySay
  <2> SUFFICES ASSUME DataInv
               PROVE  CellsMeanWhatTheySay
    OBVIOUS
  <2>1. NumbersAreKept
    <3>1. ASSUME NEW k \in DOMAIN tuples, NEW column \in Looked(query.getter),
                 column_found(query, column.name), query.types[column.name] \in Integral,
                 query.rows[k][column.name] \in 0 .. Word - 1
          PROVE  tuples[k][column.name] = query.rows[k][column.name]
      BY <3>1, TuplesAre, NumberIsKept
    <3>2. QED
      BY <3>1 DEF NumbersAreKept
  <2>2. VehicleDefaults
    <3> DEFINE optional == {"number", "speed", "s_open", "s_close", "s_service",
                            "e_open", "e_close", "e_service", "e_id", "e_x", "e_y"}
    <3>1. ASSUME query.getter.name = "vehicles", NEW k \in DOMAIN tuples,
                 NEW n \in optional \cap DOMAIN tuples[k], ~column_found(query, n)
          PROVE  tuples[k][n] = Default(tuples[k], n)
      <4>1. /\ k \in DOMAIN query.rows /\ query \in Queries
            /\ tuples[k] = Fetched(query, query.rows[k])
            /\ ~Refused(query, query.rows[k]) /\ fetch_column_info(query)
        BY TuplesAre
      <4>2. DOMAIN tuples[k] = Fields(query.getter)
        BY <4>1, AcceptedFit DEF Fits
      <4>3. QED
        BY <3>1, <4>1, <4>2, DefaultIsGiven
    <3>2. QED
      BY <3>1 DEF VehicleDefaults, Default
  <2>3. QED
    BY <2>1, <2>2 DEF CellsMeanWhatTheySay
<1>2. QED
  BY <1>1, DataInvariant, PTL

=============================================================================
