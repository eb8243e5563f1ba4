----------------------------- MODULE MCDataRows -----------------------------
(***************************************************************************)
(* Every getter, with and without timestamps, on three queries without a   *)
(* fault and on those that differ from them by a column that is missing,   *)
(* a column of another type or one odd cell, and on those that lack a      *)
(* column and have an odd cell.  A uint32_t has eight values.              *)
(***************************************************************************)
EXTENDS DataRows

Getter(name, stamps, flag, with_stops) ==
  [name |-> name, use_timestamps |-> stamps, flag |-> flag, with_stops |-> with_stops]

MCGetters ==
  {Getter(n, stamps, FALSE, FALSE) :
     n \in {"matrix", "multipliers", "vroom_matrix", "breaks", "jobs", "shipments",
            "vroom_vehicles"}, stamps \in BOOLEAN}
  \cup {Getter(n, stamps, flag, FALSE) :
     n \in {"orders", "vehicles", "timewindows"}, stamps \in BOOLEAN, flag \in BOOLEAN}
  \cup {Getter("vehicles", FALSE, FALSE, TRUE)}

UsualType(type) ==
  CASE type \in {"ANY_INTEGER", "ANY_POSITIVE_INTEGER", "ANY_UINT"} -> "int8"
    [] type = "ANY_NUMERICAL" -> "float8"
    [] type \in {"INTEGER", "POSITIVE_INTEGER"} -> "int4"
    [] type \in {"ANY_POSITIVE_ARRAY", "ANY_UINT_ARRAY"} -> "int4[]"
    [] type = "JSONB" -> "jsonb" [] type = "CHAR1" -> "bpchar"
    [] type = "TIMESTAMP" -> "timestamp" [] type = "INTERVAL" -> "interval"

List(elements) == [dimensions |-> 1, elements |-> elements]
Span(month, day, time) == [month |-> month, day |-> day, time |-> time]

UsualCell(type) ==
  CASE type \in {"ANY_POSITIVE_ARRAY", "ANY_UINT_ARRAY"} -> List(<<1, 2>>)
    [] type = "JSONB" -> "data" [] type = "CHAR1" -> "d"
    [] type = "INTERVAL" -> Span(0, 0, 1500000) [] type = "TIMESTAMP" -> 1000000
    [] OTHER -> 2

OddCells(type) ==
  CASE type \in {"ANY_POSITIVE_ARRAY", "ANY_UINT_ARRAY"} ->
         {NULL, List(<<-1>>), List(<<NULL>>), [dimensions |-> 0, elements |-> <<>>],
          [dimensions |-> 2, elements |-> <<1, 1>>]}
    [] type = "JSONB" -> {NULL}
    [] type = "CHAR1" -> {NULL, "p", "x"}
    [] type = "INTERVAL" ->
         {NULL, Span(0, 0, -500000), Span(0, 1, -90000000), Span(1, -30, 0), Span(-1, 30, 0)}
    [] type = "TIMESTAMP" -> {NULL, -1, 2000000}
    [] type = "POSITIVE_INTEGER" -> {NULL, -1, 101}
    [] type = "ANY_NUMERICAL" -> {NULL, -1, 0}
    [] OTHER -> {NULL, -1, 0, 5, Word, Word + 1}

Names(columns) == {column.name : column \in columns}
TypeOf(columns, n) == (CHOOSE column \in columns : column.name = n).type

\* The rows differ in their identifiers.
UsualRow(columns, k) ==
  [n \in Names(columns) |-> IF n = "id" THEN k ELSE UsualCell(TypeOf(columns, n))]
Usual(getter, rows) ==
  LET columns == Info(getter)
  IN  [getter |-> getter, types |-> [n \in Names(columns) |-> UsualType(TypeOf(columns, n))],
       rows |-> [k \in 1 .. rows |-> UsualRow(columns, k)]]

Lacking(q, n) ==
  LET left == DOMAIN q.types \ {n}
  IN  [q EXCEPT !.types = [m \in left |-> q.types[m]],
                !.rows = [k \in DOMAIN q.rows |-> [m \in left |-> q.rows[k][m]]]]
Retyped(q, n, type) == [q EXCEPT !.types[n] = type]
\* The odd cell is in the last row.
WithOdd(q, n, cell) == [q EXCEPT !.rows[Len(q.rows)][n] = cell]

Odd(q) ==
  UNION {{WithOdd(q, column.name, cell) : cell \in OddCells(column.type)} :
         column \in {c \in Info(q.getter) : c.name \in DOMAIN q.types}}

UsualQueries == {Usual(getter, rows) : getter \in MCGetters, rows \in 0 .. 3}
LackingQueries == UNION {{Lacking(q, n) : n \in DOMAIN q.types} : q \in UsualQueries}
RetypedQueries ==
  UNION {{Retyped(q, column.name, type) :
            column \in {c \in Info(q.getter) : c.type \notin {"JSONB", "CHAR1"}},
            type \in {"bpchar"}} : q \in {r \in UsualQueries : Len(r.rows) < 2}}
OddQueries == UNION {Odd(q) : q \in {r \in UsualQueries : Len(r.rows) \in {1, 3}}}
LackingOddQueries ==
  UNION {Odd(q) : q \in {r \in LackingQueries :
           Len(r.rows) = 1 /\ r.getter.name \in {"vehicles", "vroom_vehicles", "vroom_matrix"}}}

Queried ==
  UNION {UsualQueries, LackingQueries, RetypedQueries, OddQueries, LackingOddQueries}
AllQueries == {q \in Queried : q.getter \in MCGetters}
=============================================================================
