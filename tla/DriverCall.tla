----------------------------- MODULE DriverCall -----------------------------
(***************************************************************************)
(* One call of a function of the extension, from the first call of the     *)
(* set returning function to its last row.  process() connects to SPI and  *)
(* calls the driver; the driver checks the parameters, reads the queries,  *)
(* computes and copies the rows; process() reports the messages; and each  *)
(* further call answers a row.                                             *)
(*                                                                         *)
(* A driver is a sequence of stages.  What a stage computes is left to     *)
(* other modules: here a query gives rows, or none, or raises, and any     *)
(* step of the processing may raise one of the types the drivers catch.    *)
(* An error of PostgreSQL itself (a query that fails, an interruption)     *)
(* ends the call at once: it jumps over the driver.                        *)
(***************************************************************************)
EXTENDS Integers, Sequences, FiniteSets, SequencesExt

CONSTANTS
  Functions,   \* the functions to call, among the records below
  MaxRows      \* bound: the rows of an answer, and those that are copied

ASSUME DriverCallAssumption == MaxRows \in Nat \ {0}

VARIABLES
  fn,         \* the function that is called
  nulls,      \* its queries that are SQL NULL
  value,      \* the value of the last parameter that was checked
  at,         \* the stage of the driver
  empties,    \* the queries that gave no row
  hint,       \* the query that is being read
  log, notice, err,   \* log_msg, notice_msg, err_msg
  tuples,     \* return_tuples: "null", "rows", or "dangling" once freed
  copied,     \* the rows that have been written there
  freed,      \* how many times the rows have been freed
  count,      \* return_count, then max_calls
  spi,        \* is SPI connected?
  reports,    \* what the caller has been told
  answered,   \* call_cntr
  pc

vars == <<fn, nulls, value, at, empties, hint, log, notice, err, tuples, copied, freed, count,
          spi, reports, answered, pc>>

NULL == "NULL"

-----------------------------------------------------------------------------
(* The stages of the drivers.                                              *)

\* A parameter: the values the code accepts and those that its message names.
Param(name, legal, told, as) ==
  [kind |-> "param", name |-> name, legal |-> legal, told |-> told, as |-> as]
Query(name) == [kind |-> "query", name |-> name, required |-> TRUE]
Option(name) == [kind |-> "query", name |-> name, required |-> FALSE]
NotNull(names) == [kind |-> "notnull", names |-> names]
SomeData(names) == [kind |-> "somedata", names |-> names]
Forget == [kind |-> "forget"]
Verify(name, told) == [kind |-> "verify", name |-> name, log |-> told]
Work(name) == [kind |-> "work", name |-> name]
Rows(logs, told) == [kind |-> "rows", logs |-> logs, told |-> told]
Stops == [kind |-> "stops"]
Finish(logs) == [kind |-> "finish", logs |-> logs]

Values == -1..8
AtLeast(n) == {v \in Values : v >= n}

Cycles == Param("max_cycles", AtLeast(0), AtLeast(0), "err")
Factor == Param("factor", AtLeast(1), AtLeast(1), "err")
Always == {"log"}
Maybe == {"log", NULL}

\* Fault: the hint still names the last query during the processing.
pickDeliverKeepsHint ==
  <<Cycles, Factor, Query("orders"), Query("vehicles"), Query("matrix"), Option("multipliers"),
    Verify("stops", "log"), Work("matrix"), Verify("infinity", "log"),
    Verify("problem", "log"), Work("solve"),
    Rows(Always, NULL), Finish(Always)>>

vrp_do_pickDeliver ==
  <<Cycles, Factor, Query("orders"), Query("vehicles"), Query("matrix"), Option("multipliers"),
    Forget, Verify("stops", "log"), Work("matrix"), Verify("infinity", "log"),
    Verify("problem", "log"), Work("solve"),
    Rows(Always, NULL), Finish(Always)>>

vrp_do_pgr_pickDeliver ==
  <<Param("initial_sol", 0..7, 0..6, "err"), Cycles, Factor,
    Query("orders"), Query("vehicles"), Query("matrix"),
    Forget, Work("matrix"), Verify("infinity", "log"),
    Verify("problem", "log"), Work("solve"),
    Rows(Always, NULL), Finish(Always)>>

\* The nodes are numbered by their coordinates and the matrix is computed.
vrp_do_pgr_pickDeliverEuclidean ==
  <<Param("initial_sol", 0..7, 0..7, "err"), Cycles, Factor,
    Query("orders"), Query("vehicles"), Forget, Work("matrix"), Verify("problem", "log"),
    Work("solve"), Rows(Always, NULL), Finish(Always)>>

vrp_do_optimize ==
  <<Param("subdivision_kind", 0..2, 0..1, "notice"), Cycles, Factor,
    Query("orders"), Query("vehicles"), Query("matrix"), Option("multipliers"),
    Forget, Verify("orders", "log"), Work("matrix"), Verify("infinity", "log"), Work("solve"),
    Stops, Finish(Maybe)>>

vrp_do_compatibleVehicles ==
  <<Factor, Query("orders"), Query("vehicles"), Query("matrix"), Option("multipliers"),
    Forget, Work("matrix"), Verify("infinity", "log"), Verify("problem", "log"), Work("compatible"),
    Rows(Always, NULL), Finish(Always)>>

\* vroom keeps the hint of the last query to the end.
vrp_do_vroom ==
  <<NotNull({"jobs", "shipments"}), NotNull({"vehicles"}), NotNull({"matrix"}),
    Option("jobs"), Option("shipments"), SomeData({"jobs", "shipments"}),
    Option("jobs_tws"), Option("shipments_tws"), Query("vehicles"), Option("breaks"),
    Option("breaks_tws"), Query("matrix"), Verify("speed", NULL),
    Work("matrix"), Verify("size", NULL),
    Work("solve"), Rows({NULL}, "No results found"), Finish({NULL})>>

-----------------------------------------------------------------------------
(* The functions of the extension, with the queries that may be NULL: the  *)
(* other functions are STRICT, and PostgreSQL does not call them with one. *)

_vrp_pickdeliver ==
  [name |-> "pickDeliver", driver |-> vrp_do_pickDeliver, nulls |-> {{}}, fn_used |-> 0]
_vrp_pickdeliverraw ==
  [name |-> "pickDeliverRaw", driver |-> vrp_do_pickDeliver, nulls |-> {{}}, fn_used |-> 0]
_vrp_pgr_pickdeliver ==
  [name |-> "pgr_pickDeliver", driver |-> vrp_do_pgr_pickDeliver, nulls |-> {{}}, fn_used |-> 0]
_vrp_pgr_pickdelivereuclidean ==
  [name |-> "pgr_pickDeliverEuclidean", driver |-> vrp_do_pgr_pickDeliverEuclidean,
   nulls |-> {{}}, fn_used |-> 0]
_vrp_optimize ==
  [name |-> "optimize", driver |-> vrp_do_optimize, nulls |-> {{}}, fn_used |-> 0]
_vrp_compatiblevehicles ==
  [name |-> "compatibleVehicles", driver |-> vrp_do_compatibleVehicles, nulls |-> {{}},
   fn_used |-> 0]
\* fn_used tells vroom, vroomJobs and vroomShipments apart: the last two pass
\* NULL for the queries they do not have.
_vrp_vroom(used) ==
  [name |-> "vroom", driver |-> vrp_do_vroom, fn_used |-> used,
   nulls |-> {n \cup (CASE used = 0 -> {} [] used = 1 -> {"shipments"} [] used = 2 -> {"jobs"}) :
                n \in SUBSET {"jobs", "shipments", "vehicles", "matrix", "breaks"}}]

Queries(f) == {f.driver[k].name : k \in {i \in DOMAIN f.driver : f.driver[i].kind = "query"}}

\* Every driver comes to its last stage, where it returns, and copies its rows
\* right before.
ASSUME DriversFinish ==
  \A f \in Functions :
    /\ Len(f.driver) \in Nat \ {0} /\ DOMAIN f.driver = 1..Len(f.driver)
    /\ f.driver[Len(f.driver)].kind = "finish"
    /\ \A k \in DOMAIN f.driver : f.driver[k].kind \in {"rows", "stops"} => k + 1 = Len(f.driver)

\* The drivers of pickDeliver give a log with every message, and forget the
\* query before they process what it gave.
ASSUME DriversTell ==
  \A f \in Functions : f.name # "vroom" =>
    LET d == f.driver
    IN  /\ f.nulls = {{}}
        /\ {NULL, "log", "expected value", "its second"} \cap Queries(f) = {}
        /\ \A i \in DOMAIN d :
             /\ d[i].kind \notin {"notnull", "somedata"}
             /\ d[i].kind = "verify" => d[i].log = "log"
             /\ d[i].kind = "rows" => d[i].told = NULL
             /\ d[i].kind = "finish" => d[i].logs \subseteq {"log", NULL}
             /\ d[i].kind = "work" =>
                  \A j \in 1..(i - 1) : d[j].kind = "query" =>
                    \E k \in (j + 1)..(i - 1) : d[k].kind = "forget"

-----------------------------------------------------------------------------

Stage == fn.driver[at]

Init ==
  /\ fn \in Functions
  /\ nulls \in fn.nulls
  /\ value = 1 /\ at = 1 /\ empties = {} /\ hint = NULL
  /\ log = NULL /\ notice = NULL /\ err = NULL
  /\ tuples = "null" /\ copied = 0 /\ freed = 0 /\ count = 0
  /\ spi = FALSE /\ reports = <<>> /\ answered = 0
  /\ pc = "called"

call == <<fn, nulls>>   \* what the caller has chosen
result == <<tuples, copied, freed, count>>
messages == <<log, notice, err>>
session == <<spi, reports, answered>>

\* The first call enters process().
Connect ==
  /\ pc = "called"
  /\ spi' = TRUE /\ pc' = "driver"
  /\ UNCHANGED <<call, value, at, empties, hint, messages, result, reports, answered>>

\* The driver goes to its next stage.
Advance ==
  /\ at' = at + 1
  /\ UNCHANGED <<call, messages, result, session, pc>>

\* It returns with a message.
Return(n, e, l) ==
  /\ notice' = n /\ err' = e /\ log' = l
  /\ pc' = "returned"
  /\ UNCHANGED <<call, at, empties, hint, result, session>>

CheckParameter ==
  /\ pc = "driver" /\ Stage.kind = "param"
  /\ value' \in Values
  /\ IF value' \in Stage.legal THEN Advance /\ UNCHANGED <<empties, hint>>
     ELSE IF Stage.as = "err" THEN Return(NULL, "illegal value", "expected value")
     ELSE Return("illegal value", NULL, "expected value")

CheckNotNull ==
  /\ pc = "driver" /\ Stage.kind = "notnull" /\ UNCHANGED value
  /\ IF Stage.names \subseteq nulls THEN Return(NULL, "must not be NULL", NULL)
     ELSE Advance /\ UNCHANGED <<empties, hint>>

\* Fault: the text of the query is not told.
ToldNothing(name) == NULL

Told(name) == IF name \in nulls THEN NULL ELSE name

\* A query gives rows, or it gives none.  No text is a query without rows.
ReadQuery ==
  /\ pc = "driver" /\ Stage.kind = "query" /\ UNCHANGED value
  /\ \/ /\ Stage.name \notin nulls
        /\ hint' = Stage.name /\ Advance /\ UNCHANGED empties
     \/ /\ ~Stage.required
        /\ hint' = Told(Stage.name) /\ empties' = empties \cup {Stage.name} /\ Advance
     \/ Stage.required /\ Return("insufficient data", NULL, Told(Stage.name))

CheckSomeData ==
  /\ pc = "driver" /\ Stage.kind = "somedata" /\ UNCHANGED value
  /\ IF Stage.names \subseteq empties
     THEN Return("insufficient data", NULL,
                 CASE fn.fn_used = 0 -> (IF Stage.names \cap nulls # {} THEN NULL ELSE "both")
                   [] fn.fn_used = 1 -> Told("jobs")
                   [] fn.fn_used = 2 -> Told("shipments"))
     ELSE Advance /\ UNCHANGED <<empties, hint>>

ForgetHint ==
  /\ pc = "driver" /\ Stage.kind = "forget" /\ UNCHANGED value
  /\ hint' = NULL /\ Advance /\ UNCHANGED empties

\* A verification of the data: it holds, or it is reported.
VerifyData ==
  /\ pc = "driver" /\ Stage.kind = "verify" /\ UNCHANGED value
  /\ \/ Advance /\ UNCHANGED <<empties, hint>>
     \/ Return(NULL, "verification", Stage.log)

Compute ==
  /\ pc = "driver" /\ Stage.kind = "work" /\ UNCHANGED value
  /\ Advance /\ UNCHANGED <<empties, hint>>

\* Fault: one row too many is counted.
CopyRowsAndOne ==
  /\ pc = "driver" /\ Stage.kind = "rows"
  /\ \E n \in 0..MaxRows :
       /\ tuples' = IF n > 0 THEN "rows" ELSE "null"
       /\ copied' = n /\ count' = n + 1 /\ at' = at + 1
       /\ UNCHANGED <<call, value, empties, hint, messages, freed, session, pc>>

\* alloc, and the copy of the rows.
CopyRows ==
  /\ pc = "driver" /\ Stage.kind = "rows" /\ UNCHANGED value
  /\ \E n \in 0..MaxRows :
       IF n = 0 /\ Stage.told # NULL THEN Return(Stage.told, NULL, NULL)
       ELSE /\ tuples' = IF n > 0 THEN "rows" ELSE "null"
            /\ copied' = n /\ count' = n /\ at' = at + 1
            /\ UNCHANGED <<call, empties, hint, messages, freed, session, pc>>

\* vrp_optimize reports two rows for each of its orders, whatever it copies:
\* a row for each stop of the solution.  Without a solution it has no rows.
CopyStops ==
  /\ pc = "driver" /\ Stage.kind = "stops" /\ at' = at + 1
  /\ count' \in {n \in 0..MaxRows : n % 2 = 0}
  /\ \/ tuples' = "rows" /\ copied' \in 0..MaxRows
     \/ tuples' = "null" /\ copied' = 0
  /\ UNCHANGED <<call, value, empties, hint, messages, freed, session, pc>>

Conclude ==
  /\ pc = "driver" /\ Stage.kind = "finish" /\ UNCHANGED value
  /\ \E l \in Stage.logs : Return(NULL, NULL, l)

-----------------------------------------------------------------------------
(* The types that the drivers catch.                                       *)

Exceptions == {"AssertFailedException", "std::exception", "string", "pair of strings",
               "pair with id", "unknown"}

\* Where they can be raised: by the reading of a query, by the processing; and
\* by the log, for which there may be no memory.
Raised ==
  CASE Stage.kind = "query" /\ Stage.name \notin nulls -> Exceptions
    [] Stage.kind = "work" -> Exceptions
    [] Stage.kind = "finish" -> {"std::exception"}
    [] OTHER -> {}

\* Fault: the handler sets no error.
CatchSilently ==
  /\ pc = "driver" /\ Raised # {}
  /\ count' = 0
  /\ IF tuples = "rows" THEN tuples' = "dangling" /\ freed' = freed + 1
     ELSE UNCHANGED <<tuples, freed>>
  /\ pc' = "returned"
  /\ UNCHANGED <<call, value, at, empties, hint, messages, copied, session>>

\* The hint of a string is the query, if there is one.
Catch ==
  /\ pc = "driver"
  /\ \E exception \in Raised :
       LET reading == IF Stage.kind = "query" THEN Stage.name ELSE hint
       IN  /\ log' = CASE exception = "string" /\ reading # NULL -> reading
                       [] exception = "pair of strings" -> "its second"
                       [] OTHER -> "log"
           /\ hint' = reading
  /\ err' = "exception" /\ count' = 0
  /\ IF tuples = "rows" THEN tuples' = "dangling" /\ freed' = freed + 1
     ELSE UNCHANGED <<tuples, freed>>
  /\ pc' = "returned"
  /\ UNCHANGED <<call, value, at, empties, notice, copied, session>>

\* An error of PostgreSQL in a query, or an interruption.
Interrupt ==
  /\ pc = "driver" /\ Stage.kind \in {"query", "work"}
  /\ spi' = FALSE /\ pc' = "failed"
  /\ UNCHANGED <<call, value, at, empties, hint, messages, result, reports, answered>>

-----------------------------------------------------------------------------
(* process(), after the driver, and the calls for the rows.                *)

\* An error leaves no rows: they are freed, again if the driver has done it.
Release ==
  /\ pc = "returned"
  /\ IF err # NULL /\ tuples # "null"
     THEN tuples' = "null" /\ freed' = freed + 1 /\ count' = 0 /\ UNCHANGED copied
     ELSE UNCHANGED result
  /\ pc' = "report"
  /\ UNCHANGED <<call, value, at, empties, hint, messages, session>>

\* Fault: a notice ends process() before SPI_finish.
ReportNoticeAndReturn ==
  /\ pc = "report"
  /\ reports' = reports \o (IF notice # NULL THEN << <<"NOTICE", notice, log>> >> ELSE <<>>)
  /\ pc' = IF err # NULL THEN "failed" ELSE "answering"
  /\ spi' = (notice # NULL)
  /\ UNCHANGED <<call, value, at, empties, hint, messages, result, answered>>

\* vrp_global_report: an error jumps out of process(), and SPI is closed by the
\* abort.  A notice that has no log gets the hint "(null)".
vrp_global_report ==
  /\ pc = "report"
  /\ reports' = reports
       \o (IF notice = NULL /\ log # NULL THEN << <<"DEBUG1", log, NULL>> >> ELSE <<>>)
       \o (IF notice # NULL THEN << <<"NOTICE", notice, log>> >> ELSE <<>>)
       \o (IF err # NULL THEN << <<"ERROR", err, log>> >> ELSE <<>>)
  /\ IF err # NULL THEN pc' = "failed" /\ UNCHANGED <<log, notice>>
                   ELSE pc' = "answering" /\ log' = NULL /\ notice' = NULL
  /\ spi' = FALSE
  /\ UNCHANGED <<call, value, at, empties, hint, err, result, answered>>

\* Fault: the last row is answered twice.
AnswerAndOne ==
  /\ pc = "answering" /\ answered <= count
  /\ answered' = answered + 1
  /\ UNCHANGED <<call, value, at, empties, hint, messages, result, spi, reports, pc>>

\* Fault: call_cntr stays.
AnswerAgain == pc = "answering" /\ answered < count /\ UNCHANGED vars

Answer ==
  /\ pc = "answering" /\ answered < count
  /\ answered' = answered + 1
  /\ UNCHANGED <<call, value, at, empties, hint, messages, result, spi, reports, pc>>

Done ==
  /\ pc = "answering" /\ answered = count
  /\ pc' = "done"
  /\ UNCHANGED <<call, value, at, empties, hint, messages, result, session>>

Ended == pc \in {"failed", "done"}
Terminated == Ended /\ UNCHANGED vars

Next ==
  \/ Connect \/ CheckParameter \/ CheckNotNull \/ ReadQuery \/ CheckSomeData
  \/ ForgetHint \/ VerifyData \/ Compute \/ CopyRows \/ CopyStops \/ Conclude
  \/ Catch \/ Interrupt \/ Release \/ vrp_global_report
  \/ Answer \/ Done \/ Terminated

\* A backend goes on as long as it can: the drivers loop over finite data.
Spec == Init /\ [][Next]_vars /\ WF_vars(Next)

-----------------------------------------------------------------------------

TypeOK ==
  /\ fn \in Functions /\ nulls \in fn.nulls
  /\ at \in DOMAIN fn.driver
  /\ empties \subseteq Queries(fn) /\ hint \in Queries(fn) \cup {NULL}
  /\ tuples \in {"null", "rows", "dangling"} /\ freed \in 0..2
  /\ copied \in 0..MaxRows /\ count \in 0..MaxRows
  /\ spi \in BOOLEAN /\ answered \in 0..MaxRows
  /\ pc \in {"called", "driver", "returned", "report", "answering", "failed", "done"}

\* All drivers but the one of vrp_optimize count the rows that they copy.
CountsItsRows == \A k \in DOMAIN fn.driver : fn.driver[k].kind # "stops"

\* The rows that are answered have not been freed, and a driver that counts its
\* rows has copied as many as the executor is told.  (Whether vrp_optimize has
\* depends on the stops of its data: OptimizeDriver.)
AnswersLiveRows ==
  pc \in {"answering", "done"} =>
    /\ freed = 0
    /\ CountsItsRows => copied = count /\ tuples = IF count = 0 THEN "null" ELSE "rows"

\* Rows are freed only when the last stage raises an exception after they were
\* copied.  Then they are freed twice: by the handler, which leaves the pointer
\* as it is, and by process(), which frees what the pointer shows.  (alloc.hpp
\* says that the C code is to free them.)
FreedByLateErrors ==
  freed > 0 => /\ at = Len(fn.driver) /\ err = "exception"
               /\ freed = IF pc = "returned" THEN 1 ELSE 2

\* SPI is connected whenever a driver reads and computes, and no path leaves
\* it connected.
ConnectionIsClosed ==
  /\ pc = "driver" => spi
  /\ pc \in {"failed", "answering", "done"} => ~spi

\* No rows are answered that a call has given back, and no path but the
\* exception of the last stage frees them; SPI is given back on every path.
ResourcesAreReturned ==
  TypeOK /\ AnswersLiveRows /\ FreedByLateErrors /\ ConnectionIsClosed

\* A query that is shown as a hint is the one that was being read: an error of
\* the processing is never blamed on the last query (hint = nullptr).  vroom,
\* which keeps its hint, does blame the matrix query.
Shown(kind) == {reports[k][3] : k \in {i \in DOMAIN reports : reports[i][1] = kind}}
HintNamesTheQuery ==
  fn.name # "vroom" =>
    \A name \in (Shown("ERROR") \cup Shown("NOTICE")) \cap Queries(fn) :
      Stage.kind = "query" /\ Stage.name = name

\* The caller is told why a driver returns early, without an answer, and, by the
\* functions of pickDeliver, also where to look.  An answer that was computed
\* may be empty without a notice.
EmptyAnswersAreExplained ==
  /\ pc = "done" /\ count = 0 /\ Stage.kind # "finish" => Shown("NOTICE") # {}
  /\ fn.name # "vroom" => NULL \notin Shown("NOTICE") \cup Shown("ERROR")

\* The reports of a call tell what went wrong, and where.
CallerIsTold == HintNamesTheQuery /\ EmptyAnswersAreExplained

Called == INSTANCE FunctionCall WITH
  status <- CASE pc \in {"failed", "done", "answering"} -> pc [] OTHER -> "asked",
  rows <- IF pc \in {"answering", "done"} THEN count ELSE 0

\* A call ends: it fails without an answer, or answers every row once
\* (FunctionCall).
ImplementsFunctionCall == Called!Spec

=============================================================================
