--------------------------- MODULE DriverCallProofs ---------------------------
(***************************************************************************)
(* That a call gives back what it takes, tells its caller what went wrong, *)
(* and answers its rows as the executor expects: for every driver that     *)
(* comes to an end and, where it tells something, that tells it as the     *)
(* drivers of pickDeliver do; and for every number of rows.                *)
(***************************************************************************)
EXTENDS DriverCall, TLAPS

\* A driver that counts its rows has copied them, or there are none.
RowsAreThere ==
  CountsItsRows => copied = count /\ tuples = IF count = 0 THEN "null" ELSE "rows"

\* What ResourcesAreReturned needs from the earlier steps: the rows of a driver
\* that goes on, or returns without an error, are there and not freed; a driver
\* that has copied them is in its last stage; the handler alone leaves a pointer
\* to rows together with an error, and has freed them; and SPI is open until
\* the report.
ResourcesInv ==
  /\ pc \in {"called", "driver"} => RowsAreThere /\ freed = 0
  /\ pc \in {"called", "driver"} => tuples = "null" \/ (tuples = "rows" /\ at = Len(fn.driver))
  /\ pc \in {"returned", "report"} /\ err = NULL => RowsAreThere /\ freed = 0
  /\ pc = "returned" /\ err # NULL =>
       \/ tuples = "null" /\ freed = 0
       \/ tuples = "dangling" /\ freed = 1
  /\ pc \in {"driver", "returned", "report"} => spi
  /\ pc \notin {"answering", "done"} => answered = 0
  /\ pc \in {"answering", "done"} => answered <= count

IInv == ResourcesAreReturned /\ ResourcesInv

\* A hint is the query of an earlier stage, and no stage after it forgets it.
HintIsKept ==
  /\ pc = "called" => hint = NULL
  /\ pc = "driver" /\ hint # NULL =>
       \E j \in 1..(at - 1) :
         /\ fn.driver[j].kind = "query"
         /\ \A k \in (j + 1)..(at - 1) : fn.driver[k].kind # "forget"

\* The messages of a driver that has returned, before they are reported.
LogNamesTheQuery ==
  pc \in {"returned", "report"} =>
    /\ log \in Queries(fn) => Stage.kind = "query" /\ Stage.name = log
    /\ notice # NULL \/ err # NULL => log # NULL

\* A driver that returns before its last stage has something to say.
EarlyReturnIsTold ==
  /\ pc \in {"returned", "report"} /\ Stage.kind # "finish" => notice # NULL \/ err # NULL
  /\ pc \in {"answering", "done"} /\ Stage.kind # "finish" => Shown("NOTICE") # {}

NothingReported == pc \in {"called", "driver", "returned", "report"} => reports = <<>>
NothingTold == pc \in {"called", "driver"} => log = NULL /\ notice = NULL /\ err = NULL

TellInv ==
  /\ NothingReported /\ NothingTold /\ EarlyReturnIsTold
  /\ fn.name # "vroom" => HintIsKept /\ LogNamesTheQuery

-----------------------------------------------------------------------------
(* The steps, for the proofs.                                              *)

\* The messages of a driver that returns at its present stage.
MessagesTell(n, e, l) ==
  /\ Stage.kind # "finish" => n # NULL \/ e # NULL
  /\ fn.name # "vroom" =>
       /\ l \in Queries(fn) => Stage.kind = "query" /\ Stage.name = l
       /\ n # NULL \/ e # NULL => l # NULL

\* A stage of the driver: what a step of any kind of stage but the copy of the
\* rows may do.
StageStep ==
  /\ pc = "driver"
  /\ \/ /\ Stage.kind \notin {"forget", "finish"} /\ Advance
        /\ UNCHANGED <<empties, hint>>
     \/ /\ Stage.kind = "query" /\ Advance
        /\ hint' \in {Stage.name, NULL}
        /\ empties' \in {empties, empties \cup {Stage.name}}
     \/ /\ Stage.kind = "forget" /\ Advance
        /\ hint' = NULL /\ UNCHANGED empties
     \/ \E n, e, l : /\ Return(n, e, l) /\ MessagesTell(n, e, l)
                     /\ Stage.kind = "finish" => e = NULL

\* What DriversTell says of the stage of a driver.
LEMMA StageTells ==
  ASSUME TypeOK, fn.name # "vroom"
  PROVE  /\ nulls = {}
         /\ {NULL, "log", "expected value", "its second"} \cap Queries(fn) = {}
         /\ Stage.kind \notin {"notnull", "somedata"}
         /\ Stage.kind = "verify" => Stage.log = "log"
         /\ Stage.kind = "rows" => Stage.told = NULL
         /\ Stage.kind = "finish" => Stage.logs \subseteq {"log", NULL}
         /\ Stage.kind = "query" => Stage.name \in Queries(fn)
<1>1. fn \in Functions /\ at \in DOMAIN fn.driver /\ nulls \in fn.nulls
  BY DEF TypeOK
<1>2. Stage.kind = "query" => Stage.name \in Queries(fn)
  BY <1>1 DEF Stage, Queries
<1>3. fn.nulls = {{}}
  BY <1>1, DriversTell
<1>4. QED
  BY <1>1, <1>2, <1>3, DriversTell DEF Stage

\* What the stages before the copy of the rows have in common.
LEMMA StepsOfStages ==
  ASSUME TypeOK,
         CheckParameter \/ CheckNotNull \/ ReadQuery \/ CheckSomeData \/ ForgetHint
           \/ VerifyData \/ Compute \/ Conclude
  PROVE  StageStep
<1>1. CASE CheckParameter
  <2>1. CASE value' \in Stage.legal
    BY <1>1, <2>1 DEF CheckParameter, StageStep
  <2>2. CASE value' \notin Stage.legal
    <3>1. /\ MessagesTell(NULL, "illegal value", "expected value")
          /\ MessagesTell("illegal value", NULL, "expected value")
      BY <1>1, StageTells DEF CheckParameter, MessagesTell, NULL
    <3>2. QED
      BY <1>1, <2>2, <3>1 DEF CheckParameter, StageStep
  <2>3. QED
    BY <2>1, <2>2
<1>2. CASE CheckNotNull
  <2>1. MessagesTell(NULL, "must not be NULL", NULL)
    BY <1>2, StageTells DEF CheckNotNull, MessagesTell, NULL
  <2>2. QED
    BY <1>2, <2>1 DEF CheckNotNull, StageStep
<1>3. CASE ReadQuery
  <2>1. Told(Stage.name) \in {Stage.name, NULL}
    BY DEF Told
  <2>2. MessagesTell("insufficient data", NULL, Told(Stage.name))
    <3>1. Stage.kind = "query"
      BY <1>3 DEF ReadQuery
    <3>2. ASSUME fn.name # "vroom"
          PROVE  Told(Stage.name) = Stage.name /\ Stage.name # NULL
      BY <3>1, <3>2, StageTells DEF Told
    <3>3. QED
      BY <3>1, <3>2 DEF MessagesTell, NULL
  <2>3. QED
    BY <1>3, <2>1, <2>2 DEF ReadQuery, StageStep
<1>4. CASE CheckSomeData
  <2>1. \A l : MessagesTell("insufficient data", NULL, l)
    BY <1>4, StageTells DEF CheckSomeData, MessagesTell, NULL
  <2>2. QED
    BY <1>4, <2>1 DEF CheckSomeData, StageStep
<1>5. CASE ForgetHint
  BY <1>5 DEF ForgetHint, StageStep
<1>6. CASE VerifyData
  <2>1. MessagesTell(NULL, "verification", Stage.log)
    BY <1>6, StageTells DEF VerifyData, MessagesTell, NULL
  <2>2. QED
    BY <1>6, <2>1 DEF VerifyData, StageStep
<1>7. CASE Compute
  BY <1>7 DEF Compute, StageStep
<1>8. CASE Conclude
  <2>1. \A l \in Stage.logs : MessagesTell(NULL, NULL, l)
    BY <1>8, StageTells DEF Conclude, MessagesTell, NULL
  <2>2. QED
    BY <1>8, <2>1 DEF Conclude, StageStep
<1>9. QED
  BY <1>1, <1>2, <1>3, <1>4, <1>5, <1>6, <1>7, <1>8

\* A stage that is not the last one has a next one.
LEMMA NextStage ==
  ASSUME fn \in Functions, at \in DOMAIN fn.driver, Stage.kind # "finish"
  PROVE  at \in Nat \ {0} /\ at + 1 \in DOMAIN fn.driver
<1>1. /\ Len(fn.driver) \in Nat /\ DOMAIN fn.driver = 1..Len(fn.driver)
      /\ fn.driver[Len(fn.driver)].kind = "finish"
  BY DriversFinish
<1>2. at # Len(fn.driver)
  BY <1>1 DEF Stage
<1>3. QED
  BY <1>1, <1>2

-----------------------------------------------------------------------------
(* What a call takes is given back.                                        *)

\* Before the call nothing is connected or allocated.
LEMMA InitResources == Init => IInv
<1> SUFFICES ASSUME Init PROVE IInv
  OBVIOUS
<1>1. fn \in Functions /\ 1 \in DOMAIN fn.driver
  BY DriversFinish DEF Init
<1>2. TypeOK
  <2>1. spi \in BOOLEAN
    BY DEF Init
  <2>2. 0 \in 0..MaxRows
    BY DriverCallAssumption
  <2>3. QED
    BY <1>1, <2>1, <2>2 DEF Init, TypeOK
<1>3. AnswersLiveRows /\ FreedByLateErrors /\ ConnectionIsClosed
  BY DEF Init, AnswersLiveRows, FreedByLateErrors, ConnectionIsClosed
<1>4. ResourcesInv
  <2>1. RowsAreThere
    BY DEF Init, RowsAreThere
  <2>2. QED
    BY <2>1 DEF Init, ResourcesInv, NULL
<1>5. QED
  BY <1>2, <1>3, <1>4 DEF IInv, ResourcesAreReturned

\* A stage allocates nothing and keeps the connection.
LEMMA StageResources ==
  ASSUME IInv, StageStep
  PROVE  IInv'
<1> USE DEF IInv, ResourcesAreReturned
<1>1. fn \in Functions /\ nulls \in fn.nulls /\ UNCHANGED <<fn, nulls>> /\ pc = "driver"
  BY DEF TypeOK, StageStep, Advance, Return, call
<1>2. Stage.kind = "query" => Stage.name \in Queries(fn)
  BY DEF TypeOK, Stage, Queries
<1>3. at' \in DOMAIN fn.driver /\ empties' \subseteq Queries(fn) /\ hint' \in Queries(fn) \cup {NULL}
  <2>1. CASE Advance /\ Stage.kind # "finish"
    BY <1>1, <1>2, <2>1, NextStage DEF StageStep, TypeOK, Advance, Return
  <2>2. CASE \E n, e, l : Return(n, e, l)
    BY <2>2 DEF TypeOK, Return
  <2>3. QED
    BY <2>1, <2>2 DEF StageStep
<1>4. UNCHANGED <<tuples, copied, freed, count, spi, reports, answered>>
  BY <1>1 DEF StageStep, Advance, Return, result, session
<1>5. /\ tuples \in {"null", "rows", "dangling"} /\ count \in 0..MaxRows /\ copied \in 0..MaxRows
      /\ spi /\ answered = 0 /\ freed = 0 /\ RowsAreThere
      /\ tuples = "null" \/ (tuples = "rows" /\ Stage.kind = "finish")
  BY <1>1, DriversFinish DEF TypeOK, ResourcesInv, Stage
<1>6. \/ pc' = "driver" /\ tuples = "null"
      \/ pc' = "returned" /\ (err' # NULL => tuples = "null")
  <2>1. CASE Advance /\ Stage.kind # "finish"
    BY <1>1, <1>5, <2>1 DEF Advance
  <2>2. CASE \E n, e, l : Return(n, e, l) /\ (Stage.kind = "finish" => e = NULL)
    BY <1>5, <2>2 DEF Return
  <2>3. QED
    BY <2>1, <2>2 DEF StageStep
<1>7. TypeOK'
  BY <1>1, <1>3, <1>4, <1>5, <1>6, DriverCallAssumption DEF TypeOK, Queries
<1>8. AnswersLiveRows' /\ FreedByLateErrors' /\ ConnectionIsClosed'
  BY <1>4, <1>5, <1>6 DEF AnswersLiveRows, FreedByLateErrors, ConnectionIsClosed
<1>9. RowsAreThere'
  BY <1>1, <1>4, <1>5 DEF RowsAreThere, CountsItsRows
<1>10. ResourcesInv'
  BY <1>4, <1>5, <1>6, <1>9 DEF ResourcesInv
<1>11. QED
  BY <1>7, <1>8, <1>10

\* The stage that copies the rows is the last one but one.
LEMMA CopyIsLate ==
  ASSUME TypeOK, Stage.kind \in {"rows", "stops"}
  PROVE  at + 1 \in DOMAIN fn.driver /\ at + 1 = Len(fn.driver)
  BY NextStage, DriversFinish DEF TypeOK, Stage

\* A copy of rows that are there, or the message that there are none.
LEMMA CopyRowsResources ==
  ASSUME IInv, CopyRows \/ CopyStops
  PROVE  IInv'
<1> USE DEF IInv, ResourcesAreReturned
<1>1. /\ pc = "driver" /\ spi /\ answered = 0 /\ freed = 0
      /\ Stage.kind \in {"rows", "stops"}
      /\ UNCHANGED <<fn, nulls, empties, hint, freed, spi, reports, answered>>
  BY DEF CopyRows, CopyStops, Return, ResourcesInv, TypeOK, call, session, result
<1>2. at + 1 \in DOMAIN fn.driver /\ at + 1 = Len(fn.driver)
  BY <1>1, CopyIsLate
<1>3. \/ pc' = "returned" /\ err' = NULL /\ UNCHANGED <<at, tuples, copied, count>>
      \/ /\ pc' = "driver" /\ at' = at + 1 /\ count' \in 0..MaxRows /\ copied' \in 0..MaxRows
         /\ tuples' \in {"null", "rows"}
         /\ \/ copied' = count' /\ tuples' = IF count' > 0 THEN "rows" ELSE "null"
            \/ Stage.kind = "stops"
  BY DriverCallAssumption DEF CopyRows, CopyStops, Return, result, call, session
<1>4. RowsAreThere' /\ count' \in 0..MaxRows /\ copied' \in 0..MaxRows
  <2>1. CountsItsRows' = CountsItsRows
    BY <1>1 DEF CountsItsRows
  <2>2. Stage.kind = "stops" => ~CountsItsRows
    BY DEF TypeOK, Stage, CountsItsRows
  <2>3. count' \in 0..MaxRows /\ copied' \in 0..MaxRows
    BY <1>3 DEF TypeOK
  <2>4. CASE UNCHANGED <<tuples, copied, count>>
    BY <1>1, <2>1, <2>3, <2>4 DEF ResourcesInv, RowsAreThere
  <2>5. CASE copied' = count' /\ tuples' = IF count' > 0 THEN "rows" ELSE "null"
    BY <2>3, <2>5, DriverCallAssumption DEF RowsAreThere
  <2>6. CASE Stage.kind = "stops"
    BY <2>1, <2>2, <2>3, <2>6 DEF RowsAreThere
  <2>7. QED
    BY <1>3, <2>4, <2>5, <2>6
<1>5. TypeOK'
  BY <1>1, <1>2, <1>3, <1>4 DEF TypeOK, Queries
<1>6. AnswersLiveRows' /\ FreedByLateErrors' /\ ConnectionIsClosed'
  BY <1>1, <1>3 DEF AnswersLiveRows, FreedByLateErrors, ConnectionIsClosed
<1>7. ResourcesInv'
  BY <1>1, <1>2, <1>3, <1>4 DEF ResourcesInv
<1>8. QED
  BY <1>5, <1>6, <1>7

\* A handler frees the rows that were copied, and leaves the pointer.
LEMMA CatchResources ==
  ASSUME IInv, Catch
  PROVE  IInv'
<1> USE DEF IInv, ResourcesAreReturned
<1>1. /\ pc = "driver" /\ pc' = "returned" /\ spi /\ answered = 0 /\ freed = 0
      /\ err' = "exception" /\ err' # NULL /\ count' = 0
      /\ UNCHANGED <<fn, nulls, at, empties, copied, spi, reports, answered>>
  BY DEF Catch, ResourcesInv, TypeOK, call, session, NULL
<1>2. \/ tuples' = "null" /\ freed' = 0
      \/ tuples' = "dangling" /\ freed' = 1 /\ at' = Len(fn.driver)
  <2>1. IF tuples = "rows" THEN tuples' = "dangling" /\ freed' = freed + 1
        ELSE tuples' = tuples /\ freed' = freed
    BY DEF Catch
  <2>2. tuples = "null" \/ (tuples = "rows" /\ at = Len(fn.driver))
    BY <1>1 DEF ResourcesInv
  <2>3. QED
    BY <1>1, <2>1, <2>2
<1>3. hint' \in Queries(fn) \cup {NULL}
  <2>1. hint' = IF Stage.kind = "query" THEN Stage.name ELSE hint
    BY DEF Catch
  <2>2. Stage.kind = "query" => Stage.name \in Queries(fn)
    BY DEF TypeOK, Stage, Queries
  <2>3. hint \in Queries(fn) \cup {NULL}
    BY DEF TypeOK
  <2>4. QED
    BY <2>1, <2>2, <2>3
<1>4. 0 \in 0..MaxRows
  BY DriverCallAssumption
<1>5. TypeOK'
  BY <1>1, <1>2, <1>3, <1>4 DEF TypeOK, Queries
<1>6. AnswersLiveRows' /\ FreedByLateErrors' /\ ConnectionIsClosed'
  BY <1>1, <1>2 DEF AnswersLiveRows, FreedByLateErrors, ConnectionIsClosed
<1>7. ResourcesInv'
  BY <1>1, <1>2 DEF ResourcesInv
<1>8. QED
  BY <1>5, <1>6, <1>7

\* What is said of the rows when the function and the rows stay.
LEMMA RowsStay ==
  ASSUME UNCHANGED <<fn, tuples, copied, count>>
  PROVE  CountsItsRows' = CountsItsRows /\ RowsAreThere' = RowsAreThere
  BY DEF CountsItsRows, RowsAreThere

\* process(): what an error leaves is freed, and the report closes SPI.
LEMMA ProcessResources ==
  ASSUME IInv, Connect \/ Interrupt \/ Release \/ vrp_global_report
  PROVE  IInv'
<1> USE DEF IInv, ResourcesAreReturned
<1>1. CASE Connect
  <2>1. /\ UNCHANGED <<fn, nulls, at, empties, hint, tuples, copied, freed, count, answered>>
        /\ pc = "called" /\ pc' = "driver" /\ spi' /\ spi' \in BOOLEAN
    BY <1>1 DEF Connect, call, result
  <2>2. TypeOK'
    BY <2>1 DEF TypeOK, Queries
  <2>3. FreedByLateErrors' /\ RowsAreThere'
    BY <2>1, RowsStay DEF ResourcesInv, FreedByLateErrors
  <2>4. QED
    BY <2>1, <2>2, <2>3 DEF ResourcesInv, AnswersLiveRows, ConnectionIsClosed
<1>2. CASE Interrupt
  <2>1. /\ UNCHANGED <<fn, nulls, at, empties, hint, tuples, copied, freed, count, answered>>
        /\ pc = "driver" /\ pc' = "failed" /\ ~spi' /\ spi' \in BOOLEAN
    BY <1>2 DEF Interrupt, call, result
  <2>2. TypeOK'
    BY <2>1 DEF TypeOK, Queries
  <2>3. FreedByLateErrors'
    BY <2>1 DEF ResourcesInv, FreedByLateErrors
  <2>4. QED
    BY <2>1, <2>2, <2>3 DEF ResourcesInv, AnswersLiveRows, ConnectionIsClosed
<1>3. CASE Release
  <2>1. /\ UNCHANGED <<fn, nulls, at, empties, hint, err, copied, answered, spi>>
        /\ pc = "returned" /\ pc' = "report" /\ spi /\ answered = 0
    BY <1>3 DEF Release, call, messages, session, result, ResourcesInv
  <2>2. \/ err = NULL /\ RowsAreThere /\ freed = 0 /\ UNCHANGED <<tuples, freed, count>>
        \/ err # NULL /\ freed = 0 /\ UNCHANGED <<tuples, freed, count>>
        \/ err # NULL /\ freed = 1 /\ freed' = 2 /\ tuples' = "null" /\ count' = 0
    BY <1>3, <2>1 DEF Release, ResourcesInv, result
  <2>3. tuples' \in {"null", "rows", "dangling"} /\ count' \in 0..MaxRows /\ freed' \in {0, 2}
    BY <2>2, DriverCallAssumption DEF TypeOK
  <2>4. TypeOK'
    BY <2>1, <2>3 DEF TypeOK, Queries
  <2>5. FreedByLateErrors'
    BY <2>1, <2>2 DEF FreedByLateErrors
  <2>6. err' = NULL => RowsAreThere' /\ freed' = 0
    BY <2>1, <2>2, RowsStay
  <2>7. QED
    BY <2>1, <2>4, <2>5, <2>6 DEF ResourcesInv, AnswersLiveRows, ConnectionIsClosed
<1>4. CASE vrp_global_report
  <2>1. /\ UNCHANGED <<fn, nulls, at, empties, hint, err, tuples, copied, freed, count, answered>>
        /\ pc = "report" /\ ~spi' /\ spi' \in BOOLEAN /\ answered = 0
        /\ pc' = IF err # NULL THEN "failed" ELSE "answering"
    BY <1>4 DEF vrp_global_report, call, result, ResourcesInv
  <2>2. TypeOK'
    BY <2>1 DEF TypeOK, Queries
  <2>3. FreedByLateErrors'
    BY <2>1 DEF FreedByLateErrors
  <2>4. AnswersLiveRows'
    BY <2>1, RowsStay DEF ResourcesInv, RowsAreThere, AnswersLiveRows
  <2>5. QED
    BY <2>1, <2>2, <2>3, <2>4 DEF TypeOK, ResourcesInv, ConnectionIsClosed
<1>5. QED
  BY <1>1, <1>2, <1>3, <1>4

\* The rows are answered, or nothing changes.
LEMMA AnswerResources ==
  ASSUME IInv, Answer \/ Done \/ Terminated \/ UNCHANGED vars
  PROVE  IInv'
<1> USE DEF IInv, ResourcesAreReturned
<1>1. CASE Answer \/ Done
  <2>1. /\ UNCHANGED <<fn, nulls, at, empties, hint, err, tuples, copied, freed, count, spi>>
        /\ pc = "answering" /\ pc' \in {"answering", "done"}
        /\ answered' \in {answered, answered + 1} /\ answered' <= count
    BY <1>1 DEF Answer, Done, call, result, messages, session, TypeOK, ResourcesInv
  <2>2. TypeOK'
    BY <2>1, DriverCallAssumption DEF TypeOK, Queries
  <2>3. FreedByLateErrors' /\ AnswersLiveRows' /\ ConnectionIsClosed'
    BY <2>1, RowsStay DEF FreedByLateErrors, AnswersLiveRows, ConnectionIsClosed
  <2>4. QED
    BY <2>1, <2>2, <2>3 DEF ResourcesInv
<1>2. CASE Terminated \/ UNCHANGED vars
  <2>1. UNCHANGED vars
    BY <1>2 DEF Terminated
  <2>2. TypeOK' /\ ConnectionIsClosed'
    BY <2>1 DEF vars, TypeOK, Queries, ConnectionIsClosed
  <2>3. FreedByLateErrors' /\ AnswersLiveRows'
    BY <2>1, RowsStay DEF vars, FreedByLateErrors, AnswersLiveRows
  <2>4. ResourcesInv'
    BY <2>1, RowsStay DEF vars, ResourcesInv
  <2>5. QED
    BY <2>2, <2>3, <2>4
<1>3. QED
  BY <1>1, <1>2

\* The invariant of the resources is inductive.
LEMMA NextResources == IInv /\ [Next]_vars => IInv'
<1> SUFFICES ASSUME IInv, [Next]_vars PROVE IInv'
  OBVIOUS
<1>1. CASE CheckParameter \/ CheckNotNull \/ ReadQuery \/ CheckSomeData \/ ForgetHint
             \/ VerifyData \/ Compute \/ Conclude
  BY <1>1, StepsOfStages, StageResources DEF IInv, ResourcesAreReturned
<1>2. CASE CopyRows \/ CopyStops
  BY <1>2, CopyRowsResources
<1>3. CASE Catch
  BY <1>3, CatchResources
<1>4. CASE Connect \/ Interrupt \/ Release \/ vrp_global_report
  BY <1>4, ProcessResources
<1>5. CASE Answer \/ Done \/ Terminated \/ UNCHANGED vars
  BY <1>5, AnswerResources
<1>6. QED
  BY <1>1, <1>2, <1>3, <1>4, <1>5 DEF Next

\* The rows that a call answers have not been freed, and are there if its
\* driver counts them; rows are freed only by an exception of the last stage
\* (return_tuples: free in the driver and pfree in process(), one after the
\* other); and SPI is connected and finished on every path.
THEOREM ResourcesReturned == Spec => []ResourcesAreReturned
<1>1. Init => IInv
  BY InitResources
<1>2. IInv /\ [Next]_vars => IInv'
  BY NextResources
<1>3. IInv => ResourcesAreReturned
  BY DEF IInv
<1>4. QED
  BY <1>1, <1>2, <1>3, PTL DEF Spec

-----------------------------------------------------------------------------
(* The caller is told what went wrong, and where.                          *)

TellsInv == IInv /\ TellInv /\ CallerIsTold

\* Nothing has been shown before the report.
LEMMA NothingIsShown ==
  ASSUME reports = <<>>
  PROVE  \A kind : Shown(kind) = {}
  BY DEF Shown

\* Before the call there is nothing to tell.
LEMMA InitTells == Init => TellsInv
<1> SUFFICES ASSUME Init PROVE TellsInv
  OBVIOUS
<1>1. TellInv
  BY DEF Init, TellInv, NothingReported, NothingTold, EarlyReturnIsTold, HintIsKept,
         LogNamesTheQuery
<1>2. CallerIsTold
  BY NothingIsShown DEF Init, CallerIsTold, HintNamesTheQuery, EmptyAnswersAreExplained
<1>3. QED
  BY <1>1, <1>2, InitResources DEF TellsInv

\* An earlier query is still the one the hint names after one more stage.
LEMMA AdvanceKeepsHint ==
  ASSUME HintIsKept, pc = "driver", pc' = "driver", at \in Nat \ {0}, at' = at + 1, UNCHANGED fn,
         \/ hint' = hint /\ Stage.kind # "forget"
         \/ hint' \in {Stage.name, NULL} /\ Stage.kind = "query"
         \/ hint' = NULL
  PROVE  HintIsKept'
<1> SUFFICES ASSUME hint' # NULL
             PROVE  \E j \in 1..(at' - 1) :
                      /\ fn.driver[j].kind = "query"
                      /\ \A k \in (j + 1)..(at' - 1) : fn.driver[k].kind # "forget"
  BY DEF HintIsKept
<1>1. CASE hint' = hint /\ Stage.kind # "forget"
  <2>1. PICK j \in 1..(at - 1) :
          /\ fn.driver[j].kind = "query"
          /\ \A k \in (j + 1)..(at - 1) : fn.driver[k].kind # "forget"
    BY <1>1 DEF HintIsKept
  <2>2. \A k \in (j + 1)..(at' - 1) : k \in (j + 1)..(at - 1) \/ k = at
    OBVIOUS
  <2>3. \A k \in (j + 1)..(at' - 1) : fn.driver[k].kind # "forget"
    BY <1>1, <2>1, <2>2 DEF Stage
  <2>4. j \in 1..(at' - 1)
    OBVIOUS
  <2>5. QED
    BY <2>1, <2>3, <2>4
<1>2. CASE Stage.kind = "query"
  <2>1. \A k \in (at + 1)..(at' - 1) : FALSE
    OBVIOUS
  <2>2. at \in 1..(at' - 1)
    OBVIOUS
  <2>3. QED
    BY <1>2, <2>1, <2>2 DEF Stage
<1>3. QED
  BY <1>1, <1>2

\* A step inside the driver reports nothing; it goes on, or returns with
\* messages that tell.
LEMMA DriverStepTells ==
  ASSUME TellsInv, pc = "driver", UNCHANGED <<fn, reports>>,
         \/ /\ pc' = "driver" /\ UNCHANGED messages
            /\ fn.name # "vroom" => HintIsKept'
         \/ pc' = "returned" /\ at' = at /\ MessagesTell(notice', err', log')
  PROVE  TellInv' /\ CallerIsTold'
<1>1. reports = <<>> /\ reports' = <<>>
  BY DEF TellsInv, TellInv, NothingReported
<1>2. CallerIsTold'
  <2>1. Shown("ERROR")' = {} /\ Shown("NOTICE")' = {}
    BY <1>1 DEF Shown
  <2>2. QED
    BY <2>1 DEF CallerIsTold, HintNamesTheQuery, EmptyAnswersAreExplained
<1>3. CASE pc' = "driver"
  <2>1. NothingReported' /\ NothingTold' /\ EarlyReturnIsTold'
    BY <1>1, <1>3
       DEF TellsInv, TellInv, NothingReported, NothingTold, EarlyReturnIsTold, messages
  <2>2. fn'.name # "vroom" => HintIsKept' /\ LogNamesTheQuery'
    BY <1>3 DEF LogNamesTheQuery
  <2>3. QED
    BY <1>2, <2>1, <2>2 DEF TellInv
<1>4. CASE pc' = "returned"
  <2>1. Stage' = Stage /\ Queries(fn)' = Queries(fn)
    BY <1>4 DEF Stage, Queries
  <2>2. MessagesTell(notice', err', log')
    BY <1>4
  <2>3. NothingReported' /\ NothingTold' /\ EarlyReturnIsTold'
    BY <1>1, <1>4, <2>1, <2>2
       DEF NothingReported, NothingTold, EarlyReturnIsTold, MessagesTell
  <2>4. fn'.name # "vroom" => HintIsKept' /\ LogNamesTheQuery'
    BY <1>4, <2>1, <2>2 DEF HintIsKept, LogNamesTheQuery, MessagesTell
  <2>5. QED
    BY <1>2, <2>3, <2>4 DEF TellInv
<1>5. QED
  BY <1>3, <1>4

\* A stage that fails says why, and names a query only while it is read.
LEMMA StageTold ==
  ASSUME TellsInv, StageStep
  PROVE  TellInv' /\ CallerIsTold'
<1>1. pc = "driver" /\ UNCHANGED <<fn, reports>>
  BY DEF StageStep, Advance, Return, call, session
<1>2. fn \in Functions /\ at \in DOMAIN fn.driver
  BY DEF TellsInv, IInv, ResourcesAreReturned, TypeOK
<1>3. CASE Advance /\ \/ UNCHANGED hint /\ Stage.kind \notin {"forget", "finish"}
                      \/ hint' \in {Stage.name, NULL} /\ Stage.kind = "query"
                      \/ hint' = NULL /\ Stage.kind = "forget"
  <2>1. at \in Nat \ {0} /\ at' = at + 1 /\ pc' = "driver" /\ UNCHANGED messages
    BY <1>1, <1>2, <1>3, NextStage DEF Advance
  <2>2. fn.name # "vroom" => HintIsKept'
    BY <1>1, <1>3, <2>1, AdvanceKeepsHint DEF TellsInv, TellInv
  <2>3. QED
    BY <1>1, <2>1, <2>2, DriverStepTells
<1>4. CASE \E n, e, l : Return(n, e, l) /\ MessagesTell(n, e, l)
  <2>1. pc' = "returned" /\ at' = at /\ MessagesTell(notice', err', log')
    BY <1>4 DEF Return
  <2>2. QED
    BY <1>1, <2>1, DriverStepTells
<1>5. QED
  BY <1>3, <1>4 DEF StageStep

\* The rows are copied when there are some, or a notice says why not.
LEMMA CopyRowsTold ==
  ASSUME TellsInv, CopyRows \/ CopyStops
  PROVE  TellInv' /\ CallerIsTold'
<1>1. /\ pc = "driver" /\ Stage.kind \in {"rows", "stops"} /\ UNCHANGED <<fn, reports>>
      /\ TypeOK
  BY DEF CopyRows, CopyStops, Return, call, session, TellsInv, IInv, ResourcesAreReturned
<1>2. CASE pc' = "driver" /\ at' = at + 1 /\ UNCHANGED <<hint, messages>>
  <2>1. at \in Nat \ {0}
    BY <1>1, NextStage DEF TypeOK
  <2>2. fn.name # "vroom" => HintIsKept'
    BY <1>1, <1>2, <2>1, AdvanceKeepsHint DEF TellsInv, TellInv
  <2>3. QED
    BY <1>1, <1>2, <2>2, DriverStepTells
<1>3. CASE Stage.kind = "rows" /\ Stage.told # NULL /\ Return(Stage.told, NULL, NULL)
  <2>1. MessagesTell(Stage.told, NULL, NULL)
    BY <1>1, <1>3, StageTells DEF MessagesTell
  <2>2. pc' = "returned" /\ at' = at /\ MessagesTell(notice', err', log')
    BY <1>3, <2>1 DEF Return
  <2>3. QED
    BY <1>1, <2>2, DriverStepTells
<1>4. QED
  BY <1>1, <1>2, <1>3 DEF CopyRows, CopyStops, messages

\* Where the processing can raise, the hint has been forgotten.
LEMMA CatchTold ==
  ASSUME TellsInv, Catch
  PROVE  TellInv' /\ CallerIsTold'
<1> DEFINE reading == IF Stage.kind = "query" THEN Stage.name ELSE hint
<1>1. PICK exception \in Raised :
        log' = CASE exception = "string" /\ reading # NULL -> reading
                 [] exception = "pair of strings" -> "its second"
                 [] OTHER -> "log"
  BY DEF Catch
<1>2. /\ pc = "driver" /\ pc' = "returned" /\ at' = at /\ UNCHANGED <<fn, reports>>
      /\ err' = "exception"
  BY DEF Catch, call, session
<1>3. TypeOK
  BY DEF TellsInv, IInv, ResourcesAreReturned
<1>4. log' \in {"its second", "log"} \/ (log' = reading /\ reading # NULL /\ exception = "string")
  BY <1>1
<1>5. Stage.kind \in {"query", "work"} \/ (Stage.kind = "finish" /\ exception = "std::exception")
  BY DEF Raised
<1>6. ASSUME fn.name # "vroom", Stage.kind = "work"
      PROVE  hint = NULL
  <2>1. SUFFICES ASSUME hint # NULL PROVE FALSE
    OBVIOUS
  <2>2. PICK j \in 1..(at - 1) :
          /\ fn.driver[j].kind = "query"
          /\ \A k \in (j + 1)..(at - 1) : fn.driver[k].kind # "forget"
    BY <1>2, <1>6, <2>1 DEF TellsInv, TellInv, HintIsKept
  <2>3. fn \in Functions /\ at \in DOMAIN fn.driver
    BY <1>3 DEF TypeOK
  <2>4. \E k \in (j + 1)..(at - 1) : fn.driver[k].kind = "forget"
    BY <1>6, <2>2, <2>3, DriversTell DEF Stage
  <2>5. QED
    BY <2>2, <2>4
<1>7. MessagesTell(notice', err', log')
  <2>1. err' # NULL
    BY <1>2 DEF NULL
  <2>2. ASSUME fn.name # "vroom"
        PROVE  /\ log' \in Queries(fn) => Stage.kind = "query" /\ Stage.name = log'
               /\ log' # NULL
    <3>1. CASE log' \in {"its second", "log"}
      BY <1>3, <2>2, <3>1, StageTells DEF NULL
    <3>2. CASE log' = reading /\ reading # NULL /\ exception = "string"
      BY <1>5, <1>6, <2>2, <3>2
    <3>3. QED
      BY <1>4, <3>1, <3>2
  <2>3. QED
    BY <2>1, <2>2 DEF MessagesTell
<1>8. QED
  BY <1>2, <1>7, DriverStepTells

\* Three reports, each of them made or not, one after the other.
LEMMA OneReportAfterAnother ==
  ASSUME NEW a, NEW b, NEW c,
         NEW s \in {<<>>, <<a>>}, NEW t \in {<<>>, <<b>>}, NEW u \in {<<>>, <<c>>},
         NEW r, r = <<>> \o s \o t \o u
  PROVE  /\ \A i \in DOMAIN r :
              (r[i] = a /\ s = <<a>>) \/ (r[i] = b /\ t = <<b>>) \/ (r[i] = c /\ u = <<c>>)
         /\ t = <<b>> => \E i \in DOMAIN r : r[i] = b
<1> DEFINE S == {a, b, c}
<1>1. s \in Seq(S) /\ t \in Seq(S) /\ u \in Seq(S) /\ <<>> \in Seq(S)
  <2>1. <<>> \in Seq(S) /\ <<a>> \in Seq(S) /\ <<b>> \in Seq(S) /\ <<c>> \in Seq(S)
    OBVIOUS
  <2>2. QED
    BY <2>1
<1>2. /\ Len(s) \in 0..1 /\ (Len(s) = 1 => s[1] = a /\ s = <<a>>)
      /\ Len(t) \in 0..1 /\ (Len(t) = 1 => t[1] = b /\ t = <<b>>)
      /\ Len(u) \in 0..1 /\ (Len(u) = 1 => u[1] = c /\ u = <<c>>)
      /\ (t = <<b>> => Len(t) = 1)
  OBVIOUS
<1> HIDE DEF S
<1>3. <<>> \o s = s /\ r = (s \o t) \o u
  BY <1>1
<1>4. /\ s \o t \in Seq(S) /\ Len(s \o t) = Len(s) + Len(t)
      /\ \A i \in 1..Len(s) : (s \o t)[i] = s[i]
      /\ \A i \in 1..Len(t) : (s \o t)[Len(s) + i] = t[i]
  BY <1>1
<1>5. /\ Len(r) = Len(s) + Len(t) + Len(u) /\ DOMAIN r = 1..Len(r)
      /\ \A i \in 1..Len(s \o t) : r[i] = (s \o t)[i]
      /\ \A i \in 1..Len(u) : r[Len(s \o t) + i] = u[i]
  BY <1>1, <1>3, <1>4
<1>6. Len(s) \in 0..1 /\ Len(t) \in 0..1 /\ Len(u) \in 0..1
  BY <1>2
<1>7. ASSUME NEW i \in DOMAIN r
      PROVE  (r[i] = a /\ s = <<a>>) \/ (r[i] = b /\ t = <<b>>) \/ (r[i] = c /\ u = <<c>>)
  <2>1. CASE i \in 1..Len(s)
    <3>1. Len(s) = 1 /\ i = 1
      BY <1>6, <2>1
    <3>2. i \in 1..Len(s \o t)
      BY <1>4, <1>6, <2>1
    <3>3. r[i] = (s \o t)[i] /\ (s \o t)[i] = s[1]
      BY <1>4, <1>5, <2>1, <3>1, <3>2
    <3>4. s[1] = a /\ s = <<a>>
      BY <1>2, <3>1
    <3>5. QED
      BY <3>3, <3>4
  <2>2. CASE i = Len(s) + 1 /\ Len(t) = 1
    <3>1. i \in 1..Len(s \o t) /\ 1 \in 1..Len(t)
      BY <1>4, <1>6, <2>2
    <3>2. r[i] = (s \o t)[i] /\ (s \o t)[i] = t[1]
      BY <1>4, <1>5, <2>2, <3>1
    <3>3. t[1] = b /\ t = <<b>>
      BY <1>2, <2>2
    <3>4. QED
      BY <3>2, <3>3
  <2>3. CASE i = Len(s) + Len(t) + 1 /\ Len(u) = 1
    <3>1. r[i] = u[1]
      BY <1>4, <1>5, <1>6, <2>3
    <3>2. u[1] = c /\ u = <<c>>
      BY <1>2, <2>3
    <3>3. QED
      BY <3>1, <3>2
  <2>4. i \in 1..(Len(s) + Len(t) + Len(u))
    BY <1>5
  <2>5. QED
    BY <1>6, <2>1, <2>2, <2>3, <2>4
<1>8. ASSUME t = <<b>>
      PROVE  \E i \in DOMAIN r : r[i] = b
  <2>1. Len(t) = 1 /\ t[1] = b
    BY <1>2, <1>8
  <2>2. Len(s) + 1 \in 1..Len(s \o t) /\ Len(s) + 1 \in DOMAIN r
    BY <1>4, <1>5, <1>6, <2>1
  <2>3. r[Len(s) + 1] = (s \o t)[Len(s) + 1] /\ (s \o t)[Len(s) + 1] = t[1]
    BY <1>4, <1>5, <2>1, <2>2
  <2>4. QED
    BY <2>1, <2>2, <2>3
<1>9. QED
  BY <1>7, <1>8

\* What the report tells is what the driver has left.
LEMMA ReportTells ==
  ASSUME TellsInv, vrp_global_report
  PROVE  /\ \A i \in DOMAIN reports' :
              \/ reports'[i] = <<"DEBUG1", log, NULL>>
              \/ (reports'[i] = <<"NOTICE", notice, log>> /\ notice # NULL)
              \/ (reports'[i] = <<"ERROR", err, log>> /\ err # NULL)
         /\ notice # NULL => \E i \in DOMAIN reports' : reports'[i] = <<"NOTICE", notice, log>>
<1> DEFINE a == <<"DEBUG1", log, NULL>>
           b == <<"NOTICE", notice, log>>
           c == <<"ERROR", err, log>>
           s == IF notice = NULL /\ log # NULL THEN <<a>> ELSE <<>>
           t == IF notice # NULL THEN <<b>> ELSE <<>>
           u == IF err # NULL THEN <<c>> ELSE <<>>
<1>1. reports = <<>> /\ reports' = reports \o s \o t \o u
  BY DEF vrp_global_report, TellsInv, TellInv, NothingReported
<1>2. /\ s \in {<<>>, <<a>>} /\ t \in {<<>>, <<b>>} /\ u \in {<<>>, <<c>>}
      /\ (t = <<b>> <=> notice # NULL) /\ (u = <<c>> <=> err # NULL)
  <2>1. <<b>> # <<>> /\ <<c>> # <<>>
    OBVIOUS
  <2>2. QED
    BY <2>1
<1> HIDE DEF a, b, c, s, t, u
<1>3. /\ \A i \in DOMAIN reports' :
           (reports'[i] = a /\ s = <<a>>) \/ (reports'[i] = b /\ t = <<b>>)
             \/ (reports'[i] = c /\ u = <<c>>)
      /\ t = <<b>> => \E i \in DOMAIN reports' : reports'[i] = b
  <2>1. reports' = <<>> \o s \o t \o u
    BY <1>1
  <2>2. s \in {<<>>, <<a>>} /\ t \in {<<>>, <<b>>} /\ u \in {<<>>, <<c>>}
    BY <1>2
  <2>3. QED
    BY <2>1, <2>2, OneReportAfterAnother, SMTT(60)
<1>4. QED
  BY <1>2, <1>3 DEF a, b, c

\* What the driver has set is what the caller is told.
LEMMA ReportTold ==
  ASSUME TellsInv, vrp_global_report
  PROVE  TellInv' /\ CallerIsTold'
<1>1. /\ pc = "report" /\ UNCHANGED <<fn, at>>
      /\ pc' = IF err # NULL THEN "failed" ELSE "answering"
      /\ Stage' = Stage /\ Queries(fn)' = Queries(fn)
  BY DEF vrp_global_report, call, Stage, Queries
<1>2. TypeOK
  BY DEF TellsInv, IInv, ResourcesAreReturned
<1>3. ASSUME NEW h \in Shown("ERROR")' \cup Shown("NOTICE")'
      PROVE  h = log /\ (notice # NULL \/ err # NULL)
  <2>1. PICK i \in DOMAIN reports' : h = reports'[i][3] /\ reports'[i][1] \in {"ERROR", "NOTICE"}
    BY <1>3 DEF Shown
  <2>2. reports'[i] # <<"DEBUG1", log, NULL>>
    BY <2>1
  <2>3. QED
    BY <2>1, <2>2, ReportTells
<1>4. notice # NULL => Shown("NOTICE")' # {}
  <2>1. SUFFICES ASSUME notice # NULL PROVE Shown("NOTICE")' # {}
    OBVIOUS
  <2>2. PICK i \in DOMAIN reports' : reports'[i] = <<"NOTICE", notice, log>>
    BY <2>1, ReportTells
  <2>3. reports'[i][1] = "NOTICE"
    BY <2>2
  <2>4. QED
    BY <2>3 DEF Shown
<1>5. HintNamesTheQuery'
  BY <1>1, <1>3 DEF HintNamesTheQuery, TellsInv, TellInv, LogNamesTheQuery
<1>6. EmptyAnswersAreExplained'
  BY <1>1, <1>3 DEF EmptyAnswersAreExplained, TellsInv, TellInv, LogNamesTheQuery
<1>7. TellInv'
  BY <1>1, <1>4 DEF TellsInv, TellInv, NothingReported, NothingTold, EarlyReturnIsTold,
                    HintIsKept, LogNamesTheQuery
<1>8. QED
  BY <1>5, <1>6, <1>7 DEF CallerIsTold

\* The other steps report nothing and leave the messages.
LEMMA OtherStepsTold ==
  ASSUME TellsInv,
         Connect \/ Interrupt \/ Release \/ Answer \/ Done \/ Terminated \/ UNCHANGED vars
  PROVE  TellInv' /\ CallerIsTold'
<1>1. /\ UNCHANGED <<fn, at, hint, log, notice, err, reports>>
      /\ Stage' = Stage /\ Queries(fn)' = Queries(fn)
      /\ Shown("ERROR")' = Shown("ERROR") /\ Shown("NOTICE")' = Shown("NOTICE")
  BY DEF Connect, Interrupt, Release, Answer, Done, Terminated, vars, call, messages, session,
         Stage, Queries, Shown
<1>2. \/ pc = "called" /\ pc' = "driver" /\ UNCHANGED hint
      \/ pc = "driver" /\ pc' = "failed"
      \/ pc = "returned" /\ pc' = "report"
      \/ pc = "answering" /\ pc' = "done"
      \/ pc' = pc
  BY DEF Connect, Interrupt, Release, Answer, Done, Terminated, vars
<1>3. TellInv'
  <2>1. NothingReported' /\ NothingTold' /\ EarlyReturnIsTold'
    BY <1>1, <1>2 DEF TellsInv, TellInv, CallerIsTold, NothingReported, NothingTold,
                      EarlyReturnIsTold
  <2>2. fn'.name # "vroom" => HintIsKept' /\ LogNamesTheQuery'
    BY <1>1, <1>2 DEF TellsInv, TellInv, HintIsKept, LogNamesTheQuery
  <2>3. QED
    BY <2>1, <2>2 DEF TellInv
<1>4. HintNamesTheQuery'
  BY <1>1 DEF TellsInv, CallerIsTold, HintNamesTheQuery
<1>5. EmptyAnswersAreExplained'
  BY <1>1, <1>2 DEF TellsInv, TellInv, CallerIsTold, EarlyReturnIsTold, EmptyAnswersAreExplained
<1>6. QED
  BY <1>3, <1>4, <1>5 DEF CallerIsTold

\* The reports of a call tell what went wrong, and where: an error is never
\* blamed on a query that had been read, no driver returns early without a
\* notice of why, and the functions of pickDeliver give a hint with every message.
THEOREM CallerTold == Spec => []CallerIsTold
<1>1. Init => TellsInv
  BY InitTells
<1>2. TellsInv /\ [Next]_vars => TellsInv'
  <2> SUFFICES ASSUME TellsInv, [Next]_vars PROVE TellsInv'
    OBVIOUS
  <2>1. IInv'
    BY NextResources DEF TellsInv
  <2>2. TellInv' /\ CallerIsTold'
    <3>1. CASE CheckParameter \/ CheckNotNull \/ ReadQuery \/ CheckSomeData \/ ForgetHint
                 \/ VerifyData \/ Compute \/ Conclude
      BY <3>1, StepsOfStages, StageTold DEF TellsInv, IInv, ResourcesAreReturned
    <3>2. CASE CopyRows \/ CopyStops
      BY <3>2, CopyRowsTold
    <3>3. CASE Catch
      BY <3>3, CatchTold
    <3>4. CASE vrp_global_report
      BY <3>4, ReportTold
    <3>5. CASE Connect \/ Interrupt \/ Release \/ Answer \/ Done \/ Terminated
                 \/ UNCHANGED vars
      BY <3>5, OtherStepsTold
    <3>6. QED
      BY <3>1, <3>2, <3>3, <3>4, <3>5 DEF Next
  <2>3. QED
    BY <2>1, <2>2 DEF TellsInv
<1>3. TellsInv => CallerIsTold
  BY DEF TellsInv
<1>4. QED
  BY <1>1, <1>2, <1>3, PTL DEF Spec

-----------------------------------------------------------------------------
(* What the executor sees of a call.                                       *)

\* Until process() has reported, nothing is answered.
LEMMA StepsBeforeTheReport ==
  ASSUME IInv, UNCHANGED answered,
         pc \in {"called", "driver", "returned"}, pc' \in {"driver", "returned", "report", "failed"}
  PROVE  [Called!Next]_(Called!call_vars)
  BY DEF Called!Next, Called!call_vars, Called!Fail

\* A call fails and answers no row, or it answers each of its rows once, in
\* order, and says that it is done: the safety of FunctionCall.
THEOREM CallIsAnswered == Spec => Called!Safety
<1>1. Init => Called!Init
  BY DEF Init, Called!Init
<1>2. IInv /\ [Next]_vars => [Called!Next]_(Called!call_vars)
  <2> SUFFICES ASSUME IInv, [Next]_vars PROVE [Called!Next]_(Called!call_vars)
    OBVIOUS
  <2>1. CASE StageStep
    BY <2>1, StepsBeforeTheReport DEF StageStep, Advance, Return, session
  <2>2. CASE CopyRows \/ CopyStops \/ Catch \/ Connect \/ Interrupt \/ Release
    BY <2>2, StepsBeforeTheReport
       DEF CopyRows, CopyStops, Catch, Connect, Interrupt, Release, Return, session
  <2>3. CASE vrp_global_report
    <3>1. count \in Nat /\ pc = "report" /\ UNCHANGED <<count, answered>>
      BY <2>3, DriverCallAssumption
         DEF IInv, ResourcesAreReturned, TypeOK, vrp_global_report, result
    <3>2. CASE pc' = "failed"
      BY <3>1, <3>2 DEF Called!Next, Called!Fail
    <3>3. CASE pc' = "answering"
      BY <3>1, <3>3 DEF Called!Next, Called!Accept
    <3>4. QED
      BY <2>3, <3>2, <3>3 DEF vrp_global_report
  <2>4. CASE Answer
    BY <2>4 DEF Answer, Called!Next, Called!Answer, result
  <2>5. CASE Done
    BY <2>5 DEF Done, Called!Next, Called!Finish, result, session
  <2>6. CASE Terminated \/ UNCHANGED vars
    BY <2>6 DEF Terminated, vars, Called!call_vars
  <2>7. QED
    BY <2>1, <2>2, <2>3, <2>4, <2>5, <2>6, StepsOfStages
       DEF Next, IInv, ResourcesAreReturned
<1>3. QED
  BY <1>1, <1>2, InitResources, NextResources, PTL DEF Spec, Called!Safety
===============================================================================
