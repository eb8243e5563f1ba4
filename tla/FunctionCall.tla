---------------------------- MODULE FunctionCall ----------------------------
(***************************************************************************)
(* What a set returning function promises to the executor of PostgreSQL:   *)
(* a call fails and answers no row, or it answers each of its rows once,   *)
(* in order, and says that it is done.                                     *)
(***************************************************************************)
EXTENDS Naturals

VARIABLES
  status,    \* "asked", "answering", "failed" or "done"
  rows,      \* the number of rows of the answer
  answered   \* how many rows the executor has received

call_vars == <<status, rows, answered>>

Init == status = "asked" /\ rows = 0 /\ answered = 0

Fail == status = "asked" /\ status' = "failed" /\ UNCHANGED <<rows, answered>>

Accept ==
  /\ status = "asked" /\ status' = "answering"
  /\ rows' \in Nat
  /\ UNCHANGED answered

Answer ==
  /\ status = "answering" /\ answered < rows
  /\ answered' = answered + 1
  /\ UNCHANGED <<status, rows>>

Finish ==
  /\ status = "answering" /\ answered = rows
  /\ status' = "done"
  /\ UNCHANGED <<rows, answered>>

Next == Fail \/ Accept \/ Answer \/ Finish

Safety == Init /\ [][Next]_call_vars

\* The executor fetches all the rows, and no call takes for ever.
Spec == Safety /\ WF_call_vars(Next)
=============================================================================
