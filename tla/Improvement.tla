----------------------------- MODULE Improvement -----------------------------
(***************************************************************************)
(* What an optimizer promises: it keeps a best solution that never gets    *)
(* worse and never loses or gains an order, and it hands out that          *)
(* solution when it ends.  A cost is a pair; its first part counts before  *)
(* its second one.                                                         *)
(***************************************************************************)
EXTENDS Integers

VARIABLES
  orders,    \* the orders of the best solution
  best,      \* the cost of the best solution
  result,    \* the cost of the solution handed out, <<>> before
  finished

vars == <<orders, best, result, finished>>

Better(a, b) == a[1] < b[1] \/ (a[1] = b[1] /\ a[2] < b[2])

Init ==
  /\ best \in Nat \X Nat
  /\ result = <<>>
  /\ finished = FALSE

\* A better solution is found.
Improve ==
  /\ ~finished
  /\ best' \in Nat \X Nat
  /\ Better(best', best)
  /\ UNCHANGED <<orders, result, finished>>

\* The best solution is handed out.
HandOut ==
  /\ ~finished
  /\ finished' = TRUE
  /\ result' = best
  /\ UNCHANGED <<orders, best>>

Next == Improve \/ HandOut

Spec == Init /\ [][Next]_vars

\* The optimizer ends.
Ends == <>finished

=============================================================================
