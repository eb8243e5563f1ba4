-------------------------- MODULE OrderAssignment --------------------------
(***************************************************************************)
(* What the construction of a solution promises: orders leave the waiting  *)
(* set one at a time for the route that is open, a closed route is never   *)
(* touched again and never empty, and the construction ends, either with   *)
(* all the orders on routes or, between two routes, by giving up.          *)
(***************************************************************************)
EXTENDS Sequences

CONSTANT Order

VARIABLES
  waiting,  \* the orders on no route
  routes,   \* the closed routes: sequences of sets of orders
  open,     \* the orders of the open route
  state     \* "running" | "complete" | "abandoned"

vars == <<waiting, routes, open, state>>

Init ==
  /\ waiting \in SUBSET Order
  /\ routes = <<>>
  /\ open = {}
  /\ state = "running"

Assign ==
  /\ state = "running"
  /\ \E o \in waiting : waiting' = waiting \ {o} /\ open' = open \cup {o}
  /\ UNCHANGED <<routes, state>>

Close ==
  /\ state = "running" /\ open # {}
  /\ routes' = Append(routes, open)
  /\ open' = {}
  /\ UNCHANGED <<waiting, state>>

Complete ==
  /\ state = "running" /\ open = {} /\ waiting = {}
  /\ state' = "complete"
  /\ UNCHANGED <<waiting, routes, open>>

Abandon ==
  /\ state = "running" /\ open = {} /\ waiting # {}
  /\ state' = "abandoned"
  /\ UNCHANGED <<waiting, routes, open>>

Next == Assign \/ Close \/ Complete \/ Abandon

Spec == Init /\ [][Next]_vars

Ends == <>(state # "running")

=============================================================================
