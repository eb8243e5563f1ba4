------------------------------- MODULE MCPgr -------------------------------
(***************************************************************************)
(* pgr_pickDeliver on some of five orders and some of three vehicles.      *)
(* Orders 1 and 3 are too large for the small truck, and nobody but the    *)
(* phony vehicle can take them when it is alone.  Order 4 is picked up at  *)
(* the same time as orders 1 and 2, far from them.                         *)
(***************************************************************************)
EXTENDS PgrPickDeliver, LineProblem

MCOrderRow ==
  [o \in Order |-> [LineOrders[o % 4] EXCEPT
     !.demand = IF o = 1 THEN 4 ELSE @,
     !.pick_open_t = IF o \in {1, 4} THEN 16 ELSE @,
     !.pick_close_t = IF o \in {1, 2, 4} THEN 20 ELSE @]]
MCTruckRow ==
  0 :> Van(3, 1, 0, 70, 1) @@ 1 :> Van(9, 1, 4, 52, 1) @@ 2 :> Van(6, 2, 0, 80, 0)
    @@ 3 :> Van(99, 1, 0, 999, 0)

MCProblems ==
  [orders : {{0, 1, 2, 3}, {0, 1, 3}, {1, 2}, {1, 2, 3, 4}},
   trucks : {{0, 1, 2, 3}, {0, 1, 3}, {0, 3}, {1, 2, 3}}]

=============================================================================
