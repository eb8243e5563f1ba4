------------------------------- MODULE MCTabu -------------------------------
(***************************************************************************)
(* Searches of four orders on three vehicles that start from different     *)
(* sites, from every assignment that keeps the windows and the capacities  *)
(* and leaves out one order at most: long enough for the neighbourhoods to *)
(* run out of moves, for the list of moves to be full and for every turn   *)
(* of the search.  Order 3 is picked up at an instant, before the later of *)
(* the execution dates.  Order 4 can not be served at all: its delivery    *)
(* closes too early.                                                       *)
(*                                                                         *)
(* Then there are calls that look at the stops alone: in turn, nested,     *)
(* late, never delivered, delivered twice, unknown, on two vehicles, on    *)
(* the vehicle without capacity.                                           *)
(***************************************************************************)
EXTENDS TabuOptimizer, LineProblem

VanFrom(site, capacity, closes) ==
  [Van(capacity, 1, 0, closes, 0) EXCEPT !.start_node_id = site]

MCOrderRow ==
  [o \in Order |-> LineOrder(
     CASE o = 0 -> <<1, 6,  0,  6, 1,  6, 18, 0>>
       [] o = 1 -> <<2, 6, 20, 32, 3, 20, 50, 0>>
       [] o = 2 -> <<1, 7,  4, 34, 3, 18, 30, 1>>
       [] o = 3 -> <<2, 5, 10, 10, 1, 24, 30, 0>>
       [] o = 4 -> <<1, 1, 20, 30, 7,  2,  4, 0>>)]
MCTruckRow ==
  0 :> VanFrom(2, 4, 70) @@ 1 :> VanFrom(6, 9, 90) @@ 2 :> VanFrom(5, 9, 50)
    @@ 3 :> Van(0, 1, 0, 70, 1) @@ 4 :> Van(99, 1, 0, 999, 0)

Stops(on0, on1, on2, on3) == 0 :> on0 @@ 1 :> on1 @@ 2 :> on2 @@ 3 :> on3

InTurn(set) ==
  [k \in 1..(2 * Cardinality(set)) |-> SetToSortSeq(set, <)[(k + 1) \div 2]]

\* Each order but one, maybe, on a vehicle that can serve it; 3 is for none.
LegalStops ==
  {r \in {Stops(InTurn({o \in 0..3 : a[o] = 0}), InTurn({o \in 0..3 : a[o] = 1}),
                InTurn({o \in 0..3 : a[o] = 2}), <<>>) :
           a \in {f \in [0..3 -> 0..3] : Cardinality({o \in 0..3 : f[o] = 3}) <= 1}} :
     \A v \in 0..2 : is_feasible(WithStops(v, r[v], {}, 0))}

Visits ==
  {<<>>, <<0, 0>>, <<1, 1, 0, 0>>, <<0, 1, 0, 1>>, <<2, 0, 1, 0, 2, 1>>, <<2>>,
   <<0, 2, 0>>, <<1, 1, 1>>, <<5, 5>>, <<4, 4>>}

\* The searches, and the calls that hardly search.
MCCalls ==
  [stops : LegalStops, execution_date : {0, 11}, optimize : {TRUE},
   stop_on_all_served : BOOLEAN, max_cycles : {20}]
    \cup
  [stops : {Stops(a, b, <<3, 3>>, c) : a, b \in Visits, c \in {<<>>, <<0, 0>>}},
   execution_date : {0, 3}, optimize : BOOLEAN, stop_on_all_served : {FALSE},
   max_cycles : {0}]

=============================================================================
