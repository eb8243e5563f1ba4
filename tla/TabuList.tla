------------------------------ MODULE TabuList ------------------------------
(***************************************************************************)
(* optimizers::tabu::Move and optimizers::tabu::TabuList: the moves made   *)
(* last, oldest first, in a list of a bounded length.                      *)
(***************************************************************************)
EXTENDS Integers, Sequences, SequencesExt

\* A move of one order: oid2 is 0.
Move(vid1, vid2, oid1) ==
  [vid1 |-> vid1, vid2 |-> vid2, oid1 |-> oid1, oid2 |-> 0, is_swap |-> FALSE]

Swapping(vid1, vid2, oid1, oid2) ==
  [vid1 |-> vid1, vid2 |-> vid2, oid1 |-> oid1, oid2 |-> oid2, is_swap |-> TRUE]

has(list, m) == m \in Range(list)

\* A move is tabu in both directions.
has_move(list, from, to, o) ==
  has(list, Move(from, to, o)) \/ has(list, Move(to, from, o))

has_swap(list, from, to, o1, o2) ==
  \E v, w \in {from, to}, a, b \in {o1, o2} :
    v # w /\ a # b /\ has(list, Swapping(v, w, a, b))

\* Fault: the list is shortened after the move joined it.
add_late(list, m, max_length) ==
  IF has(list, m) THEN list
  ELSE Append(IF Len(list) > max_length THEN Tail(list) ELSE list, m)

\* The oldest moves make room for m.
add(list, m, max_length) ==
  IF has(list, m) THEN list
  ELSE Append(IF Len(list) >= max_length
              THEN SubSeq(list, Len(list) - max_length + 2, Len(list)) ELSE list, m)

=============================================================================
