---------------------------- MODULE MCBaseMatrix ----------------------------
(***************************************************************************)
(* Five sites of which four are selected: every result of up to three      *)
(* rows, which leaves cells without data, complete matrices for the        *)
(* repair, and matrices that lack a node, whose times are infinite.  A sum *)
(* with Infinity overflows.                                                *)
(***************************************************************************)
EXTENDS BaseMatrix

Cell(i, j, c) == [from_vid |-> i, to_vid |-> j, cost |-> c]

\* Few rows, in any order, with repetitions and a node that is not selected.
Rows == {Cell(1, 2, 3), Cell(1, 2, 5), Cell(2, 1, 4), Cell(2, 3, 1), Cell(3, 2, 6),
         Cell(1, 3, 2), Cell(1, 5, 1), Cell(1, 1, 2), Cell(1, 2, 15),
         Cell(1, 2, 0), Cell(2, 3, 0), Cell(3, 1, 0)}
Scarce == UNION {[1..n -> Rows] : n \in 0..3}

\* One row for each pair of nodes, in both directions.
Pair(i, j, a, b) == <<Cell(i, j, a), Cell(j, i, b)>>
Triangle(t) == Pair(1, 2, t[1], t[2]) \o Pair(2, 3, t[3], t[4]) \o Pair(1, 3, t[5], t[6])

\* Three nodes, with and without a fourth one that is far from them.
ToFourth == Pair(1, 4, 20, 20) \o Pair(2, 4, 20, 20) \o Pair(3, 4, 20, 20)
Complete == {Triangle(t) \o ToFourth : t \in [1..6 -> {0, 1, 7}]}
ForgottenNode == {Triangle(t) : t \in [1..6 -> {1, 9}]}

\* A line of four nodes with long ways between those that are not next to
\* each other: more to repair than fix_triangle_inequality does.
Chain ==
  {Pair(1, 2, t[1], t[2]) \o Pair(2, 3, t[3], t[4]) \o Pair(3, 4, t[5], t[6])
     \o Pair(1, 3, 20, 20) \o Pair(1, 4, 20, 20) \o Pair(2, 4, 20, 20) :
     t \in [1..6 -> {1, 9}]}

MCSelected == {1, 2, 3, 4}
MCData == Scarce \cup Complete \cup ForgottenNode \cup Chain
=============================================================================
