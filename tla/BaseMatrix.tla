----------------------------- MODULE BaseMatrix -----------------------------
(***************************************************************************)
(* The matrix of a problem, from the rows of the matrix query to the       *)
(* verdict of the driver: the constructor of base::Base_Matrix, its repair *)
(* of the triangle inequality and its test for infinity.                   *)
(*                                                                         *)
(* TInterval is a signed integer.  Infinity is its largest value, and a    *)
(* sum that is too large comes out negative: Plus is the addition the      *)
(* build performs.  A time that is multiplied by factor is truncated.      *)
(***************************************************************************)
EXTENDS Integers, Sequences, FiniteSets, FiniteSetsExt

CONSTANTS
  Selected,     \* the nodes of the orders and the vehicles: node_ids
  Infinity,     \* the largest TInterval
  FactorUnit,   \* the factor 1.0
  Factors,      \* the factors of the calls, in units
  Data          \* the results of the matrix query: sequences of cells

ASSUME BaseMatrixAssumption ==
  /\ Selected \subseteq Nat /\ IsFiniteSet(Selected) /\ Selected # {}
  /\ Infinity \in Nat /\ Infinity >= 7
  /\ FactorUnit \in Nat \ {0}
  /\ Factors \subseteq Nat \ {0}
  /\ \A data \in Data :
       /\ data \in Seq([from_vid : Nat, to_vid : Nat, cost : Nat])
       /\ \A k \in DOMAIN data : \A f \in Factors :
            (data[k].cost * f) \div FactorUnit < Infinity

VARIABLES
  data_costs,     \* the rows of the query
  factor,         \* the parameter of the call
  check_triangle, \* does the driver verify the triangle inequality?
  read,           \* how many rows have been read
  m_time_matrix,
  depth,          \* the repairs made
  pc

arguments == <<data_costs, factor, check_triangle>>
vars == <<arguments, read, m_time_matrix, depth, pc>>

-----------------------------------------------------------------------------

Wrapped(n) == IF n > Infinity THEN n - 2 * (Infinity + 1) ELSE
              IF n < -(Infinity + 1) THEN n + 2 * (Infinity + 1) ELSE n
Plus(a, b) == Wrapped(a + b)

\* Fault: the factor is not divided by its unit.
ScaledInUnits(cost) == cost * factor

Scaled(cost) == (cost * factor) \div FactorUnit

\* Fault: the cells start with the value the vector gives them.
ZeroData == [i \in Selected |-> [j \in Selected |-> 0]]

NoData == [i \in Selected |-> [j \in Selected |-> Infinity]]

\* Fault: the cell is written, the opposite one never is.
FilledOneWay(m, i, j, time) == [m EXCEPT ![i][j] = time]

\* A cell of the matrix is written, and the opposite one too if it has no
\* time yet.
Filled(m, i, j, time) ==
  LET written == [m EXCEPT ![i][j] = time]
  IN  IF written[j][i] = Infinity THEN [written EXCEPT ![j][i] = time] ELSE written

\* The triples that break the triangle inequality, and the first one in the
\* order of the three loops.
Broken(m) ==
  {t \in Selected \X Selected \X Selected : m[t[1]][t[3]] > Plus(m[t[1]][t[2]], m[t[2]][t[3]])}

Precedes(s, t) ==
  \/ s[1] < t[1]
  \/ s[1] = t[1] /\ s[2] < t[2]
  \/ s[1] = t[1] /\ s[2] = t[2] /\ s[3] < t[3]

FirstBroken(m) == CHOOSE t \in Broken(m) : \A u \in Broken(m) \ {t} : Precedes(t, u)

obeys_triangle_inequality(m) == Broken(m) = {}
has_no_infinity(m) == \A i, j \in Selected : m[i][j] # Infinity

\* Fault: the cell is repaired with the way back.
DetourBack(m, t) == [m EXCEPT ![t[1]][t[3]] = Plus(m[t[3]][t[2]], m[t[2]][t[1]])]

Detour(m, t) == [m EXCEPT ![t[1]][t[3]] = Plus(m[t[1]][t[2]], m[t[2]][t[3]])]

-----------------------------------------------------------------------------

Init ==
  /\ data_costs \in Data
  /\ factor \in Factors
  /\ check_triangle \in BOOLEAN
  /\ read = 0
  /\ m_time_matrix = NoData
  /\ depth = 0
  /\ pc = "fill"

\* One row of the query; a row of a node that is not selected is skipped.
ReadCell ==
  /\ pc = "fill" /\ read < Len(data_costs)
  /\ LET data == data_costs[read + 1]
     IN  m_time_matrix' = IF {data.from_vid, data.to_vid} \subseteq Selected
                          THEN Filled(m_time_matrix, data.from_vid, data.to_vid, Scaled(data.cost))
                          ELSE m_time_matrix
  /\ read' = read + 1
  /\ UNCHANGED <<arguments, depth, pc>>

SetDiagonal ==
  /\ pc = "fill" /\ read = Len(data_costs)
  /\ m_time_matrix' = [i \in Selected |-> [m_time_matrix[i] EXCEPT ![i] = 0]]
  /\ pc' = IF check_triangle THEN "repair" ELSE "verify"
  /\ UNCHANGED <<arguments, read, depth>>

\* One call of fix_triangle_inequality: a repair, and the recursive call.
Repair ==
  /\ pc = "repair"
  /\ ~obeys_triangle_inequality(m_time_matrix)
  /\ depth <= Cardinality(Selected)
  /\ m_time_matrix' = Detour(m_time_matrix, FirstBroken(m_time_matrix))
  /\ depth' = depth + 1
  /\ UNCHANGED <<arguments, read, pc>>

\* Fault: the calls are one less.
RepairedEarly ==
  /\ pc = "repair"
  /\ obeys_triangle_inequality(m_time_matrix) \/ depth >= Cardinality(Selected)
  /\ pc' = "verify"
  /\ UNCHANGED <<arguments, read, m_time_matrix, depth>>

\* The last call, which finds nothing to repair or gives up.
Repaired ==
  /\ pc = "repair"
  /\ obeys_triangle_inequality(m_time_matrix) \/ depth > Cardinality(Selected)
  /\ pc' = "verify"
  /\ UNCHANGED <<arguments, read, m_time_matrix, depth>>

VerifyInfinity ==
  /\ pc = "verify"
  /\ pc' = IF has_no_infinity(m_time_matrix) THEN "accepted" ELSE "error"
  /\ UNCHANGED <<arguments, read, m_time_matrix, depth>>

Running == pc \notin {"accepted", "error"}

Terminated == ~Running /\ UNCHANGED vars

Next == ReadCell \/ SetDiagonal \/ Repair \/ Repaired \/ VerifyInfinity \/ Terminated

Spec == Init /\ [][Next]_vars

-----------------------------------------------------------------------------

TypeOK ==
  /\ data_costs \in Data /\ factor \in Factors /\ check_triangle \in BOOLEAN
  /\ read \in 0..Len(data_costs)
  /\ m_time_matrix \in [Selected -> [Selected -> -(Infinity + 1)..Infinity]]
  /\ depth \in 0..(Cardinality(Selected) + 1)
  /\ pc \in {"fill", "repair", "verify", "accepted", "error"}

\* The rows that give the time from i to j.
RowsFor(i, j) == {k \in DOMAIN data_costs : data_costs[k].from_vid = i /\ data_costs[k].to_vid = j}
Time(k) == Scaled(data_costs[k].cost)

\* The matrix that the rows stand for, without reading them one by one.
Given(i, j) ==
  CASE i = j -> 0
    [] i # j /\ RowsFor(i, j) # {} -> Time(Max(RowsFor(i, j)))
    [] i # j /\ RowsFor(i, j) = {} /\ RowsFor(j, i) # {} -> Time(Min(RowsFor(j, i)))
    [] OTHER -> Infinity

Constructed == pc # "fill"

\* A cell is the last time that the rows give for it.  When they give none it
\* is the first one they give for the opposite direction: the order of the
\* rows matters only between rows for the same cell (Base_Matrix constructor).
CellsAsGiven ==
  /\ TypeOK
  /\ pc \in {"verify", "accepted", "error"} /\ depth = 0 =>
      \A i, j \in Selected : m_time_matrix[i][j] = Given(i, j)

\* The shortest times through one more node, and those after n rounds of that:
\* they are the times of the ways of up to 2^n legs.  A round that improves
\* nothing leaves the times it started from.
Relaxed(m) ==
  [leg \in Selected \X Selected |-> Min({m[<<leg[1], k>>] + m[<<k, leg[2]>>] : k \in Selected})]
Round(m) == LET relaxed == Relaxed(m) IN IF relaxed = m THEN m ELSE relaxed
Relaxations(m, n) ==
  LET after[k \in 0..n] == IF k = 0 THEN m ELSE Round(after[k - 1])
  IN  after[n]

GivenTimes == [leg \in Selected \X Selected |-> Given(leg[1], leg[2])]

\* Two times of the data still make a time, so that none of them is infinite
\* when there are two nodes or more.
TimesAdd == \A i, j, k \in Selected : Given(i, k) + Given(k, j) <= Infinity

\* As long as every cell is given and the times can be added, the repairs never
\* make a time longer than the data say, or shorter than the shortest way that
\* as many repairs can find (fix_triangle_inequality).
TimesAreReal ==
  Constructed /\ TimesAdd =>
    LET shortest == Relaxations(GivenTimes, depth)
    IN  \A i, j \in Selected : m_time_matrix[i][j] \in shortest[<<i, j>>]..Given(i, j)

\* A node that no row mentions.
Unmentioned ==
  {i \in Selected : \A k \in DOMAIN data_costs :
                      i \notin {data_costs[k].from_vid, data_costs[k].to_vid}}

\* A problem with a node that the matrix query forgot is refused (the drivers'
\* "Verify matrix cells preconditions"; pgtap/pgr_pickDeliver/pickDeliver/issue-1725.pg).
ForgottenNodeIsReported ==
  pc = "accepted" /\ Cardinality(Selected) > 1 => Unmentioned = {}

\* A matrix that is accepted after the repair obeys the triangle inequality,
\* although sums with Infinity overflow, or else all the repairs that
\* fix_triangle_inequality allows itself were made: nobody is told then.
RepairMakesItObey ==
  check_triangle /\ pc = "accepted" =>
    obeys_triangle_inequality(m_time_matrix) \/ depth > Cardinality(Selected)

\* What the optimizers may rely on when the matrix was accepted.
AcceptedMatrixIsUsable == ForgottenNodeIsReported /\ RepairMakesItObey

=============================================================================
