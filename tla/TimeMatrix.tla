----------------------------- MODULE TimeMatrix -----------------------------
(***************************************************************************)
(* The travel time between two sites: class problem::Matrix.  The matrix   *)
(* cell is scaled by a multiplier that depends on the time of departure    *)
(* and, in Tw_node::travel_time_to, divided by the speed of the vehicle.   *)
(*                                                                         *)
(* Multipliers and speeds are doubles in the code.  Here both are          *)
(* integers counted in units: the multiplier 1.0 is MultiplierUnit and the *)
(* speed 1.0 is SpeedUnit.  The casts to TInterval truncate; times are     *)
(* never negative, so \div is that truncation.                             *)
(***************************************************************************)
EXTENDS Integers, Sequences, FiniteSetsExt

CONSTANTS
  Site,            \* the node identifiers of the matrix
  Dist,            \* Dist[i][j]: the matrix cell
  Multipliers,     \* <<[start_time |-> t, multiplier |-> m], ...>>
  MultiplierUnit,  \* the multiplier 1.0
  SpeedUnit        \* the speed 1.0

\* set_tdm leaves at least one multiplier, sorted by starting time.
ASSUME MatrixAssumption ==
  /\ Dist \in [Site -> [Site -> Nat]]
  /\ Multipliers \in Seq([start_time : Nat, multiplier : Nat])
  /\ Len(Multipliers) > 0
  /\ \A k, l \in 1..Len(Multipliers) :
       k < l => Multipliers[k].start_time <= Multipliers[l].start_time
  /\ MultiplierUnit \in Nat \ {0}
  /\ SpeedUnit \in Nat \ {0}

-----------------------------------------------------------------------------

\* The positions of the multipliers that have started at time t.
Started(t) == {k \in 1..Len(Multipliers) : Multipliers[k].start_time <= t}

\* The first multiplier that starts at t or later; the last one if none does.
Upcoming(t) ==
  Min({k \in 1..Len(Multipliers) : Multipliers[k].start_time >= t}
        \cup {Len(Multipliers)})

get_tdm(t) ==
  IF Started(t) = {} THEN MultiplierUnit
  ELSE Multipliers[Max(Started(t))].multiplier

next_tdm(t) == Multipliers[Upcoming(t)].multiplier

time_change(t) == Multipliers[Upcoming(t)].start_time

\* A cell when the multiplier is c1 at the departure t and then c2: the first
\* one holds when the trip ends before the change, otherwise the smaller one.
adjusted_time(cell, t, c1, c2) ==
  LET adjusted_value == (cell * c1) \div MultiplierUnit
  IN  IF time_change(t) >= t + adjusted_value \/ c1 = c2 THEN adjusted_value
      ELSE (cell * Min({c1, c2})) \div MultiplierUnit

\* A single multiplier is never looked at: the cell is the answer.
travel_time(i, j, t) ==
  IF Len(Multipliers) = 1 THEN Dist[i][j]
  ELSE adjusted_time(Dist[i][j], t, get_tdm(t), next_tdm(t))

travel_time_to(i, j, t, speed) == (travel_time(i, j, t) * SpeedUnit) \div speed

=============================================================================
