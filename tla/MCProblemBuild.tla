--------------------------- MODULE MCProblemBuild ---------------------------
(***************************************************************************)
(* Two orders and one or two rows of vehicles on a line, in either order:  *)
(* copies of a vehicle and rows for none, vehicles without room, with a    *)
(* speed of zero or with a window that is an instant or reversed, windows  *)
(* that meet at one moment, equal keys.                                    *)
(***************************************************************************)
EXTENDS ProblemBuild, TLC

MCSite == 0..2
MCDist == [i \in MCSite |-> [j \in MCSite |-> 2 * (IF i < j THEN j - i ELSE i - j)]]
MCMultipliers == <<[start_time |-> 0, multiplier |-> 1]>>

Row(i, from, to, opens, closes, service) ==
  [id |-> i, demand |-> 1,
   pick_node_id |-> from, pick_open_t |-> opens, pick_close_t |-> closes - 1,
   pick_service_t |-> service,
   deliver_node_id |-> to, deliver_open_t |-> opens, deliver_close_t |-> closes,
   deliver_service_t |-> 0]

Van(i, capacity, speed, number, site, opens, closes, stops) ==
  [id |-> i, capacity |-> capacity, speed |-> speed, cant_v |-> number, stops |-> stops,
   start_node_id |-> site, start_open_t |-> opens, start_close_t |-> closes,
   start_service_t |-> 0,
   end_node_id |-> site, end_open_t |-> opens, end_close_t |-> closes, end_service_t |-> 0]

Tight(i, from, to) == [Row(i, from, to, 2, 6, 0) EXCEPT
                          !.deliver_open_t = 8, !.deliver_close_t = 12]

Firsts == {Tight(1, 0, 1), Row(1, 0, 1, 2, 6, 0), Row(1, 1, 1, 4, 8, 0), Row(1, 1, 0, 2, 12, 1)}
Seconds == {Tight(2, 1, 0), Row(2, 0, 2, 2, 9, 0), Row(2, 1, 0, 2, 12, 1), Row(2, 2, 1, 0, 5, 1)}

MCOrderQueries == {<<a>> : a \in Firsts} \cup {<<b, a>> : a \in Firsts, b \in Seconds}

Vans ==
  {Van(1, 2, 1, 1, 0, 0, 12, {1}), Van(1, 1, 1, 2, 1, 0, 4, {1}), Van(1, 1, 2, 1, 2, 1, 9, {}),
   Van(1, 0, 1, 1, 0, 0, 9, {1}), Van(1, 1, 1, 0, 1, 2, 9, {}),
   Van(1, 1, 0, 1, 0, 0, 9, {}), Van(1, 1, 0, 0, 0, 0, 9, {}),
   Van(1, 1, 1, 1, 0, 5, 5, {1}), Van(1, 1, 1, 1, 0, 5, 4, {1})}
OtherVans ==
  {Van(2, 2, 1, 1, 0, 0, 12, {2}), Van(2, 1, 2, 2, 2, 0, 12, {2})}

MCVehicleQueries == {<<v>> : v \in Vans} \cup {<<w, v>> : v \in Vans, w \in OtherVans}
                      \cup {<<Van(2, 1, 1, 1, 1, 0, 12, {}), w, w>> : w \in OtherVans}

MCNewStops == {<<>>, 1 :> {1} @@ 2 :> {2} @@ (-1) :> {}}
=============================================================================
