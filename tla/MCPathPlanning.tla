--------------------------- MODULE MCPathPlanning ---------------------------
(* The inputs for which TLC checks PathPlanning: a 2 x 2 map.              *)
EXTENDS PathPlanning

Open == [c \in Cells |-> 1]
Corner == [Open EXCEPT ![<<1, 1>>] = 0]
Split == [c \in Cells |-> IF c \in {<<0, 1>>, <<1, 0>>} THEN 0 ELSE 1]

(* Plans of one step, of two with two routes, and from a cell to itself;   *)
(* a goal that is cut off; a blocked and an off-map goal.                  *)
Input(m, s, g) == [map |-> m, start |-> s, goal |-> g]
CrossingPlans ==
  Input(Open, [k \in Tasks |-> IF k = 1 THEN <<0, 0>> ELSE <<1, 0>>],
              [k \in Tasks |-> IF k = 1 THEN <<1, 1>> ELSE <<0, 0>>])
LoopPlans ==
  Input(Corner, [k \in Tasks |-> <<0, 1>>],
                [k \in Tasks |-> IF k = 1 THEN <<0, 1>> ELSE <<1, 0>>])
CutOffPlans ==
  Input(Split, [k \in Tasks |-> <<0, 0>>],
               [k \in Tasks |-> IF k = 1 THEN <<0, 0>> ELSE <<1, 1>>])
BlockedPlans ==
  Input(Corner, [k \in Tasks |-> <<0, 0>>], [k \in Tasks |-> <<1, 1>>])
OffMapPlans ==
  Input(Open, [k \in Tasks |-> <<0, 0>>], [k \in Tasks |-> <<0, 2>>])

(* Numbers in the file other than 0 and 1: one that wraps to 0, one that   *)
(* wraps to a label.                                                       *)
Wide == [Open EXCEPT ![<<1, 0>>] = CellValues, ![<<0, 1>>] = CellValues + 3]
WidePlans ==
  Input(Wide, [k \in Tasks |-> <<0, 0>>],
              [k \in Tasks |-> IF k = 1 THEN <<1, 1>> ELSE <<0, 1>>])

MCScenes ==
  {CrossingPlans, LoopPlans, CutOffPlans, BlockedPlans, OffMapPlans, WidePlans}
=============================================================================
