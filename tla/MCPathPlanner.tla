---------------------------- MODULE MCPathPlanner ---------------------------
(* The searches TLC runs: on every map of the given size, from a corner, a *)
(* side and the centre to every cell (the other starts are rotations and   *)
(* reflections of these), and a few requests that leave the map.           *)
EXTENDS PathPlanner

AllMaps == SUBSET Cells
MCRequests ==
  ({<<0, 0>>, <<0, 1>>, <<1, 1>>} \X Cells)
    \union {<< <<0, -1>>, <<0, 0>> >>, << <<0, 0>>, <<Rows, 0>> >>}
=============================================================================
