---------------------------- MODULE MCChartClient ----------------------------
(* Model-checking instance of ChartClient: two people, one above the other. *)
EXTENDS ChartClient

Line == {[e \in 1 .. 2 |-> IF e = 1 THEN NoManager ELSE e - 1]}
=============================================================================
