---------------------------- MODULE MCPlannedMoves ----------------------------
(* Model-checking instance of PlannedMoves. *)
EXTENDS PlannedMoves

CONSTANTS a, b

\* Two moves planned, one behind the other.
Plans ==
    {{[id |-> 1, mgr |-> NoManager, from |-> 0, to |-> 1],
      [id |-> 2, mgr |-> a, from |-> 1, to |-> 2],
      [id |-> 3, mgr |-> b, from |-> 2, to |-> Horizon]}}

\* In place of both of them.
Moves == {<<b, 1>>}
===============================================================================
