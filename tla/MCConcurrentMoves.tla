-------------------------- MODULE MCConcurrentMoves --------------------------
(* Model-checking instance of ConcurrentMoves: ids are small numbers. *)
EXTENDS ConcurrentMoves, TLC

ThreePeople == 1 .. 3

FourPeople == 1 .. 4

\* Sessions of one kind are alike; ids are not, they order the locks.
Symmetry == Permutations(Mover) \cup Permutations(Deleter)
=============================================================================
