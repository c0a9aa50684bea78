------------------------------- MODULE MCPhotos -------------------------------
(* Model-checking instance of Photos. *)
EXTENDS Photos, TLC

Symmetric == Permutations(Slot)
===============================================================================
