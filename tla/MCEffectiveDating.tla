-------------------------- MODULE MCEffectiveDating --------------------------
(* Model-checking instance of EffectiveDating. *)
EXTENDS EffectiveDating, TLC

\* Ids are only compared for equality.
Symmetry == Permutations(Employee)
=============================================================================
