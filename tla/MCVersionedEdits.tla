--------------------------- MODULE MCVersionedEdits ---------------------------
(* Model-checking instance of VersionedEdits. *)
EXTENDS VersionedEdits, TLC

Symmetry == Permutations(Client) \cup Permutations(Manager)
=============================================================================
