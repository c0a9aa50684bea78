-------------------------- MODULE MCEmployeeEditor --------------------------
(* Model-checking instance of EmployeeEditor: two people, three addresses. *)
EXTENDS EmployeeEditor, TLC

\* People are alike, and so are addresses.
Symmetry == Permutations(Employee) \cup Permutations(Email)
=============================================================================
