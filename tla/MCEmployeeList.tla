--------------------------- MODULE MCEmployeeList ---------------------------
(* Model-checking instance of EmployeeList: two employees, one a search. *)
EXTENDS EmployeeList

HitsTried == [t \in Query |-> IF t = NoTerm THEN {1, 2} ELSE {1}]
UnderTried == [p \in {1, 2} |-> IF p = 1 THEN {2} ELSE {}]
PaidTried == {2}
RostersTried == {<<"active", "absent">>}
=============================================================================
