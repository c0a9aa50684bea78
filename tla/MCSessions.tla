----------------------------- MODULE MCSessions -----------------------------
(* Model-checking instance of Sessions: one page with two calls and, when     *)
(* there is a second page, one call of its own.                               *)
EXTENDS Sessions, TLC

CONSTANTS p1, p2, c1, c2, c3

CallsOfTwoPages == c1 :> p1 @@ c2 :> p1 @@ c3 :> p2
=============================================================================
