------------------------------ MODULE OrgChart ------------------------------
(***************************************************************************)
(* What the effective-dating tables promise, without rows, caches, syncs   *)
(* or triggers: a chart that names everybody's manager for every day, a    *)
(* staff, and a calendar.  A change names the first day it is about and    *)
(* gives a manager from that day on, a file everybody in it one of their   *)
(* own from today on; or a future change is taken back.                    *)
(***************************************************************************)
EXTENDS Integers

CONSTANTS Employee, NoManager, Horizon

Day == 0 .. (Horizon - 1)

VARIABLES
    chart,   \* chart[e][d]: the manager of e on day d
    staff,   \* who is employed, as of the last change
    today

vars == <<chart, staff, today>>

Init ==
    /\ staff \in SUBSET Employee
    /\ \E g \in [Employee -> Employee \cup {NoManager}] :
           chart = [e \in Employee |-> [d \in Day |-> g[e]]]
    /\ today = 0

\* From day f on, everybody in S reports to m.
FromDayOn(S, m, f) ==
    chart' = [e \in Employee |->
                [d \in Day |-> IF e \in S /\ d >= f THEN m ELSE chart[e][d]]]

Tick ==
    /\ today + 1 \in Day
    /\ today' = today + 1
    /\ UNCHANGED <<chart, staff>>

Hire(e, m) ==
    /\ e \notin staff
    /\ staff' = staff \cup {e}
    /\ FromDayOn({e}, m, today)
    /\ UNCHANGED today

Move(e, m, f) ==
    /\ e \in staff
    /\ m \in staff \cup {NoManager}
    /\ FromDayOn({e}, m, f)
    /\ UNCHANGED <<staff, today>>

\* The change of day f, in force until day t, never happens.
Withdraw(e, f, t) ==
    /\ today < f /\ f < t
    /\ chart' = [chart EXCEPT ![e] =
                    [d \in Day |-> IF f <= d /\ d < t THEN chart[e][f - 1] ELSE chart[e][d]]]
    /\ UNCHANGED <<staff, today>>

\* x goes, some of the others get one new manager from today on.
Leave(x, S, m) ==
    /\ x \in staff
    /\ S \subseteq staff \ {x}
    /\ staff' = staff \ {x}
    /\ FromDayOn(S, m, today)
    /\ UNCHANGED today

\* A whole branch goes; nobody is moved.
LeaveTogether(S) ==
    /\ S # {} /\ S \subseteq staff
    /\ staff' = staff \ S
    /\ UNCHANGED <<chart, today>>

Return(x) ==
    /\ x \notin staff
    /\ staff' = staff \cup {x}
    /\ UNCHANGED <<chart, today>>

\* Everybody in T gets a manager of their own from today on; whoever of T was
\* not employed is hired.
Load(T) ==
    /\ staff' = staff \cup T
    /\ \E g \in [T -> staff' \cup {NoManager}] :
          chart' = [e \in Employee |->
                      [d \in Day |-> IF e \in T /\ d >= today THEN g[e] ELSE chart[e][d]]]
    /\ UNCHANGED today

Next ==
    \/ Tick
    \/ \E e \in Employee, m \in Employee \cup {NoManager} : Hire(e, m)
    \/ \E e \in Employee, m \in Employee \cup {NoManager}, f \in Day : Move(e, m, f)
    \/ \E e \in Employee, f \in Day, t \in 1 .. Horizon : Withdraw(e, f, t)
    \/ \E x \in Employee, S \in SUBSET Employee, m \in Employee \cup {NoManager} : Leave(x, S, m)
    \/ \E S \in SUBSET Employee : LeaveTogether(S)
    \/ \E x \in Employee : Return(x)
    \/ \E T \in SUBSET Employee : Load(T)

Spec == Init /\ [][Next]_vars
=============================================================================
