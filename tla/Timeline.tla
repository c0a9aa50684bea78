------------------------------ MODULE Timeline ------------------------------
(***************************************************************************)
(* The rows of employee_assignment that belong to one employee: a set of   *)
(* runs, each a reporting edge with a half-open range of days.  A run that *)
(* is open-ended (valid_to IS NULL) ends at Horizon, the day after the     *)
(* last day the model looks at.                                            *)
(***************************************************************************)
EXTENDS Integers, ReportingGraph

CONSTANT Horizon   \* bound: days are 0 .. Horizon - 1

ASSUME HorizonAssumption == Horizon \in Nat \ {0}

Day == 0 .. (Horizon - 1)

Run == [mgr : ManagerOrNone, from : Day, to : 1 .. Horizon]

InForce(r, d) == r.from <= d /\ d < r.to

HasRunAt(runs, d) == \E r \in runs : InForce(r, d)

RunAt(runs, d) == CHOOSE r \in runs : InForce(r, d)

\* The manager a timeline gives for a day; an employee without a row in force
\* reports to nobody.
ManagerAt(runs, d) == IF HasRunAt(runs, d) THEN RunAt(runs, d).mgr ELSE NoManager

\* MUTANTS of SetEdge: valid_to read as the last day in force; the history
\* replaced instead of continued.
SetEdgeOffByOne(runs, m, f) ==
    {r \in runs : r.to <= f}
        \cup {[r EXCEPT !.to = f - 1] : r \in {q \in runs : q.from < f /\ f < q.to}}
        \cup {[mgr |-> m, from |-> f, to |-> Horizon]}

SetEdgeReplaces(runs, m, f) == {[mgr |-> m, from |-> f, to |-> Horizon]}

\* set_edge: drop what starts on the day or later, close the run in force on
\* it, open a new run.
SetEdge(runs, m, f) ==
    LET kept      == {r \in runs : r.to <= f}
        truncated == {[r EXCEPT !.to = f] : r \in {q \in runs : q.from < f /\ f < q.to}}
    IN  kept \cup truncated \cup {[mgr |-> m, from |-> f, to |-> Horizon]}

\* The run that ends where `r` starts.
Preceding(runs, r) == {p \in runs : p.to = r.from}

\* MUTANT of CancelRun: the preceding run keeps its end.
CancelRunLeavesGap(runs, r) == runs \ {r}

\* cancel_scheduled: drop the run and let the preceding one extend over its
\* range.
CancelRun(runs, r) ==
    LET before == Preceding(runs, r)
    IN  (runs \ ({r} \cup before)) \cup {[p EXCEPT !.to = r.to] : p \in before}

\* Days on which any of the timelines can change, after day d.
BoundaryDays(timelines, d) ==
    {b \in Day : b > d /\ \E e \in Employee : \E r \in timelines[e] : b \in {r.from, r.to}}

-----------------------------------------------------------------------------
(* What the table's constraints and the writers keep true of a timeline. *)

RangesOK(runs) == \A r \in runs : r.from < r.to

NoOverlap(runs) == \A r, s \in runs : r # s => r.to <= s.from \/ s.to <= r.from

\* A run ends only because another one starts.
NoGap(runs) == \A r \in runs : r.to = Horizon \/ \E s \in runs : s.from = r.to

Contiguous(runs) == RangesOK(runs) /\ NoOverlap(runs) /\ NoGap(runs)
=============================================================================
