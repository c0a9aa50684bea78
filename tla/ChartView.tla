------------------------------ MODULE ChartView ------------------------------
(***************************************************************************)
(* What the chart page computes from the records it has: a function `m`    *)
(* from the employees it knows to the manager it thinks they have.         *)
(***************************************************************************)
EXTENDS Integers, ReportingGraph

\* childrenByManager.
Children(m, x) == {e \in DOMAIN m : m[e] = x}

\* The employees met in `depth` steps down from those in `from`.
Below(m, from, depth) ==
    LET met[n \in 0 .. depth] ==
            IF n = 0 THEN from
            ELSE met[n - 1] \cup UNION {Children(m, x) : x \in met[n - 1]}
    IN  met[depth]

\* getDescendantIds, with no limit: a level for everybody is enough.
Descendants(m, x) == Below(m, Children(m, x), Cardinality(DOMAIN m))

\* depthById: the level on which the walk from the roots meets x.
Depth(m, roots, x) ==
    CHOOSE d \in 0 .. Cardinality(DOMAIN m) :
        /\ x \in Below(m, roots, d)
        /\ \A n \in 0 .. (d - 1) : x \notin Below(m, roots, n)

\* visibleIds: the walk does not go below those who are collapsed.
Visible(m, roots, collapsed) ==
    LET open == [e \in DOMAIN m |-> IF m[e] \in collapsed THEN NoManager ELSE m[e]]
    IN  Below(open, roots, Cardinality(DOMAIN m))

\* buildEdges.
Edges(m, visible) == {<<m[e], e>> : e \in {x \in visible : m[x] \in visible}}

\* The walk up from x, from manager to manager, that the focus follows comes
\* to an end.
WalkUpEnds(m, x) ==
    \E S \in SUBSET DOMAIN m :
        /\ x \in S
        /\ \A y \in S : m[y] \in DOMAIN m => m[y] \in S
        /\ \A T \in SUBSET S : T # {} => \E y \in T : m[y] \notin T

\* MUTANT of OwnBranch: only the employee.
OwnNode(m, x) == {x}

\* The nodes a dragged employee may not be dropped on, and those the palette
\* does not offer as their manager.
OwnBranch(m, x) == {x} \cup Descendants(m, x)

\* A drop opens the preview of a move: on somebody who is not in the branch,
\* and to whom the employee does not report in the record (`recorded`).
MayDrop(m, recorded, shown, x, target) ==
    /\ {x, target} \subseteq shown
    /\ target \notin OwnBranch(m, x)
    /\ recorded[x] # target
=============================================================================
