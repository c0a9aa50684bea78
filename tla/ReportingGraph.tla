--------------------------- MODULE ReportingGraph ---------------------------
(***************************************************************************)
(* The reporting structure seen as a graph: every employee has at most one *)
(* manager, so a structure is a function from employees to a manager or to *)
(* NoManager.  The code walks such a structure with recursive SQL; here    *)
(* "reached by the walk" is "in every closed set that contains the start", *)
(* which needs no recursion and is what the proofs reason about.           *)
(***************************************************************************)
EXTENDS FiniteSets

CONSTANTS
    Employee,     \* the ids an employee row can have
    NoManager     \* NULL in a manager_id column

ASSUME EmployeeAssumption == IsFiniteSet(Employee) /\ NoManager \notin Employee

ManagerOrNone == Employee \cup {NoManager}

\* A structure: who reports to whom.
Structure == [Employee -> ManagerOrNone]

\* The set S is closed under "the manager of".
UpClosed(g, S) == \A x \in S : g[x] # NoManager => g[x] \in S

\* The set S is closed under "reports to somebody in".
DownClosed(g, S) == \A x \in Employee : g[x] \in S => x \in S

\* Walking up from `start`, managers included, arrives at `target`.
Reaches(g, start, target) ==
    \A S \in SUBSET Employee :
        start \in S /\ UpClosed(g, S) => target \in S

\* `candidate` is in the subtree of `of`, itself included.
IsDescendant(g, candidate, of) ==
    \A S \in SUBSET Employee :
        of \in S /\ DownClosed(g, S) => candidate \in S

\* Nobody is above themselves: every group has a member whose manager is
\* outside it.
Acyclic(g) ==
    \A S \in SUBSET Employee : S # {} => \E x \in S : g[x] \notin S

\* MUTANT of IsRoot: a root is somebody with no manager.
IsRootByNull(g, alive, x) == g[x] = NoManager

\* Where a chart starts: somebody with no manager, or whose manager is not
\* among those alive.
IsRoot(g, alive, x) == g[x] \notin alive

\* The members of `alive` a chart drawn downwards from its roots shows.
Charted(g, alive) ==
    {x \in alive :
        \A S \in SUBSET alive :
            /\ \A y \in alive : IsRoot(g, alive, y) => y \in S
            /\ \A y \in alive : g[y] \in S => y \in S
            => x \in S}
=============================================================================
