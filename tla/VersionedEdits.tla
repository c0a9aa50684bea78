---------------------------- MODULE VersionedEdits ----------------------------
(***************************************************************************)
(* One employee row and the clients that change it under If-Match: a PATCH *)
(* of its fields, a move today, a move scheduled for a later day.  Each    *)
(* request opens with the sync, which brings the row's manager_id in step  *)
(* with the edge in force and bumps its version.  Statements of different  *)
(* requests interleave at READ COMMITTED.                                  *)
(***************************************************************************)
EXTENDS Integers

CONSTANTS
    Client,
    Manager,      \* whom the employee can report to
    Nobody,       \* no client; no scheduled manager; no edit yet
    MaxVersion    \* bound: no client reads a row of a later version

ASSUME ClientAssumption == Nobody \notin Client

ASSUME VersionAssumption == MaxVersion \in Nat \ {0}

VARIABLES
    row,       \* the committed row
    edge,      \* the committed edge in force today
    planned,   \* the committed edge of a later day
    holder,    \* the client whose transaction has the row locked
    mine,      \* what each client's transaction has written
    seen,      \* the row as each client last read it
    loaded,    \* the version each transaction has in memory
    pc,        \* what each client's request does next
    goal,      \* the manager a move is to give
    overtaken  \* the row was written by another since this request's check

vars == <<row, edge, planned, holder, mine, seen, loaded, pc, goal, overtaken>>

Row == [version : 1 .. MaxVersion + 4, manager : Manager, content : Client \cup {Nobody}]

TypeOK ==
    /\ row \in Row
    /\ edge \in Manager
    /\ planned \in Manager \cup {Nobody}
    /\ holder \in Client \cup {Nobody}
    /\ mine \in [Client -> Row \cup {Nobody}]
    /\ seen \in [Client -> Row]
    /\ loaded \in [Client -> Nat]
    /\ pc \in [Client -> {"idle", "read", "edit", "change", "edited",
                          "move", "moved", "plan", "planned"}]
    /\ goal \in [Client -> Manager \cup {Nobody}]
    /\ overtaken \in [Client -> BOOLEAN]

Fresh == [version |-> 1, manager |-> edge, content |-> Nobody]

Init ==
    /\ edge \in Manager
    /\ planned \in Manager \cup {Nobody}
    /\ row = Fresh
    /\ holder = Nobody
    /\ mine = [c \in Client |-> Nobody]
    /\ seen = [c \in Client |-> Fresh]
    /\ loaded = [c \in Client |-> 0]
    /\ pc = [c \in Client |-> "idle"]
    /\ goal = [c \in Client |-> Nobody]
    /\ overtaken = [c \in Client |-> FALSE]

\* What the statements of c see of the row.
Visible(c) == IF holder = c THEN mine[c] ELSE row

Free(c) == holder \in {c, Nobody}

\* The transaction of c ends and its lock goes; other variables follow from how.
End(c) ==
    /\ pc' = [pc EXCEPT ![c] = "idle"]
    /\ holder' = IF holder = c THEN Nobody ELSE holder
    /\ loaded' = [loaded EXCEPT ![c] = 0]
    /\ mine' = [mine EXCEPT ![c] = Nobody]
    /\ goal' = [goal EXCEPT ![c] = Nobody]

\* The request raises: its sync is undone with the rest of it.
Rollback(c) ==
    /\ End(c)
    /\ overtaken' = [overtaken EXCEPT ![c] = FALSE]
    /\ UNCHANGED <<row, edge, planned, seen>>

\* The request commits `new` as the row.
Publish(c, new) ==
    /\ End(c)
    /\ row' = new
    /\ overtaken' = [d \in Client |->
                        /\ d # c
                        /\ \/ overtaken[d]
                           \/ new # row /\ pc[d] \in {"change", "edited", "moved", "planned"}]
    /\ UNCHANGED seen

\* The client reads the row.  No read syncs.
Read(c) ==
    /\ pc[c] = "idle"
    /\ row.version <= MaxVersion
    /\ seen' = [seen EXCEPT ![c] = row]
    /\ pc' = [pc EXCEPT ![c] = "read"]
    /\ UNCHANGED <<row, edge, planned, holder, mine, loaded, goal, overtaken>>

\* Midnight, with no request in flight: the scheduled edge is now in force.
DayPasses ==
    /\ planned # Nobody
    /\ \A c \in Client : pc[c] \in {"idle", "read"}
    /\ edge' = planned
    /\ planned' = Nobody
    /\ UNCHANGED <<row, holder, mine, seen, loaded, pc, goal, overtaken>>

\* MUTANT of Synced: a row that is in step is written as well.
SyncedAnyway(c) ==
    /\ Free(c)
    /\ holder' = c
    /\ mine' = [mine EXCEPT ![c] = [row EXCEPT !.manager = edge, !.version = @ + 1]]

\* The sync a request opens with: it writes the row only when it is out of step.
Synced(c) ==
    IF row.manager = edge
    THEN UNCHANGED <<holder, mine>>
    ELSE /\ Free(c)
         /\ holder' = c
         /\ mine' = [mine EXCEPT ![c] = [row EXCEPT !.manager = edge, !.version = @ + 1]]

-----------------------------------------------------------------------------
(* EmployeeService.update. *)

EditBegin(c) ==
    /\ pc[c] = "read"
    /\ Synced(c)
    /\ pc' = [pc EXCEPT ![c] = "edit"]
    /\ UNCHANGED <<row, edge, planned, seen, loaded, goal, overtaken>>

EditLoad(c) ==
    /\ pc[c] = "edit"
    /\ Visible(c).version = seen[c].version
    /\ loaded' = [loaded EXCEPT ![c] = Visible(c).version]
    /\ pc' = [pc EXCEPT ![c] = "change"]
    /\ UNCHANGED <<row, edge, planned, holder, mine, seen, goal, overtaken>>

EditConflict(c) ==
    /\ pc[c] = "edit"
    /\ Visible(c).version # seen[c].version
    /\ Rollback(c)

\* MUTANT of EditFlush: every column is written, as the client read it.
EditFlushWholeRow(c) ==
    /\ pc[c] = "change"
    /\ Free(c)
    /\ holder' = c
    /\ mine' = [mine EXCEPT ![c] = [seen[c] EXCEPT !.content = c, !.version = loaded[c] + 1]]
    /\ pc' = [pc EXCEPT ![c] = "edited"]
    /\ UNCHANGED <<row, edge, planned, seen, loaded, goal, overtaken>>

\* The UPDATE names the changed columns and the version counted in memory.
EditFlush(c) ==
    /\ pc[c] = "change"
    /\ Free(c)
    /\ holder' = c
    /\ mine' = [mine EXCEPT ![c] = [Visible(c) EXCEPT !.content = c, !.version = loaded[c] + 1]]
    /\ pc' = [pc EXCEPT ![c] = "edited"]
    /\ UNCHANGED <<row, edge, planned, seen, loaded, goal, overtaken>>

EditCommit(c) ==
    /\ pc[c] = "edited"
    /\ Publish(c, mine[c])
    /\ UNCHANGED <<edge, planned>>

-----------------------------------------------------------------------------
(* AssignmentService.reassign. *)

MoveBegin(c, m) ==
    /\ pc[c] = "read"
    /\ Synced(c)
    /\ goal' = [goal EXCEPT ![c] = m]
    /\ pc' = [pc EXCEPT ![c] = "move"]
    /\ UNCHANGED <<row, edge, planned, seen, loaded, overtaken>>

\* MUTANT of MoveLock: the row is read without FOR UPDATE.
MoveReadOnly(c) ==
    /\ pc[c] = "move"
    /\ Visible(c).version = seen[c].version
    /\ mine' = [mine EXCEPT ![c] = Visible(c)]
    /\ pc' = [pc EXCEPT ![c] = "moved"]
    /\ UNCHANGED <<row, edge, planned, holder, seen, loaded, goal, overtaken>>

\* FOR UPDATE, then the version check; the flow goes on to today or a later day.
MoveLock(c) ==
    /\ pc[c] = "move"
    /\ Free(c)
    /\ Visible(c).version = seen[c].version
    /\ holder' = c
    /\ mine' = [mine EXCEPT ![c] = Visible(c)]
    /\ \E next \in {"moved", "planned"} : pc' = [pc EXCEPT ![c] = next]
    /\ UNCHANGED <<row, edge, planned, seen, loaded, goal, overtaken>>

MoveConflict(c) ==
    /\ pc[c] = "move"
    /\ Free(c)
    /\ Visible(c).version # seen[c].version
    /\ Rollback(c)

\* The move would say nothing new: its day has that manager, and what is
\* scheduled from there on says the same.
Unchanged(c) ==
    IF pc[c] = "moved" THEN goal[c] = edge /\ planned \in {Nobody, goal[c]}
                       ELSE goal[c] = IF planned = Nobody THEN edge ELSE planned

\* MUTANT of MoveCommit: the forced sync leaves the version alone.
MoveCommitUnversioned(c) ==
    /\ pc[c] = "moved"
    /\ ~Unchanged(c)
    /\ edge' = goal[c]
    /\ planned' = Nobody
    /\ Publish(c, [mine[c] EXCEPT !.manager = goal[c]])

\* In force today: the edge changes, later ones go, the forced sync follows.
MoveCommit(c) ==
    /\ pc[c] = "moved"
    /\ ~Unchanged(c)
    /\ edge' = goal[c]
    /\ planned' = Nobody
    /\ Publish(c, IF mine[c].manager = goal[c] THEN mine[c]
                  ELSE [mine[c] EXCEPT !.manager = goal[c], !.version = @ + 1])

\* In force later: the row and its version stay as they are.
PlanCommit(c) ==
    /\ pc[c] = "planned"
    /\ ~Unchanged(c)
    /\ planned' = goal[c]
    /\ Publish(c, mine[c])
    /\ UNCHANGED edge

MoveUnchanged(c) ==
    /\ pc[c] \in {"moved", "planned"}
    /\ Unchanged(c)
    /\ Rollback(c)

Next ==
    \/ DayPasses
    \/ \E c \in Client :
        \/ Read(c)
        \/ EditBegin(c) \/ EditLoad(c) \/ EditConflict(c) \/ EditFlush(c) \/ EditCommit(c)
        \/ \E m \in Manager : MoveBegin(c, m)
        \/ MoveLock(c) \/ MoveConflict(c) \/ MoveCommit(c) \/ PlanCommit(c) \/ MoveUnchanged(c)

Spec == Init /\ [][Next]_vars

-----------------------------------------------------------------------------

\* Whatever is committed, the row names the manager in force: an edit that was
\* loaded before a move was committed does not put the old manager back.
WritesLeaveRowInStep == [][row' # row => row'.manager = edge']_vars

\* What a move checked still holds when it is committed: nobody's write of the
\* row gets in between.
MovesAreNotOvertaken ==
    [][\A c \in Client : MoveCommit(c) \/ PlanCommit(c) => ~overtaken[c]]_vars

\* Every write of the row raises its version, so that If-Match tells the rows
\* apart; save an edit that another write overtook after its version check.
VersionsRepeatOnlyByOverlap ==
    [][row' # row /\ row'.version <= row.version
        => \E c \in Client : EditCommit(c) /\ overtaken[c]]_vars

\* A client that read the row as it is gets a conflict only when a scheduled
\* change fell due and no write has synced it yet.
ConflictMeansChangedOrDue ==
    [][\A c \in Client :
        EditConflict(c) \/ MoveConflict(c) => row # seen[c] \/ row.manager # edge]_vars

-----------------------------------------------------------------------------
(* What a test and an error message say, and the code does not do. *)

\* "second update with same stale version is rejected": an edit is committed on
\* the very version its client read.  Two that overlap both load it.
EditsBuildOnWhatWasRead ==
    [][\A c \in Client : EditCommit(c) => row.version = seen[c].version]_vars

\* "The record changed since it was last read": a conflict is answered only then.
\* The request's own sync changes the version, and is undone with the request.
ConflictMeansChanged ==
    [][\A c \in Client : EditConflict(c) \/ MoveConflict(c) => row # seen[c]]_vars
=============================================================================
