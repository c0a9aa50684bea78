--------------------------- MODULE EffectiveDating ---------------------------
(***************************************************************************)
(* The write side of the employee hierarchy: the employee table with its   *)
(* cached manager_id, the employee_assignment table with the dated         *)
(* reporting edges, and the operations that change them: creation, moves,  *)
(* cancellations, deletions, restores and the import.  An operation        *)
(* is one database transaction and one action: it is the whole handler,    *)
(* the sync that opens it and the deferred trigger that closes it          *)
(* included.  A handler that raises rolls everything back and is no step.  *)
(*                                                                         *)
(* Transactions do not overlap here; module ConcurrentMoves takes them     *)
(* apart.  Field edits, audit rows and the uniqueness of numbers and       *)
(* e-mails are left out: none of them reads or writes an edge.             *)
(***************************************************************************)
EXTENDS Timeline, Sequences

CONSTANT MaxRows   \* bound: the rows of a file that is imported

ASSUME MaxRowsAssumption == MaxRows \in Nat

VARIABLES
    exists,      \* ids that have an employee row, deleted or not
    deletedAt,   \* the day of deleted_at; Horizon stands for NULL
    manager,     \* employee.manager_id, the cache of today's edge
    timeline,    \* the employee_assignment rows of each employee
    today        \* CURRENT_DATE

vars == <<exists, deletedAt, manager, timeline, today>>

\* deleted_at IS NULL
Present(e) == e \in exists /\ deletedAt[e] = Horizon

PresentEmployees == {e \in exists : deletedAt[e] = Horizon}

\* Not yet deleted as at day d.
AliveAt(d) == {e \in exists : d < deletedAt[e]}

\* The edges in force on day d of the timelines tl, of departed people too.
EdgesOn(tl, d) == [e \in Employee |-> ManagerAt(tl[e], d)]

TypeOK ==
    /\ exists \in SUBSET Employee
    /\ deletedAt \in [Employee -> 0 .. Horizon]
    /\ manager \in Structure
    /\ timeline \in [Employee -> SUBSET Run]
    /\ today \in Day

-----------------------------------------------------------------------------
(* The two pieces of SQL every write goes through. *)

\* MUTANT of Synced: compares with <> and so never clears a manager.
SyncedSkipsRoots(tl, cache) ==
    [e \in Employee |->
        IF Present(e) /\ HasRunAt(tl[e], today) /\ ManagerAt(tl[e], today) # NoManager
        THEN ManagerAt(tl[e], today) ELSE cache[e]]

\* sync_effective_assignments(): the cache of everybody present follows the
\* row in force today, if there is one.
Synced(tl, cache) ==
    [e \in Employee |->
        IF Present(e) /\ HasRunAt(tl[e], today) THEN ManagerAt(tl[e], today) ELSE cache[e]]

\* The manager_id updates that turn one cache into the next.
Updates(before, after) == {<<e, after[e]>> : e \in {x \in Employee : before[x] # after[x]}}

\* MUTANT of TriggerPasses: only the row's own CHECK is left.
TriggerChecksSelfOnly(updates, final) == \A u \in updates : u[2] # u[1]

\* The deferred constraint trigger: for each row version an update wrote, the
\* walk from the manager it wrote, over the structure about to be committed,
\* must not come back to the row.  The walk visits departed people too.  (One
\* that neither comes back nor ends needs a loop nobody updated: CacheAcyclic.)
TriggerPasses(updates, final) ==
    \A u \in updates : u[2] # NoManager => ~Reaches(final, u[2], u[1])

-----------------------------------------------------------------------------
(* The state the effective-dating migration leaves: an open-ended row from *)
(* day 0 for everybody present, none for those already deleted.            *)
Init ==
    /\ exists \in SUBSET Employee
    /\ deletedAt \in [Employee -> {0, Horizon}]
    /\ manager \in Structure
    /\ \A e \in Employee :
        IF e \in exists
        THEN manager[e] \in (IF Present(e) THEN PresentEmployees ELSE exists) \cup {NoManager}
        ELSE manager[e] = NoManager /\ deletedAt[e] = Horizon
    /\ Acyclic(manager)
    /\ timeline = [e \in Employee |->
                    IF Present(e) THEN {[mgr |-> manager[e], from |-> 0, to |-> Horizon]} ELSE {}]
    /\ today = 0

\* A day passes; nothing runs by itself at midnight.
NextDay ==
    /\ today + 1 \in Day
    /\ today' = today + 1
    /\ UNCHANGED <<exists, deletedAt, manager, timeline>>

\* The process starts, or a write that touches no edge commits.
Sync ==
    /\ manager' = Synced(timeline, manager)
    /\ TriggerPasses(Updates(manager, manager'), manager')
    /\ UNCHANGED <<exists, deletedAt, timeline, today>>

\* EmployeeService.create: the manager needs a row, not to be present.
Create(e, m) ==
    LET landed == Synced(timeline, manager) IN
    /\ e \notin exists
    /\ m \in exists \cup {NoManager}
    /\ exists' = exists \cup {e}
    /\ manager' = [landed EXCEPT ![e] = m]
    /\ timeline' = [timeline EXCEPT ![e] = SetEdge(@, m, today)]
    /\ TriggerPasses(Updates(manager, landed) \cup {<<e, m>>}, manager')
    /\ UNCHANGED <<deletedAt, today>>

\* MUTANT of AcyclicMove: checks the effective date alone.
AcyclicMoveOnDay(e, m, f) ==
    m # NoManager => m # e /\ ~IsDescendant(EdgesOn(timeline, f), m, e)

\* _assert_acyclic: checked on the day itself and on every later day on which
\* anybody's edge changes.
AcyclicMove(e, m, f) ==
    m # NoManager =>
        /\ m # e
        /\ \A d \in {f} \cup BoundaryDays(timeline, f) : ~IsDescendant(EdgesOn(timeline, d), m, e)

\* The move says nothing the timeline does not say already.
ManagerUnchanged(e, m, f) ==
    /\ ManagerAt(timeline[e], f) = m
    /\ \A r \in timeline[e] : r.from >= f => r.mgr = m

\* AssignmentService.reassign, on any day from the employee's first row on.
Reassign(e, m, f) ==
    LET landed == Synced(timeline, manager) IN
    /\ Present(e)
    /\ m # NoManager => Present(m)
    /\ timeline[e] = {} \/ \E r \in timeline[e] : r.from <= f
    /\ AcyclicMove(e, m, f)
    /\ ~ManagerUnchanged(e, m, f)
    /\ timeline' = [timeline EXCEPT ![e] = SetEdge(@, m, f)]
    /\ manager' = IF f <= today THEN Synced(timeline', landed) ELSE landed
    /\ TriggerPasses(Updates(manager, landed) \cup Updates(landed, manager'), manager')
    /\ UNCHANGED <<exists, deletedAt, today>>

\* AssignmentService.cancel_scheduled.
CancelScheduled(e, r) ==
    /\ r \in timeline[e]
    /\ r.from > today
    /\ timeline' = [timeline EXCEPT ![e] = CancelRun(@, r)]
    /\ manager' = Synced(timeline, manager)
    /\ TriggerPasses(Updates(manager, manager'), manager')
    /\ UNCHANGED <<exists, deletedAt, today>>

-----------------------------------------------------------------------------
(* Deletion policies.  The reports are found, and moved, before anything   *)
(* has synced in the transaction: by the cache as the last write left it.  *)

DirectReports(x) == {r \in PresentEmployees : manager[r] = x}

\* soft_delete, of each of S.
SoftDeleted(S) == [e \in Employee |-> IF e \in S THEN today ELSE deletedAt[e]]

\* MUTANT of DeleteMovingReports: the reports are moved in the cache alone.
DeleteMovingCache(x, m) ==
    LET moved == [e \in Employee |-> IF e \in DirectReports(x) THEN m ELSE manager[e]] IN
    /\ Present(x)
    /\ manager' = Synced(timeline, moved)
    /\ deletedAt' = SoftDeleted({x})
    /\ TriggerPasses(Updates(manager, moved) \cup Updates(moved, manager'), manager')
    /\ UNCHANGED <<exists, timeline, today>>

\* _reassign_reports followed by soft_delete.
DeleteMovingReports(x, m) ==
    LET reports == DirectReports(x)
        moved   == [e \in Employee |-> IF e \in reports THEN m ELSE manager[e]]
    IN
    /\ Present(x)
    /\ timeline' = [e \in Employee |->
                        IF e \in reports THEN SetEdge(timeline[e], m, today) ELSE timeline[e]]
    /\ manager' = Synced(timeline', moved)
    /\ deletedAt' = SoftDeleted({x})
    /\ TriggerPasses(Updates(manager, moved) \cup Updates(moved, manager'), manager')
    /\ UNCHANGED <<exists, today>>

DeleteReparent(x) == DeleteMovingReports(x, manager[x])

DeletePromoteToRoot(x) == DeleteMovingReports(x, NoManager)

\* The cached subtree, walked over present people only.
CachedSubtree(x) ==
    {c \in PresentEmployees :
        \A S \in SUBSET PresentEmployees :
            x \in S /\ (\A y \in PresentEmployees : manager[y] \in S => y \in S) => c \in S}

DeleteCascade(x) ==
    /\ Present(x)
    /\ deletedAt' = SoftDeleted(CachedSubtree(x))
    /\ manager' = Synced(timeline, manager)
    /\ TriggerPasses(Updates(manager, manager'), manager')
    /\ UNCHANGED <<exists, timeline, today>>

\* EmployeeService.restore: the sync runs while the row is still deleted.
Restore(x) ==
    /\ x \in exists /\ ~Present(x)
    /\ deletedAt' = [deletedAt EXCEPT ![x] = Horizon]
    /\ manager' = Synced(timeline, manager)
    /\ TriggerPasses(Updates(manager, manager'), manager')
    /\ UNCHANGED <<exists, timeline, today>>

-----------------------------------------------------------------------------
(* ImportService: the rows of a file, each an employee and the manager the *)
(* file gives.  ImportService.tla takes this transaction apart.            *)

ImportRow == [who : Employee, to : ManagerOrNone]

\* Nobody is in a file twice.
ImportFile ==
    {rows \in UNION {[1 .. n -> ImportRow] : n \in 1 .. MaxRows} :
        \A i, j \in DOMAIN rows : rows[i].who = rows[j].who => i = j}

Named(rows) == {rows[i].who : i \in DOMAIN rows}

\* The manager the file gives to somebody it names.
Asked(rows, e) == rows[CHOOSE i \in DOMAIN rows : rows[i].who = e].to

\* The structure validate looks at: of people present, with the file's managers.
Planned(rows) ==
    [e \in Employee |->
        IF e \in Named(rows) THEN Asked(rows, e)
        ELSE IF Present(e) /\ manager[e] \in PresentEmployees THEN manager[e]
        ELSE NoManager]

\* Nobody has the number of a new row; managers are in the file or present; and
\* no row is in a loop.
Validated(rows) ==
    \A i \in DOMAIN rows :
        /\ rows[i].who \in PresentEmployees \cup (Employee \ exists)
        /\ rows[i].to \in Named(rows) \cup PresentEmployees \cup {NoManager}
        /\ rows[i].to # NoManager => ~Reaches(Planned(rows), rows[i].to, rows[i].who)

\* The employees a file gives another manager than they had when the rows were
\* loaded, before the sync.  Somebody new has none.
MovedBy(rows) == {e \in Named(rows) : Asked(rows, e) # manager[e]}

\* The cache when the rows before i have been worked off.
HalfImported(rows, i) ==
    LET done == {rows[j].who : j \in 1 .. (i - 1)} \cap MovedBy(rows)
    IN  [e \in Employee |->
            IF e \in done THEN Asked(rows, e) ELSE Synced(timeline, manager)[e]]

\* reassign_manager, for row after row: today's cache is all it looks at, and
\* the new edge is open-ended from today.
Import(rows) ==
    LET landed == Synced(timeline, manager)
        moved  == MovedBy(rows)
        new    == Named(rows) \ exists
    IN
    /\ Validated(rows)
    /\ \A i \in DOMAIN rows :
          rows[i].who \in moved /\ rows[i].to # NoManager
              => ~IsDescendant(HalfImported(rows, i), rows[i].to, rows[i].who)
    /\ exists' = exists \cup new
    /\ timeline' = [e \in Employee |->
                        IF e \in moved \cup new THEN SetEdge(timeline[e], Asked(rows, e), today)
                        ELSE timeline[e]]
    /\ manager' = [e \in Employee |-> IF e \in moved THEN Asked(rows, e) ELSE landed[e]]
    /\ TriggerPasses(Updates(manager, landed) \cup {<<e, Asked(rows, e)>> : e \in moved}, manager')
    /\ UNCHANGED <<deletedAt, today>>

Next ==
    \/ NextDay
    \/ Sync
    \/ \E e \in Employee, m \in ManagerOrNone : Create(e, m)
    \/ \E e \in Employee, m \in ManagerOrNone, f \in Day : Reassign(e, m, f)
    \/ \E e \in Employee : \E r \in timeline[e] : CancelScheduled(e, r)
    \/ \E x \in Employee : DeleteReparent(x)
    \/ \E x \in Employee : DeletePromoteToRoot(x)
    \/ \E x \in Employee : DeleteCascade(x)
    \/ \E x \in Employee : Restore(x)
    \/ \E rows \in ImportFile : Import(rows)

Spec == Init /\ [][Next]_vars

-----------------------------------------------------------------------------
(* Safety invariants. *)

\* Every timeline is a sequence of adjoining runs with no overlap, the last
\* one open-ended: what moves, deletions and cancellations of the rows of one
\* employee, in any order, must leave behind.
TimelinesContiguous == \A e \in Employee : Contiguous(timeline[e])

\* The cached structure has no loop, departed people included, although the
\* trigger looks only at the rows a transaction updated.
CacheAcyclic == Acyclic(manager)

\* Cancelling a move that was scheduled behind everything else gives back the
\* timeline as it was: set_edge and cancel_scheduled are inverse there.
CancelUndoesSchedule ==
    \A e \in Employee, m \in ManagerOrNone, f \in Day :
        (f > today /\ \A r \in timeline[e] : r.from < f)
            => CancelRun(SetEdge(timeline[e], m, f), [mgr |-> m, from |-> f, to |-> Horizon])
                   = timeline[e]

\* On every day whose edges have no loop the as-at tree query shows everybody
\* alive, also those whose manager has left: nobody's branch is stranded.
ChartComplete ==
    \A d \in Day :
        Acyclic(EdgesOn(timeline, d))
            => Charted(EdgesOn(timeline, d), AliveAt(d)) = AliveAt(d)

-----------------------------------------------------------------------------
(* Action properties. *)

\* A loop is closed on a day only by taking back a change that was in force on it,
\* or, today or later, by handing the reports of somebody deleted on or by a file.
\* Both look at today's cache alone; and so what they close today has somebody in
\* it who has left.  A move, a new employee, a promotion, a restore or the
\* calendar closes no loop on any day, past or future.
LoopsHaveACause ==
    [][\A d \in Day :
        Acyclic(EdgesOn(timeline, d)) /\ ~Acyclic(EdgesOn(timeline', d))
            => \/ \E e \in Employee : \E r \in timeline[e] : CancelScheduled(e, r) /\ InForce(r, d)
               \/ /\ d >= today
                  /\ \/ \E x \in Employee : DeleteReparent(x)
                     \/ \E rows \in ImportFile : Import(rows)
                  /\ d = today
                        => \A S \in SUBSET PresentEmployees' :
                               S # {} => \E x \in S : EdgesOn(timeline', d)[x] \notin S]_vars

\* Where somebody stood on a day gone by changes only by a move backdated to
\* that day or before it.
PastIsStable ==
    [][\A e \in Employee, d \in Day :
        d < today /\ ManagerAt(timeline'[e], d) # ManagerAt(timeline[e], d)
            => \E m \in ManagerOrNone, f \in Day : f <= d /\ Reassign(e, m, f)]_vars

\* After any committed write the cache of everybody present, except somebody
\* this write restored, is the edge in force today.
CacheInStep ==
    [][today' = today =>
        \A e \in exists' :
            (deletedAt[e] = Horizon /\ deletedAt'[e] = Horizon /\ HasRunAt(timeline'[e], today))
                => manager'[e] = ManagerAt(timeline'[e], today)]_vars

\* However somebody is deleted, nobody present is left under them today whose
\* cached manager was the one in force: the report was found by the cache and
\* moved, or deleted as well.
NobodyLeftToday ==
    [][\A x \in Employee :
        DeleteReparent(x) \/ DeletePromoteToRoot(x) \/ DeleteCascade(x)
            => \A e \in exists :
                   (deletedAt'[e] = Horizon /\ manager[e] = ManagerAt(timeline[e], today))
                       => ManagerAt(timeline'[e], today) # x]_vars

-----------------------------------------------------------------------------
(* Refinement: the rows are an implementation of the dated chart. *)

Chart == INSTANCE OrgChart WITH
    chart <- [e \in Employee |-> [d \in Day |-> ManagerAt(timeline[e], d)]],
    staff <- PresentEmployees

\* Every transaction, with all the rows it splits, drops and joins, gives one
\* manager from one day on (a file one to each of its people, from today on), or
\* takes back one future change; nothing else on the chart moves.
ImplementsChart == Chart!Spec

-----------------------------------------------------------------------------
(* What comments in the code say, and the code does not do. *)

\* "Reject a move that is cyclic at its own date or at any later one": no day
\* has a loop.  Cancelling a scheduled change makes one.
NoLoopOnAnyDay == \A d \in Day : Acyclic(EdgesOn(timeline, d))

\* "any that fell due while the process was down are applied here": when
\* everybody ever employed has a row in force today and those edges have no loop,
\* the sync that applies them commits.  The stale cache of a departed employee
\* makes the trigger refuse it.
DueChangesApply ==
    (/\ Acyclic(EdgesOn(timeline, today))
     /\ \A e \in exists : HasRunAt(timeline[e], today))
        => LET landed == Synced(timeline, manager)
           IN  TriggerPasses(Updates(manager, landed), landed)

\* "Deleting a manager reparents their reports from that day on": nobody
\* present is left under them, today or later.  A report that is still
\* scheduled, or landed today, is left.
DeletionLeavesNoReport ==
    [][\A x \in Employee :
        DeleteReparent(x)
            => \A e \in Employee, d \in Day :
                   (d >= today /\ e \in exists' /\ deletedAt'[e] = Horizon)
                       => ManagerAt(timeline'[e], d) # x]_vars
=============================================================================
