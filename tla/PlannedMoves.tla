----------------------------- MODULE PlannedMoves -----------------------------
(***************************************************************************)
(* The moves planned for one employee: the page that lists, shows and      *)
(* cancels them, and the server's cancellations taken apart into their     *)
(* statements.  One administrator's page is modelled whole; colleagues     *)
(* cancel, move and plan at the same time.  A cancellation locks no        *)
(* employee: it reads the row to cancel without a lock, locks the row      *)
(* before it, then deletes the one and extends the other.                  *)
(***************************************************************************)
EXTENDS Timeline, QueryCache, Sequences

CONSTANTS
    Mine,         \* the page's request
    Colleague,    \* requests of others
    Nothing,      \* no dialog, no row
    Drawer,       \* the employee's drawer, with the history
    FirstPlans,   \* bound: the plans there are at the start
    MovesTried,   \* bound: the managers and days colleagues move to
    MaxRows,      \* bound: rows ever written
    MaxMoments,   \* bound: moments of the server's history
    LastDay       \* bound: the calendar stops there

Row == [id : 1 .. MaxRows, mgr : ManagerOrNone, from : Day, to : 1 .. Horizon]

OneRowPerId(rows) == \A r, q \in rows : r.id = q.id => r = q

ASSUME BoundsAssumption ==
    /\ MovesTried \subseteq ManagerOrNone \X Day
    /\ LastDay \in Day
    /\ MaxRows \in Nat /\ MaxMoments \in Nat \ {0}

ASSUME PlansAssumption ==
    \A rows \in FirstPlans : rows \in SUBSET Row /\ OneRowPerId(rows) /\ Contiguous(rows)

ASSUME DialogAssumption == Nothing \notin Row /\ Drawer \notin Row /\ Nothing # Drawer

Request == {Mine} \cup Colleague

VARIABLES
    history,    \* the server's moments: the rows that are there, and the day
    request,    \* each cancellation on its way
    crossed,    \* ghost: those passed by a cancellation of a row that touches theirs
    plan,       \* the page's entry for the scheduled changes
    past,       \* its entry for the employee's reporting history
    dialog,     \* what is open over the page: the drawer, or the
                \* confirmation for a change
    cancelled,  \* changes the page was told are cancelled
    missed      \* those of them that had left its list before the answer came

pageVars == <<plan, past, dialog, cancelled, missed>>
vars == <<history, request, crossed, pageVars>>

Now == Len(history)
Rows == history[Now].rows
Today == history[Now].day

\* get_scheduled: what has not come into force.
Scheduled(i) == {r \in history[i].rows : r.from > history[i].day}

\* What the page has, once something has been read.
Listed == IF plan.data = 0 THEN {} ELSE Scheduled(plan.data)

Idle == [step |-> "idle", id |-> 0, row |-> Nothing, before |-> 0]

Steps == {"idle", "sent", "read", "found", "locked", "done", "failed"}

TypeOK ==
    /\ history \in Seq([rows : SUBSET Row, day : Day]) /\ Now \in 1 .. MaxMoments
    /\ request \in [Request -> [step : Steps, id : 0 .. MaxRows,
                                row : Row \cup {Nothing}, before : 0 .. MaxRows]]
    /\ crossed \in SUBSET Request
    /\ {plan, past} \subseteq Entries(1 .. Now)
    /\ dialog \in Row \cup {Nothing, Drawer}
    /\ missed \subseteq cancelled /\ cancelled \subseteq 1 .. MaxRows

Init ==
    /\ \E rows \in FirstPlans : history = <<[rows |-> rows, day |-> 0]>>
    /\ request = [s \in Request |-> Idle]
    /\ crossed = {}
    /\ plan = [NoEntry EXCEPT !.data = 1]
    /\ past = NoEntry
    /\ dialog = Nothing
    /\ cancelled = {}
    /\ missed = {}

Commit(rows, day) ==
    /\ Now < MaxMoments
    /\ history' = Append(history, [rows |-> rows, day |-> day])

-----------------------------------------------------------------------------
(* AssignmentService.cancel_scheduled. *)

At(s, step) == request[s].step = step

\* The answer: a colleague's page is not modelled.
Answered(s, step) ==
    [request EXCEPT ![s] = IF s = Mine THEN [@ EXCEPT !.step = step] ELSE Idle]

\* get: the row as it is committed, with no lock.  It must not be in force.
Readable(s) == \E r \in Rows : r.id = request[s].id /\ r.from > Today

CancelRead(s) ==
    /\ At(s, "sent") /\ Readable(s)
    /\ \E r \in Rows :
        /\ r.id = request[s].id
        /\ request' = [request EXCEPT ![s].step = "read", ![s].row = r]
    /\ UNCHANGED <<history, crossed, pageVars>>

\* 404, or 409 for one in force.
CancelRefused(s) ==
    /\ At(s, "sent") /\ ~Readable(s)
    /\ request' = Answered(s, "failed")
    /\ UNCHANGED <<history, crossed, pageVars>>

\* get_preceding, FOR UPDATE: the statement finds the row that ends where the
\* one to cancel starts ...
CancelFind(s) ==
    /\ At(s, "read")
    /\ request' = [request EXCEPT
        ![s].step = "found",
        ![s].before = LET found == {p \in Rows : p.to = request[s].row.from}
                      IN  IF found = {} THEN 0 ELSE (CHOOSE p \in found : TRUE).id]
    /\ UNCHANGED <<history, crossed, pageVars>>

Locked(id) == {t \in Request : At(t, "locked") /\ request[t].before = id}

\* ... waits until nobody has it locked, and drops it if by then it is gone or
\* ends elsewhere.
CancelLock(s) ==
    LET before == request[s].before IN
    /\ At(s, "found")
    /\ before = 0 \/ Locked(before) = {}
    /\ request' = [request EXCEPT
        ![s].step = "locked",
        ![s].before = IF \E p \in Rows : p.id = before /\ p.to = request[s].row.from
                      THEN before ELSE 0]
    /\ UNCHANGED <<history, crossed, pageVars>>

\* MUTANT of Left: the row before it is left as it is.
LeftUnextended(s) == {q \in Rows : q.id # request[s].id}

\* What s leaves: its row deleted, if it is still there, and the one it has
\* locked extended to where its row ended when it was read.
Left(s) ==
    {IF p.id = request[s].before THEN [p EXCEPT !.to = request[s].row.to] ELSE p :
        p \in {q \in Rows : q.id # request[s].id}}

\* r ends where q starts, or starts where q ends; or starts inside q, where a
\* move made since q was read has put it.
Touches(r, q) == r.to = q.from \/ (q.from < r.from /\ r.from <= q.to)

\* The row to cancel is read and the answer not yet given.
UnderWay(s) == request[s].step \in {"read", "found", "locked"}

\* Those under way whose row the one s cancels touches.
Passed(s) ==
    {t \in Request \ {s} : UnderWay(t) /\ Touches(request[s].row, request[t].row)}

CancelCommit(s) ==
    /\ At(s, "locked")
    /\ Locked(request[s].id) \subseteq {s}
    /\ NoOverlap(Left(s))
    /\ Commit(Left(s), Today)
    /\ request' = Answered(s, "done")
    /\ crossed' = (crossed \cup Passed(s)) \ {s}
    /\ UNCHANGED pageVars

\* The exclusion constraint: the row would overlap a move made meanwhile.
CancelOverlaps(s) ==
    /\ At(s, "locked")
    /\ Locked(request[s].id) \subseteq {s}
    /\ ~NoOverlap(Left(s))
    /\ request' = Answered(s, "failed")
    /\ crossed' = crossed \ {s}
    /\ UNCHANGED <<history, pageVars>>

\* A colleague's, from where it is read: before that it makes no difference.
ColleagueCancels(s) ==
    /\ s \in Colleague /\ At(s, "idle")
    /\ \E r \in Scheduled(Now) :
        request' = [request EXCEPT ![s] = [Idle EXCEPT !.step = "read", !.id = r.id, !.row = r]]
    /\ UNCHANGED <<history, crossed, pageVars>>

\* AssignmentService.reassign by a colleague, whole: it locks the rows it
\* changes, so it waits for a cancellation that holds one of them.
ColleagueMoves(m, f) ==
    LET unused == (1 .. MaxRows) \ UNION {{r.id : r \in history[i].rows} : i \in 1 .. Now}
        next   == SetEdge(Rows, m, f)
    IN
    /\ unused # {}
    /\ \E r \in Rows : r.from <= f
    /\ ~(ManagerAt(Rows, f) = m /\ \A r \in Rows : r.from >= f => r.mgr = m)
    /\ \A r \in Rows : (r.from >= f \/ InForce(r, f)) => Locked(r.id) = {}
    /\ Commit((next \cap Rows) \cup {q \in next : \E r \in Rows : [r EXCEPT !.to = f] = q}
                  \cup {[id |-> CHOOSE i \in unused : \A j \in unused : i <= j,
                         mgr |-> m, from |-> f, to |-> Horizon]}, Today)
    /\ UNCHANGED <<request, crossed, pageVars>>

\* Midnight.  Pages are not told, and a page that does nothing renders nothing.
NextDay ==
    /\ Today < LastDay
    /\ Commit(Rows, Today + 1)
    /\ UNCHANGED <<request, crossed, pageVars>>

-----------------------------------------------------------------------------
(* ScheduledChangesPanel and AssignmentHistoryTimeline. *)

\* Whether the history is shown.
InDrawer == dialog = Drawer

\* The window is focused and what is shown is old enough.
Refocus ==
    /\ plan' = Fetch(plan, Now)
    /\ past' = IF InDrawer THEN Fetch(past, Now) ELSE past
    /\ UNCHANGED <<history, request, crossed, dialog, cancelled, missed>>

PlanArrives ==
    /\ plan.asked # 0
    /\ plan' \in Arrivals(plan, Now)
    /\ UNCHANGED <<history, request, crossed, past, dialog, cancelled, missed>>

PastArrives ==
    /\ past.asked # 0
    /\ past' \in Arrivals(past, Now)
    /\ UNCHANGED <<history, request, crossed, plan, dialog, cancelled, missed>>

\* Somebody is selected.  What is kept of the history may be old enough, or not.
OpenDrawer ==
    /\ dialog = Nothing
    /\ dialog' = Drawer
    /\ past' \in {Mount(past, Now), Fetch(past, Now)}
    /\ UNCHANGED <<history, request, crossed, plan, cancelled, missed>>

IsPending == request[Mine].step # "idle"

\* "Cancel" in the list, disabled while a cancellation is on its way.
AskCancel(r) ==
    /\ ~IsPending
    /\ r \in Listed
    /\ dialog = Nothing
    /\ dialog' = r
    /\ UNCHANGED <<history, request, crossed, plan, past, cancelled, missed>>

\* Escape works while the cancellation is on its way, too.
Close ==
    /\ dialog # Nothing
    /\ dialog' = Nothing
    /\ UNCHANGED <<history, request, crossed, plan, past, cancelled, missed>>

ConfirmCancel ==
    /\ dialog \in Row /\ ~IsPending
    /\ request' = [request EXCEPT ![Mine] = [Idle EXCEPT !.step = "sent", !.id = dialog.id]]
    /\ UNCHANGED <<history, crossed, plan, past, dialog, cancelled, missed>>

\* MUTANT of Invalidated: only what is under the hierarchy's key is.
InvalidatedPlan(id) ==
    /\ plan' = Invalidate(plan, TRUE, Now)
    /\ past' = past

\* The employee's history is invalidated if the row is still in the list.
Invalidated(id) ==
    /\ plan' = Invalidate(plan, TRUE, Now)
    /\ past' = IF id \in {r.id : r \in Listed} THEN Invalidate(past, InDrawer, Now) ELSE past

Succeeds ==
    LET id == request[Mine].id IN
    /\ At(Mine, "done")
    /\ Invalidated(id)
    /\ dialog' = IF InDrawer THEN Drawer ELSE Nothing
    /\ cancelled' = cancelled \cup {id}
    /\ missed' = IF id \in {r.id : r \in Listed} THEN missed ELSE missed \cup {id}
    /\ request' = [request EXCEPT ![Mine] = Idle]
    /\ UNCHANGED <<history, crossed>>

\* The dialog stays, to try again.
Fails ==
    /\ At(Mine, "failed")
    /\ request' = [request EXCEPT ![Mine] = Idle]
    /\ UNCHANGED <<history, crossed, plan, past, dialog, cancelled, missed>>

\* The answer is lost, whether it was carried out or not.
AnswerLost ==
    /\ At(Mine, "done")
    /\ request' = [request EXCEPT ![Mine].step = "failed"]
    /\ UNCHANGED <<history, crossed, pageVars>>

-----------------------------------------------------------------------------

Cancels(s) ==
    \/ CancelRead(s) \/ CancelRefused(s) \/ CancelFind(s)
    \/ CancelLock(s) \/ CancelCommit(s) \/ CancelOverlaps(s)

Next ==
    \/ \E s \in Request : Cancels(s) \/ ColleagueCancels(s)
    \/ \E move \in MovesTried : ColleagueMoves(move[1], move[2])
    \/ NextDay
    \/ \E r \in Listed : AskCancel(r)
    \/ Refocus \/ PlanArrives \/ PastArrives \/ OpenDrawer
    \/ Close \/ ConfirmCancel \/ Succeeds \/ Fails \/ AnswerLost

Spec == Init /\ [][Next]_vars

-----------------------------------------------------------------------------
\* Nothing is in flight for an entry, and its last request did what it should.
Settled(q) == q.data # 0 /\ q.asked = 0 /\ ~q.behind

\* A change the page was told is cancelled is not offered any more, in any order
\* of answers.  Nor does the history that is shown list it, unless the list had
\* lost the row before the cancellation was answered, when nobody knew whose
\* history it was.
CancelledIsGone ==
    /\ Settled(plan) => \A r \in Listed : r.id \notin cancelled
    /\ (InDrawer /\ Settled(past)) =>
            \A r \in history[past.data].rows : r.id \notin cancelled \ missed

\* Only cancellations that overlap, of rows that adjoin or of one that a move
\* put inside the other, leave the employee without a row for some days; a
\* cancellation and a move alone never do.
GapsNeedAdjoiningCancels ==
    [][NoGap(Rows) /\ ~NoGap(Rows')
        => \E s \in crossed : CancelCommit(s)]_vars

\* "Cancelling removes that move, so they keep their current manager": two
\* administrators who cancel adjoining moves leave the employee without any.
CancelKeepsManager == NoGap(Rows)
=============================================================================
