--------------------------- MODULE ConcurrentMoves ---------------------------
(***************************************************************************)
(* Present-day moves and deletions, several at a time.  Here a request is  *)
(* what PostgreSQL makes of it at READ COMMITTED: a sequence of statements *)
(* that see what is committed when they start, row locks held to the end   *)
(* of the transaction, a trigger that runs when COMMIT starts, and the     *)
(* commit itself.  EffectiveDating has the same requests in one step.      *)
(*                                                                         *)
(* Only the cached structure is kept: in a transaction that commits, the   *)
(* rows in force today say the same.                                       *)
(***************************************************************************)
EXTENDS Integers, ReportingGraph

CONSTANTS
    Mover,     \* sessions that serve reassignments
    Deleter    \* sessions that serve deletions

\* The rows to lock are sorted by id.
ASSUME IdsAreOrdered == Employee \subseteq Int

ASSUME SessionsServeOneKind == Mover \cap Deleter = {}

Session == Mover \cup Deleter

VARIABLES
    manager,   \* committed employee.manager_id
    deleted,   \* committed: who has deleted_at set
    pc,        \* what each session's request does next
    who,       \* the employee it is about
    to,        \* the manager it gives
    rest,      \* the rows it still has to lock, or to write
    moved,     \* the rows it has written
    held,      \* its row locks: pairs of a row and a mode
    stale,     \* somebody committed a write of `who` since the client read it
    strangers  \* since its check, somebody committed a move of other people only

vars == <<manager, deleted, pc, who, to, rest, moved, held, stale, strangers>>

Step == {"idle", "lock", "ready", "find", "read", "write", "refer", "checked"}

\* FOR UPDATE; the lock of an UPDATE; the lock a foreign key check takes.
Mode == {"update", "write", "share"}

TypeOK ==
    /\ manager \in Structure
    /\ deleted \in SUBSET Employee
    /\ pc \in [Session -> Step]
    /\ who \in [Session -> ManagerOrNone]
    /\ to \in [Session -> ManagerOrNone]
    /\ rest \in [Session -> SUBSET Employee]
    /\ moved \in [Session -> SUBSET Employee]
    /\ held \in [Session -> SUBSET (Employee \X Mode)]
    /\ stale \in [Session -> BOOLEAN]
    /\ strangers \in [Session -> BOOLEAN]

-----------------------------------------------------------------------------
(* Row locks. *)

Compatible(a, b) == {a, b} \subseteq {"share", "write"} /\ "share" \in {a, b}

\* The sessions that keep s from locking row e.
Blockers(s, e, mode) ==
    {t \in Session \ {s} : \E k \in held[t] : k[1] = e /\ ~Compatible(k[2], mode)}

Lock(s, e, mode) ==
    /\ Blockers(s, e, mode) = {}
    /\ held' = [held EXCEPT ![s] = @ \cup {<<e, mode>>}]

Lowest(S) == CHOOSE i \in S : \A j \in S : i <= j

\* MUTANT of Ends: the manager's row is not locked.
OwnEnd(e, m) == {e}

\* The people a move locks: both ends of the new edge.
Ends(e, m) == {e, m} \ {NoManager}

\* MUTANT of NextRow: the employee first, then the manager.
EmployeeFirst(s) == IF who[s] \in rest[s] THEN who[s] ELSE Lowest(rest[s])

\* _lock takes the rows in the order of their ids.
NextRow(s) == Lowest(rest[s])

\* Whom s waits for.
WaitsFor(s) ==
    CASE pc[s] = "lock" /\ rest[s] # {} -> Blockers(s, NextRow(s), "update")
      [] pc[s] = "find"                 -> Blockers(s, who[s], "update")
      [] pc[s] = "write"                -> UNION {Blockers(s, r, "write") : r \in rest[s]}
      [] pc[s] = "refer"                -> Blockers(s, to[s], "share")
      [] OTHER                          -> {}

InWaitCycle(s) ==
    \E S \in SUBSET Session : s \in S /\ \A t \in S : WaitsFor(t) \cap S # {}

-----------------------------------------------------------------------------
(* Transactions. *)

\* What s would leave if it committed now.
Final(s) == [e \in Employee |-> IF e \in moved[s] THEN to[s] ELSE manager[e]]

Forget(s) ==
    /\ pc' = [pc EXCEPT ![s] = "idle"]
    /\ who' = [who EXCEPT ![s] = NoManager]
    /\ to' = [to EXCEPT ![s] = NoManager]
    /\ rest' = [rest EXCEPT ![s] = {}]
    /\ moved' = [moved EXCEPT ![s] = {}]
    /\ held' = [held EXCEPT ![s] = {}]

\* MUTANT of Rollback: the connection goes back to the pool with its
\* transaction open.
RollbackKeepsLocks(s) ==
    /\ pc' = [pc EXCEPT ![s] = "idle"]
    /\ UNCHANGED <<manager, deleted, who, to, rest, moved, held, stale, strangers>>

\* The request raises, or its connection is lost: everything is undone.
Rollback(s) ==
    /\ Forget(s)
    /\ stale' = [stale EXCEPT ![s] = FALSE]
    /\ strangers' = [strangers EXCEPT ![s] = FALSE]
    /\ UNCHANGED <<manager, deleted>>

\* s commits: the others' requests may by now be out of date.
Publish(s, about) ==
    /\ Forget(s)
    /\ manager' = Final(s)
    /\ stale' = [t \in Session |-> t # s /\ (stale[t] \/ (pc[t] = "lock" /\ who[t] \in moved[s]))]
    /\ strangers' = [t \in Session |->
                        /\ t # s
                        /\ \/ strangers[t]
                           \/ /\ t \in Mover /\ pc[t] \in {"ready", "checked"}
                              /\ about \cap {who[t], to[t]} = {}]

\* The deferred trigger, for the rows s wrote, on what it can see: the walk
\* from the new manager never meets the row, and comes to an end.
TriggerPasses(s) ==
    to[s] # NoManager =>
        /\ \A e \in moved[s] : ~Reaches(Final(s), to[s], e)
        /\ \E x \in Employee : Reaches(Final(s), to[s], x) /\ Final(s)[x] = NoManager

Init ==
    /\ manager \in {g \in Structure : Acyclic(g)}
    /\ deleted = {}
    /\ pc = [s \in Session |-> "idle"]
    /\ who = [s \in Session |-> NoManager]
    /\ to = [s \in Session |-> NoManager]
    /\ rest = [s \in Session |-> {}]
    /\ moved = [s \in Session |-> {}]
    /\ held = [s \in Session |-> {}]
    /\ stale = [s \in Session |-> FALSE]
    /\ strangers = [s \in Session |-> FALSE]

-----------------------------------------------------------------------------
(* AssignmentService.reassign, taking effect today. *)

\* Bound: no change falls due here, so the sync a move opens with updates no row
\* and takes no lock.  (VersionedEdits has the day one does.)
MoveStart(s, e, m) ==
    /\ s \in Mover /\ pc[s] = "idle"
    /\ pc' = [pc EXCEPT ![s] = "lock"]
    /\ who' = [who EXCEPT ![s] = e]
    /\ to' = [to EXCEPT ![s] = m]
    /\ rest' = [rest EXCEPT ![s] = Ends(e, m)]
    /\ UNCHANGED <<manager, deleted, moved, held, stale, strangers>>

MoveLock(s) ==
    /\ pc[s] = "lock" /\ rest[s] # {}
    /\ NextRow(s) \notin deleted
    /\ Lock(s, NextRow(s), "update")
    /\ rest' = [rest EXCEPT ![s] = @ \ {NextRow(s)}]
    /\ UNCHANGED <<manager, deleted, pc, who, to, moved, stale, strangers>>

MoveNotFound(s) ==
    /\ pc[s] = "lock" /\ rest[s] # {}
    /\ NextRow(s) \in deleted
    /\ Rollback(s)

\* The version, the cycle and the no-change checks, on what is committed.
MoveAllowed(s) ==
    /\ ~stale[s]
    /\ to[s] # NoManager => ~IsDescendant(manager, to[s], who[s])
    /\ manager[who[s]] # to[s]

MoveCheck(s) ==
    /\ pc[s] = "lock" /\ rest[s] = {}
    /\ MoveAllowed(s)
    /\ pc' = [pc EXCEPT ![s] = "ready"]
    /\ moved' = [moved EXCEPT ![s] = {who[s]}]
    /\ UNCHANGED <<manager, deleted, who, to, rest, held, stale, strangers>>

MoveRefused(s) ==
    /\ pc[s] = "lock" /\ rest[s] = {}
    /\ ~MoveAllowed(s)
    /\ Rollback(s)

-----------------------------------------------------------------------------
(* Reparent and PromoteToRoot. *)

DeleteStart(s, x) ==
    /\ s \in Deleter /\ pc[s] = "idle"
    /\ pc' = [pc EXCEPT ![s] = "find"]
    /\ who' = [who EXCEPT ![s] = x]
    /\ UNCHANGED <<manager, deleted, to, rest, moved, held, stale, strangers>>

\* The row is locked and read; the policy says where the reports go.
DeleteFind(s) ==
    /\ pc[s] = "find"
    /\ who[s] \notin deleted
    /\ Lock(s, who[s], "update")
    /\ \E m \in {manager[who[s]], NoManager} : to' = [to EXCEPT ![s] = m]
    /\ pc' = [pc EXCEPT ![s] = "read"]
    /\ UNCHANGED <<manager, deleted, who, rest, moved, stale, strangers>>

DeleteNotFound(s) ==
    /\ pc[s] = "find"
    /\ who[s] \in deleted
    /\ Rollback(s)

\* get_direct_reports locks nothing.
DeleteRead(s) ==
    /\ pc[s] = "read"
    /\ rest' = [rest EXCEPT ![s] = {r \in Employee \ deleted : manager[r] = who[s]}]
    /\ pc' = [pc EXCEPT ![s] = "write"]
    /\ UNCHANGED <<manager, deleted, who, to, moved, held, stale, strangers>>

\* The UPDATE of one report, whatever has become of it since it was read.
DeleteWrite(s, r) ==
    /\ pc[s] = "write" /\ r \in rest[s]
    /\ Lock(s, r, "write")
    /\ rest' = [rest EXCEPT ![s] = @ \ {r}]
    /\ moved' = [moved EXCEPT ![s] = @ \cup {r}]
    /\ pc' = [pc EXCEPT ![s] = IF to[s] = NoManager THEN "write" ELSE "refer"]
    /\ UNCHANGED <<manager, deleted, who, to, stale, strangers>>

\* The foreign key of the row just written locks the new manager's row.
DeleteRefer(s) ==
    /\ pc[s] = "refer"
    /\ Lock(s, to[s], "share")
    /\ pc' = [pc EXCEPT ![s] = "write"]
    /\ UNCHANGED <<manager, deleted, who, to, rest, moved, stale, strangers>>

-----------------------------------------------------------------------------
(* COMMIT: the deferred trigger, then the transaction becomes visible. *)

Written(s) == pc[s] = "ready" \/ (pc[s] = "write" /\ rest[s] = {})

CommitCheck(s) ==
    /\ Written(s)
    /\ TriggerPasses(s)
    /\ pc' = [pc EXCEPT ![s] = "checked"]
    /\ UNCHANGED <<manager, deleted, who, to, rest, moved, held, stale, strangers>>

CommitRefused(s) ==
    /\ Written(s)
    /\ ~TriggerPasses(s)
    /\ Rollback(s)

MoveCommit(s) ==
    /\ s \in Mover /\ pc[s] = "checked"
    /\ Publish(s, {who[s], to[s]} \ {NoManager})
    /\ UNCHANGED deleted

DeleteCommit(s) ==
    /\ s \in Deleter /\ pc[s] = "checked"
    /\ Publish(s, {who[s]} \cup moved[s])
    /\ deleted' = deleted \cup {who[s]}

\* The connection or the client goes away.
ConnectionLost(s) == pc[s] # "idle" /\ Rollback(s)

\* PostgreSQL breaks a deadlock by failing one of the waiting statements.
DeadlockVictim(s) == InWaitCycle(s) /\ Rollback(s)

Takes(s) ==
    \/ MoveLock(s)
    \/ DeleteFind(s)
    \/ \E r \in Employee : DeleteWrite(s, r)
    \/ DeleteRefer(s)

Proceeds(s) ==
    \/ MoveNotFound(s) \/ MoveCheck(s) \/ MoveRefused(s)
    \/ DeleteNotFound(s) \/ DeleteRead(s)
    \/ CommitCheck(s) \/ CommitRefused(s) \/ MoveCommit(s) \/ DeleteCommit(s)
    \/ DeadlockVictim(s)

Next ==
    \E s \in Session :
        \/ \E e \in Employee, m \in ManagerOrNone : MoveStart(s, e, m)
        \/ \E x \in Employee : DeleteStart(s, x)
        \/ Takes(s)
        \/ Proceeds(s)
        \/ ConnectionLost(s)

\* A request runs on as long as it can, the database breaks every deadlock,
\* and a lock's queue is served in order.
Fairness == \A s \in Session : WF_vars(Proceeds(s)) /\ SF_vars(Takes(s))

Spec == Init /\ [][Next]_vars /\ Fairness

-----------------------------------------------------------------------------

\* Nobody present is left under somebody deleted, although a deletion looks up
\* the reports without locking them and moves may be on their way.
NobodyLeftUnderDeleted == \A e \in Employee \ deleted : manager[e] \notin deleted

\* Moves lock in the order of ids and so never wait for each other in a ring.
MovesNeverDeadlock ==
    \A S \in SUBSET Mover : S # {} => \E s \in S : WaitsFor(s) \cap S = {}

\* Two moves that have a person in common cannot close a loop between them, in
\* whatever order their statements fall: it takes a move of strangers,
\* committed between this one's check and its commit.
LoopsNeedStrangers ==
    [][\A s \in Mover :
        MoveCommit(s) /\ Acyclic(manager) /\ ~Acyclic(manager')
            => strangers[s]]_vars

\* Every request is answered.
RequestsFinish == \A s \in Session : pc[s] # "idle" ~> pc[s] = "idle"

\* "the deferred trigger still guard[s] the present-day edge": no loop is
\* committed.  Two moves of four people commit one.
NoLoopCommitted == Acyclic(manager)
=============================================================================
