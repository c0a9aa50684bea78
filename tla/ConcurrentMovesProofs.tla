------------------------ MODULE ConcurrentMovesProofs ------------------------
(***************************************************************************)
(* Proofs about ConcurrentMoves, for any employees and any number of       *)
(* sessions.                                                               *)
(***************************************************************************)
EXTENDS ConcurrentMoves, FiniteSetTheorems, WellFoundedInduction, TLAPS

USE EmployeeAssumption, IdsAreOrdered, SessionsServeOneKind DEF Session

-----------------------------------------------------------------------------
(* The invariant. *)

\* No two sessions hold locks on a row that exclude each other.
LocksExclude ==
    \A s, t \in Session : s # t =>
        \A k \in held[s], l \in held[t] : k[1] = l[1] => Compatible(k[2], l[2])

NobodyOverThemselves == \A e \in Employee : manager[e] # e

\* The rows a move has locked.
Locked(s) == Ends(who[s], to[s]) \ rest[s]

\* A move has locked what it no longer has to, from the lowest id up, and the
\* people in those rows are there.  It writes one row.
MoveHolds(s) ==
    /\ pc[s] \in {"idle", "lock", "ready", "checked"}
    /\ pc[s] \in {"idle", "lock"} => moved[s] = {}
    /\ pc[s] \in {"ready", "checked"} => rest[s] = {} /\ moved[s] = {who[s]} /\ to[s] # who[s]
    /\ pc[s] = "idle" => held[s] = {}
    /\ pc[s] # "idle" =>
        /\ who[s] \in Employee
        /\ rest[s] \subseteq Ends(who[s], to[s])
        /\ held[s] = Locked(s) \X {"update"}
        /\ Locked(s) \cap deleted = {}
        /\ \A e \in Locked(s), f \in rest[s] : e < f

\* A deletion has the row of the departing person locked, and from when it looks
\* up the reports nobody else gets one.
DeletionHolds(s) ==
    /\ pc[s] \in {"idle", "find", "read", "write", "refer", "checked"}
    /\ pc[s] # "idle" => who[s] \in Employee
    /\ pc[s] \in {"idle", "find", "read"} => moved[s] = {}
    /\ pc[s] \in {"read", "write", "refer", "checked"} =>
        /\ <<who[s], "update">> \in held[s]
        /\ who[s] \notin deleted
        /\ to[s] \in {manager[who[s]], NoManager}
    /\ pc[s] \in {"write", "refer", "checked"} =>
        /\ \A e \in Employee \ deleted : manager[e] = who[s] => e \in rest[s] \cup moved[s]
        /\ \A r \in moved[s] : <<r, "write">> \in held[s]
    /\ pc[s] = "refer" => to[s] # NoManager
    /\ pc[s] \in {"write", "checked"} /\ moved[s] # {} /\ to[s] # NoManager =>
        <<to[s], "share">> \in held[s]
    /\ pc[s] = "checked" => rest[s] = {} /\ to[s] \notin moved[s]

\* A step of others leaves the request of s as it is.
Untouched(s) ==
    /\ pc'[s] = pc[s] /\ who'[s] = who[s] /\ to'[s] = to[s]
    /\ rest'[s] = rest[s] /\ moved'[s] = moved[s] /\ held'[s] = held[s]

IInv ==
    /\ TypeOK
    /\ LocksExclude
    /\ NobodyOverThemselves
    /\ \A s \in Mover : MoveHolds(s)
    /\ \A s \in Deleter : DeletionHolds(s)
    /\ NobodyLeftUnderDeleted

\* It holds at the start: nobody holds a lock and nobody is deleted.
LEMMA InitialHolds == Init => IInv
<1> SUFFICES ASSUME Init PROVE IInv
  OBVIOUS
<1> USE DEF Init
<1>1. TypeOK
  BY DEF TypeOK, Step, ManagerOrNone
<1>2. NobodyOverThemselves
  <2> SUFFICES ASSUME NEW e \in Employee PROVE manager[e] # e
    BY DEF NobodyOverThemselves
  <2>1. \E x \in {e} : manager[x] \notin {e}
    BY DEF Acyclic
  <2> QED BY <2>1
<1>3. /\ LocksExclude /\ NobodyLeftUnderDeleted
      /\ \A s \in Mover : MoveHolds(s)
      /\ \A s \in Deleter : DeletionHolds(s)
  BY DEF LocksExclude, MoveHolds, DeletionHolds, NobodyLeftUnderDeleted
<1> QED BY <1>1, <1>2, <1>3 DEF IInv

-----------------------------------------------------------------------------
(* Locks. *)

\* FOR UPDATE excludes every other lock, and a write another write.
LEMMA Excluding ==
    /\ \A mode : ~Compatible("update", mode) /\ ~Compatible(mode, "update")
    /\ ~Compatible("write", "write")
  BY DEF Compatible

\* Locks are compatible or not, whoever came first.
LEMMA CompatibleCommutes == \A a, b : Compatible(a, b) <=> Compatible(b, a)
  BY DEF Compatible

\* A lock that is granted excludes none that another session holds.
LEMMA LockKeeps ==
    ASSUME TypeOK, LocksExclude, NEW s \in Session, NEW e \in Employee, NEW mode \in Mode,
           Lock(s, e, mode)
    PROVE  /\ LocksExclude'
           /\ held' \in [Session -> SUBSET (Employee \X Mode)]
           /\ held'[s] = held[s] \cup {<<e, mode>>}
           /\ \A t \in Session \ {s} : held'[t] = held[t]
<1>1. /\ held'[s] = held[s] \cup {<<e, mode>>}
      /\ \A t \in Session \ {s} : held'[t] = held[t]
  BY DEF Lock, TypeOK
<1>2. held' \in [Session -> SUBSET (Employee \X Mode)]
  BY DEF Lock, TypeOK
<1>3. \A t \in Session \ {s} : \A l \in held[t] : l[1] = e => Compatible(l[2], mode)
  BY DEF Lock, Blockers
<1>4. LocksExclude'
  <2> SUFFICES ASSUME NEW t \in Session, NEW u \in Session, t # u,
                      NEW k \in held'[t], NEW l \in held'[u], k[1] = l[1]
               PROVE  Compatible(k[2], l[2])
    BY DEF LocksExclude
  <2>1. CASE t # s /\ u # s
    BY <1>1, <2>1 DEF LocksExclude
  <2>2. CASE t = s
    BY <1>1, <1>3, <2>2, CompatibleCommutes DEF LocksExclude
  <2>3. CASE u = s
    BY <1>1, <1>3, <2>3 DEF LocksExclude
  <2> QED BY <2>1, <2>2, <2>3
<1> QED BY <1>1, <1>2, <1>4

\* The lowest of at most two ids.
LEMMA LowestOfTwo ==
    ASSUME NEW a \in Int, NEW b \in Int, NEW S \in SUBSET {a, b}, S # {}
    PROVE  Lowest(S) \in S /\ \A j \in S : Lowest(S) <= j
<1>1. \E i \in S : \A j \in S : i <= j
  <2>1. CASE a \in S /\ a <= b
    BY <2>1
  <2>2. CASE b \in S /\ b <= a
    BY <2>2
  <2>3. CASE a \notin S \/ b \notin S
    <3>1. PICK i \in S : S = {i} /\ i \in Int
      BY <2>3
    <3> QED BY <3>1
  <2> QED BY <2>1, <2>2, <2>3
<1> QED BY <1>1 DEF Lowest

\* The row a move locks next is the lowest of those it still has to.
LEMMA NextRowIsLowest ==
    ASSUME IInv, NEW s \in Mover, pc[s] # "idle", rest[s] # {}
    PROVE  NextRow(s) \in rest[s] /\ \A j \in rest[s] : NextRow(s) <= j
<1>1. who[s] \in Employee /\ rest[s] \subseteq Ends(who[s], to[s]) /\ rest[s] \subseteq Employee
  BY DEF IInv, MoveHolds, TypeOK
<1>2. CASE to[s] \in Employee
  BY <1>1, <1>2, LowestOfTwo DEF NextRow, Ends
<1>3. CASE to[s] \notin Employee
  <2>1. rest[s] \in SUBSET {who[s], who[s]}
    BY <1>1, <1>3 DEF Ends
  <2> QED BY <1>1, <2>1, LowestOfTwo DEF NextRow
<1> QED BY <1>2, <1>3

-----------------------------------------------------------------------------
(* Others' steps that commit nothing. *)

\* A move that a step of others leaves alone keeps its part of the invariant.
LEMMA MoveStands ==
    ASSUME NEW t \in Mover, MoveHolds(t), Untouched(t), deleted' = deleted
    PROVE  MoveHolds(t)'
  BY DEF MoveHolds, Untouched, Locked

\* A deletion that a step of others leaves alone keeps its part of the
\* invariant.
LEMMA DeletionStands ==
    ASSUME NEW t \in Deleter, DeletionHolds(t), Untouched(t),
           deleted' = deleted, manager' = manager
    PROVE  DeletionHolds(t)'
  BY DEF DeletionHolds, Untouched

\* What is left to show of a step of s that commits nothing.
LEMMA OwnStep ==
    ASSUME IInv, NEW s \in Session, TypeOK', LocksExclude',
           deleted' = deleted, manager' = manager,
           \A t \in Session \ {s} : Untouched(t),
           s \in Mover => MoveHolds(s)',
           s \in Deleter => DeletionHolds(s)'
    PROVE  IInv'
<1>1. \A t \in Mover : MoveHolds(t)'
  BY MoveStands DEF IInv
<1>2. \A t \in Deleter : DeletionHolds(t)'
  BY DeletionStands DEF IInv
<1> QED BY <1>1, <1>2 DEF IInv, NobodyOverThemselves, NobodyLeftUnderDeleted

-----------------------------------------------------------------------------
(* The steps of a move. *)

\* A request that raises keeps the invariant.
LEMMA RollbackKeeps ==
    ASSUME IInv, NEW s \in Session, Rollback(s)
    PROVE  IInv'
<1> USE DEF Rollback, Forget
<1>1. TypeOK'
  BY DEF IInv, TypeOK, Step, ManagerOrNone
<1>2. pc'[s] = "idle" /\ held'[s] = {} /\ moved'[s] = {}
  BY DEF IInv, TypeOK
<1>3. \A t \in Session \ {s} : Untouched(t)
  BY DEF IInv, TypeOK, Untouched
<1>4. LocksExclude'
  BY <1>2, <1>3 DEF IInv, LocksExclude, Untouched
<1>5. MoveHolds(s)'
  BY <1>2 DEF MoveHolds
<1>6. DeletionHolds(s)'
  BY <1>2 DEF DeletionHolds
<1> QED BY <1>1, <1>3, <1>4, <1>5, <1>6, OwnStep

\* A move begins with both ends to lock.
LEMMA MoveStartKeeps ==
    ASSUME IInv, NEW s \in Session, NEW e \in Employee, NEW m \in ManagerOrNone, MoveStart(s, e, m)
    PROVE  IInv'
<1> USE DEF MoveStart
<1>1. TypeOK'
  BY DEF IInv, TypeOK, Step, ManagerOrNone, Ends
<1>2. pc'[s] = "lock" /\ who'[s] = e /\ to'[s] = m /\ rest'[s] = Ends(e, m)
  BY DEF IInv, TypeOK
<1>3. \A t \in Session \ {s} : Untouched(t)
  BY DEF IInv, TypeOK, Untouched
<1>4. Locked(s)' = {}
  BY <1>2 DEF Locked
<1>5. held[s] = {} /\ moved[s] = {}
  BY DEF IInv, MoveHolds
<1>6. held'[s] = Locked(s)' \X {"update"}
  BY <1>4, <1>5
<1>7. MoveHolds(s)'
  BY <1>2, <1>4, <1>5, <1>6 DEF MoveHolds
<1>8. LocksExclude'
  BY DEF IInv, LocksExclude
<1> QED BY <1>1, <1>3, <1>7, <1>8, OwnStep

\* A move locks the row of its lowest end left.
LEMMA MoveLockKeeps ==
    ASSUME IInv, NEW s \in Session, MoveLock(s)
    PROVE  IInv'
<1> USE DEF MoveLock
<1> DEFINE n == NextRow(s)
<1>1. s \in Mover /\ MoveHolds(s)
  BY DEF IInv, DeletionHolds
<1>2. n \in rest[s] /\ n \in Employee /\ \A j \in rest[s] : n <= j
  BY <1>1, NextRowIsLowest DEF IInv, TypeOK
<1>3. /\ LocksExclude'
      /\ held' \in [Session -> SUBSET (Employee \X Mode)]
      /\ held'[s] = held[s] \cup {<<n, "update">>}
      /\ \A t \in Session \ {s} : held'[t] = held[t]
  BY <1>2, LockKeeps DEF IInv, Mode
<1>4. rest'[s] = rest[s] \ {n}
  BY DEF IInv, TypeOK
<1>5. n \notin deleted
  OBVIOUS
<1>6. \A t \in Session \ {s} : Untouched(t)
  BY <1>3 DEF IInv, TypeOK, Untouched
<1> HIDE DEF n
<1>7. TypeOK'
  BY <1>3 DEF IInv, TypeOK
<1>8. Locked(s)' = Locked(s) \cup {n}
  BY <1>1, <1>2, <1>4 DEF Locked, MoveHolds
<1>9. MoveHolds(s)'
  <2>1. held'[s] = Locked(s)' \X {"update"}
    BY <1>1, <1>3, <1>8 DEF MoveHolds
  <2>2. \A e \in Locked(s)', f \in rest'[s] : e < f
    <3>1. rest[s] \subseteq Int /\ n \in Int /\ \A e \in Locked(s), f \in rest[s] : e < f
      BY <1>1, <1>2 DEF IInv, MoveHolds, TypeOK
    <3> QED BY <1>2, <1>4, <1>8, <3>1
  <2>3. Locked(s)' \cap deleted = {}
    BY <1>1, <1>5, <1>8 DEF MoveHolds
  <2> QED BY <1>1, <1>4, <2>1, <2>2, <2>3 DEF MoveHolds
<1> QED BY <1>1, <1>3, <1>6, <1>7, <1>9, OwnStep

\* A move passes its checks: nobody is put over themselves.
LEMMA MoveCheckKeeps ==
    ASSUME IInv, NEW s \in Session, MoveCheck(s)
    PROVE  IInv'
<1> USE DEF MoveCheck
<1>1. s \in Mover /\ MoveHolds(s)
  BY DEF IInv, DeletionHolds
<1>2. TypeOK'
  BY <1>1 DEF IInv, TypeOK, Step, MoveHolds
<1>3. pc'[s] = "ready" /\ moved'[s] = {who[s]}
  BY DEF IInv, TypeOK
<1>4. \A t \in Session \ {s} : Untouched(t)
  BY DEF IInv, TypeOK, Untouched
<1>5. to[s] # who[s]
  BY <1>1 DEF MoveAllowed, IsDescendant, MoveHolds
<1>6. MoveHolds(s)'
  BY <1>1, <1>3, <1>5 DEF MoveHolds, Locked
<1>7. LocksExclude'
  BY DEF IInv, LocksExclude
<1> QED BY <1>1, <1>2, <1>4, <1>6, <1>7, OwnStep

-----------------------------------------------------------------------------
(* The steps of a deletion. *)

\* A deletion begins.
LEMMA DeleteStartKeeps ==
    ASSUME IInv, NEW s \in Session, NEW x \in Employee, DeleteStart(s, x)
    PROVE  IInv'
<1> USE DEF DeleteStart
<1>1. TypeOK'
  BY DEF IInv, TypeOK, Step, ManagerOrNone
<1>2. pc'[s] = "find" /\ who'[s] = x
  BY DEF IInv, TypeOK
<1>3. \A t \in Session \ {s} : Untouched(t)
  BY DEF IInv, TypeOK, Untouched
<1>4. DeletionHolds(s)'
  BY <1>2 DEF IInv, DeletionHolds
<1>5. LocksExclude'
  BY DEF IInv, LocksExclude
<1> QED BY <1>1, <1>3, <1>4, <1>5, OwnStep

\* A deletion locks the departing person's row, on which nobody else has a
\* lock.
LEMMA DeleteFindKeeps ==
    ASSUME IInv, NEW s \in Session, DeleteFind(s)
    PROVE  IInv'
<1> USE DEF DeleteFind
<1>1. s \in Deleter /\ DeletionHolds(s)
  BY DEF IInv, MoveHolds
<1>2. who[s] \in Employee /\ moved[s] = {} /\ manager[who[s]] \in ManagerOrNone
  BY <1>1 DEF IInv, DeletionHolds, TypeOK, Structure
<1>3. /\ LocksExclude'
      /\ held' \in [Session -> SUBSET (Employee \X Mode)]
      /\ held'[s] = held[s] \cup {<<who[s], "update">>}
      /\ \A t \in Session \ {s} : held'[t] = held[t]
  BY <1>2, LockKeeps DEF IInv, Mode
<1>4. PICK m \in {manager[who[s]], NoManager} : to' = [to EXCEPT ![s] = m]
  OBVIOUS
<1>5. TypeOK'
  BY <1>2, <1>3, <1>4 DEF IInv, TypeOK, Step, ManagerOrNone
<1>6. pc'[s] = "read" /\ to'[s] = m
  BY <1>4 DEF IInv, TypeOK
<1>7. \A t \in Session \ {s} : Untouched(t)
  BY <1>3, <1>4 DEF IInv, TypeOK, Untouched
<1>8. DeletionHolds(s)'
  BY <1>2, <1>3, <1>4, <1>6 DEF DeletionHolds
<1> QED BY <1>1, <1>3, <1>5, <1>7, <1>8, OwnStep

\* A deletion reads every report there is.
LEMMA DeleteReadKeeps ==
    ASSUME IInv, NEW s \in Session, DeleteRead(s)
    PROVE  IInv'
<1> USE DEF DeleteRead
<1>1. s \in Deleter /\ DeletionHolds(s)
  BY DEF IInv, MoveHolds
<1>2. TypeOK'
  BY DEF IInv, TypeOK, Step
<1>3. pc'[s] = "write" /\ rest'[s] = {r \in Employee \ deleted : manager[r] = who[s]}
  BY DEF IInv, TypeOK
<1>4. \A t \in Session \ {s} : Untouched(t)
  BY DEF IInv, TypeOK, Untouched
<1>5. DeletionHolds(s)'
  BY <1>1, <1>3 DEF DeletionHolds
<1>6. LocksExclude'
  BY DEF IInv, LocksExclude
<1> QED BY <1>1, <1>2, <1>4, <1>5, <1>6, OwnStep

\* A deletion writes the row of one report.
LEMMA DeleteWriteKeeps ==
    ASSUME IInv, NEW s \in Session, NEW r \in Employee, DeleteWrite(s, r)
    PROVE  IInv'
<1> USE DEF DeleteWrite
<1>1. s \in Deleter /\ DeletionHolds(s)
  BY DEF IInv, MoveHolds
<1>2. /\ LocksExclude'
      /\ held' \in [Session -> SUBSET (Employee \X Mode)]
      /\ held'[s] = held[s] \cup {<<r, "write">>}
      /\ \A t \in Session \ {s} : held'[t] = held[t]
  BY LockKeeps DEF IInv, Mode
<1>3. TypeOK'
  BY <1>2 DEF IInv, TypeOK, Step
<1>4. /\ rest'[s] = rest[s] \ {r} /\ moved'[s] = moved[s] \cup {r}
      /\ pc'[s] = IF to[s] = NoManager THEN "write" ELSE "refer"
  BY DEF IInv, TypeOK
<1>5. \A t \in Session \ {s} : Untouched(t)
  BY <1>2 DEF IInv, TypeOK, Untouched
<1>6. DeletionHolds(s)'
  BY <1>1, <1>2, <1>4 DEF DeletionHolds
<1> QED BY <1>1, <1>2, <1>3, <1>5, <1>6, OwnStep

\* A deletion takes the share lock on the manager the reports get.
LEMMA DeleteReferKeeps ==
    ASSUME IInv, NEW s \in Session, DeleteRefer(s)
    PROVE  IInv'
<1> USE DEF DeleteRefer
<1>1. s \in Deleter /\ DeletionHolds(s)
  BY DEF IInv, MoveHolds
<1>2. to[s] \in Employee
  BY <1>1 DEF IInv, DeletionHolds, TypeOK, ManagerOrNone
<1>3. /\ LocksExclude'
      /\ held' \in [Session -> SUBSET (Employee \X Mode)]
      /\ held'[s] = held[s] \cup {<<to[s], "share">>}
      /\ \A t \in Session \ {s} : held'[t] = held[t]
  BY <1>2, LockKeeps DEF IInv, Mode
<1>4. TypeOK'
  BY <1>3 DEF IInv, TypeOK, Step
<1>5. pc'[s] = "write"
  BY DEF IInv, TypeOK
<1>6. \A t \in Session \ {s} : Untouched(t)
  BY <1>3 DEF IInv, TypeOK, Untouched
<1>7. DeletionHolds(s)'
  BY <1>1, <1>3, <1>5 DEF DeletionHolds
<1> QED BY <1>1, <1>3, <1>4, <1>6, <1>7, OwnStep

-----------------------------------------------------------------------------
(* COMMIT. *)

\* The trigger passes.
LEMMA CommitCheckKeeps ==
    ASSUME IInv, NEW s \in Session, CommitCheck(s)
    PROVE  IInv'
<1> USE DEF CommitCheck
<1>1. TypeOK'
  BY DEF IInv, TypeOK, Step
<1>2. pc'[s] = "checked"
  BY DEF IInv, TypeOK
<1>3. \A t \in Session \ {s} : Untouched(t)
  BY DEF IInv, TypeOK, Untouched
<1>4. s \in Mover => MoveHolds(s)'
  BY <1>2 DEF IInv, MoveHolds, Locked, Written
<1>5. s \in Deleter => DeletionHolds(s)'
  <2> SUFFICES ASSUME s \in Deleter PROVE DeletionHolds(s)'
    OBVIOUS
  <2>1. DeletionHolds(s) /\ pc[s] = "write" /\ rest[s] = {}
    BY DEF IInv, DeletionHolds, Written
  <2>2. moved[s] \subseteq Employee
    BY DEF IInv, TypeOK
  <2>3. to[s] \notin moved[s]
    <3>1. \A g, e : Reaches(g, e, e)
      BY DEF Reaches
    <3> QED BY <2>2, <3>1 DEF TriggerPasses
  <2> QED BY <1>2, <2>1, <2>3 DEF DeletionHolds
<1>6. LocksExclude'
  BY DEF IInv, LocksExclude
<1> QED BY <1>1, <1>3, <1>4, <1>5, <1>6, OwnStep

\* Whoever commits holds a lock on every row it wrote and on the manager it gave
\* them, and for a deletion on the departing person's row.
LEMMA CommitterHolds ==
    ASSUME IInv, NEW s \in Session, pc[s] = "checked"
    PROVE  /\ \A e \in moved[s] : \E mode \in Mode : <<e, mode>> \in held[s]
           /\ moved[s] # {} /\ to[s] # NoManager => \E mode \in Mode : <<to[s], mode>> \in held[s]
           /\ to[s] \notin moved[s]
           /\ who[s] \in Employee
<1>1. CASE s \in Mover
  <2>1. MoveHolds(s) /\ rest[s] = {} /\ moved[s] = {who[s]} /\ to[s] # who[s]
    BY <1>1 DEF IInv, MoveHolds
  <2>2. who[s] \in Employee /\ Locked(s) = Ends(who[s], to[s])
    BY <2>1 DEF MoveHolds, Locked
  <2>3. \A e \in Ends(who[s], to[s]) : <<e, "update">> \in held[s]
    BY <2>1, <2>2 DEF MoveHolds
  <2>4. who[s] \in Ends(who[s], to[s])
    BY <2>2 DEF Ends
  <2>5. to[s] # NoManager => to[s] \in Ends(who[s], to[s])
    BY DEF Ends
  <2> QED BY <2>1, <2>2, <2>3, <2>4, <2>5 DEF Mode
<1>2. CASE s \in Deleter
  BY <1>2 DEF IInv, DeletionHolds, Mode
<1> QED BY <1>1, <1>2

\* A row that another session has locked FOR UPDATE is neither written by the
\* commit nor given a report.
LEMMA CommitSpares ==
    ASSUME IInv, NEW s \in Session, pc[s] = "checked", NEW t \in Session \ {s},
           NEW e \in Employee, <<e, "update">> \in held[t]
    PROVE  /\ e \notin moved[s]
           /\ moved[s] # {} => to[s] # e
           /\ \A mode \in Mode : <<e, mode>> \notin held[s]
<1>1. \A mode \in Mode : <<e, mode>> \notin held[s]
  <2> SUFFICES ASSUME NEW mode \in Mode, <<e, mode>> \in held[s] PROVE FALSE
    OBVIOUS
  <2>1. Compatible(mode, "update")
    BY DEF IInv, LocksExclude
  <2> QED BY <2>1, Excluding
<1> QED BY <1>1, CommitterHolds

\* A commit keeps what the other requests rely on.
LEMMA OthersAtCommit ==
    ASSUME IInv, NEW s \in Session, pc[s] = "checked", NEW about, Publish(s, about),
           deleted' = deleted \/ (s \in Deleter /\ deleted' = deleted \cup {who[s]})
    PROVE  /\ \A t \in Mover : MoveHolds(t)'
           /\ \A t \in Deleter : DeletionHolds(t)'
           /\ LocksExclude'
           /\ NobodyOverThemselves'
<1> USE DEF Publish, Forget
<1>1. \A t \in Session \ {s} : Untouched(t)
  BY DEF IInv, TypeOK, Untouched
<1>2. pc'[s] = "idle" /\ held'[s] = {} /\ moved'[s] = {}
  BY DEF IInv, TypeOK
<1>3. MoveHolds(s)' /\ DeletionHolds(s)'
  BY <1>2 DEF MoveHolds, DeletionHolds
<1>4. LocksExclude'
  BY <1>1, <1>2 DEF IInv, LocksExclude, Untouched
<1>5. \A e \in Employee : manager'[e] = IF e \in moved[s] THEN to[s] ELSE manager[e]
  BY DEF Final
<1>6. NobodyOverThemselves'
  BY <1>5, CommitterHolds DEF IInv, NobodyOverThemselves
<1>7. \A t \in Session \ {s}, e \in Employee :
          <<e, "update">> \in held[t] /\ e \notin deleted => e \notin deleted'
  <2> SUFFICES ASSUME NEW t \in Session \ {s}, NEW e \in Employee, <<e, "update">> \in held[t],
                      e \notin deleted, s \in Deleter, e = who[s]
               PROVE  FALSE
    OBVIOUS
  <2>1. <<e, "update">> \in held[s]
    BY DEF IInv, DeletionHolds
  <2> QED BY <2>1, CommitSpares DEF Mode
<1>8. ASSUME NEW t \in Mover \ {s} PROVE MoveHolds(t)'
  <2>1. pc[t] # "idle" => \A e \in Locked(t) : e \in Employee /\ <<e, "update">> \in held[t]
    BY DEF IInv, MoveHolds, Locked, Ends, TypeOK, ManagerOrNone
  <2>2. pc[t] # "idle" => Locked(t) \cap deleted' = {}
    BY <1>7, <2>1 DEF IInv, MoveHolds
  <2>3. Locked(t)' = Locked(t)
    BY <1>1 DEF Untouched, Locked
  <2> QED BY <1>1, <2>2, <2>3 DEF IInv, MoveHolds, Untouched
<1>9. ASSUME NEW t \in Deleter \ {s} PROVE DeletionHolds(t)'
  <2>1. DeletionHolds(t) /\ Untouched(t)
    BY <1>1 DEF IInv
  <2>2. CASE pc[t] \in {"idle", "find"}
    BY <2>1, <2>2 DEF DeletionHolds, Untouched
  <2>3. CASE pc[t] \in {"read", "write", "refer", "checked"}
    <3>1. who[t] \in Employee /\ <<who[t], "update">> \in held[t] /\ who[t] \notin deleted
      BY <2>1, <2>3 DEF DeletionHolds
    <3>2. who[t] \notin moved[s] /\ (moved[s] # {} => to[s] # who[t])
      BY <3>1, CommitSpares
    <3>3. manager'[who[t]] = manager[who[t]]
      BY <1>5, <3>1, <3>2
    <3>4. who[t] \notin deleted'
      BY <1>7, <3>1
    <3>5. \A e \in Employee \ deleted' : manager'[e] = who[t] =>
              e \in Employee \ deleted /\ manager[e] = who[t]
      BY <1>5, <3>2
    <3> QED BY <2>1, <2>3, <3>3, <3>4, <3>5 DEF DeletionHolds, Untouched
  <2> QED BY <2>1, <2>2, <2>3 DEF DeletionHolds
<1> QED BY <1>3, <1>4, <1>6, <1>8, <1>9

\* What a commit writes has the types.
LEMMA CommitTypes ==
    ASSUME IInv, NEW s \in Session, pc[s] = "checked", NEW about, Publish(s, about),
           deleted' = deleted \/ deleted' = deleted \cup {who[s]}
    PROVE  TypeOK'
<1> USE DEF Publish, Forget
<1>1. who[s] \in Employee
  BY CommitterHolds
<1>2. manager' \in Structure
  BY DEF IInv, TypeOK, Final, Structure
<1>3. stale' \in [Session -> BOOLEAN] /\ strangers' \in [Session -> BOOLEAN]
  BY DEF IInv, TypeOK
<1> QED BY <1>1, <1>2, <1>3 DEF IInv, TypeOK, Step, ManagerOrNone

\* A move commits: its manager is not deleted, for it has that row locked.
LEMMA MoveCommitKeeps ==
    ASSUME IInv, NEW s \in Session, MoveCommit(s)
    PROVE  IInv'
<1> USE DEF MoveCommit
<1>1. MoveHolds(s) /\ rest[s] = {} /\ moved[s] = {who[s]}
  BY DEF IInv, MoveHolds
<1>2. to[s] # NoManager => to[s] \notin deleted
  BY <1>1 DEF MoveHolds, Locked, Ends
<1>3. NoManager \notin deleted
  BY DEF IInv, TypeOK
<1>4. \A e \in Employee : manager'[e] = IF e \in moved[s] THEN to[s] ELSE manager[e]
  BY DEF Publish, Final
<1>5. NobodyLeftUnderDeleted'
  BY <1>2, <1>3, <1>4 DEF IInv, NobodyLeftUnderDeleted
<1> QED BY <1>5, OthersAtCommit, CommitTypes DEF IInv

\* A deletion commits: it has moved whoever reported to the departed.
LEMMA DeleteCommitKeeps ==
    ASSUME IInv, NEW s \in Session, DeleteCommit(s)
    PROVE  IInv'
<1> USE DEF DeleteCommit
<1>1. DeletionHolds(s) /\ rest[s] = {} /\ who[s] \in Employee \ deleted
  BY DEF IInv, DeletionHolds
<1>2. to[s] \in {manager[who[s]], NoManager} /\ to[s] \notin moved[s]
  BY <1>1 DEF DeletionHolds
<1>3. NoManager \notin deleted' /\ to[s] \notin deleted
  BY <1>1, <1>2 DEF IInv, TypeOK, NobodyLeftUnderDeleted
<1>4. to[s] # who[s]
  BY <1>1, <1>2 DEF IInv, NobodyOverThemselves
<1>5. \A e \in Employee : manager'[e] = IF e \in moved[s] THEN to[s] ELSE manager[e]
  BY DEF Publish, Final
<1>6. \A e \in Employee \ deleted : e \notin moved[s] => manager[e] \notin deleted \cup {who[s]}
  BY <1>1 DEF IInv, NobodyLeftUnderDeleted, DeletionHolds
<1>7. NobodyLeftUnderDeleted'
  BY <1>3, <1>4, <1>5, <1>6 DEF NobodyLeftUnderDeleted
<1> QED BY <1>7, OthersAtCommit, CommitTypes DEF IInv

-----------------------------------------------------------------------------
(* The invariant holds throughout, and what follows from it. *)

\* Every step keeps the invariant.
LEMMA Inductive == IInv /\ [Next]_vars => IInv'
<1> SUFFICES ASSUME IInv, [Next]_vars PROVE IInv'
  OBVIOUS
<1>1. ASSUME NEW s \in Session, Proceeds(s) PROVE IInv'
  BY <1>1, RollbackKeeps, MoveCheckKeeps, DeleteReadKeeps, CommitCheckKeeps, MoveCommitKeeps,
     DeleteCommitKeeps
     DEF Proceeds, MoveNotFound, MoveRefused, DeleteNotFound, CommitRefused, DeadlockVictim
<1>2. ASSUME NEW s \in Session, Takes(s) PROVE IInv'
  BY <1>2, MoveLockKeeps, DeleteFindKeeps, DeleteWriteKeeps, DeleteReferKeeps DEF Takes
<1>3. ASSUME NEW s \in Session, ConnectionLost(s) PROVE IInv'
  BY <1>3, RollbackKeeps DEF ConnectionLost
<1>4. CASE UNCHANGED vars
  BY <1>4 DEF vars, IInv, TypeOK, LocksExclude, NobodyOverThemselves, MoveHolds, DeletionHolds,
              Locked, NobodyLeftUnderDeleted
<1> QED BY <1>1, <1>2, <1>3, <1>4, MoveStartKeeps, DeleteStartKeeps DEF Next

\* The invariant holds throughout.
LEMMA Invariant == Spec => []IInv
  BY InitialHolds, Inductive, PTL DEF Spec

\* Every variable keeps its type.
THEOREM TypeCorrect == Spec => []TypeOK
<1>1. IInv => TypeOK
  BY DEF IInv
<1> QED BY Invariant, <1>1, PTL

\* Moves and deletions that overlap in any number leave nobody under somebody
\* deleted.
THEOREM NobodyIsLeftUnderDeleted == Spec => []NobodyLeftUnderDeleted
<1>1. IInv => NobodyLeftUnderDeleted
  BY DEF IInv
<1> QED BY Invariant, <1>1, PTL

\* The rows from the next one of s on.
Above(s) == {e \in Employee : NextRow(s) <= e}

\* A move that s waits for has fewer rows above its next one.
LEMMA WaitingClimbs ==
    ASSUME IInv, NEW s \in Mover, NEW t \in Mover, t \in WaitsFor(s), pc[t] = "lock", rest[t] # {}
    PROVE  Above(t) \subseteq Above(s) /\ Above(t) # Above(s)
<1>1. pc[s] = "lock" /\ rest[s] # {} /\ \E k \in held[t] : k[1] = NextRow(s)
  BY DEF WaitsFor, Blockers, IInv, MoveHolds
<1>2. NextRow(s) \in Locked(t)
  BY <1>1 DEF IInv, MoveHolds
<1>3. NextRow(t) \in rest[t]
  BY NextRowIsLowest DEF IInv, MoveHolds
<1>4. NextRow(s) < NextRow(t)
  BY <1>2, <1>3 DEF IInv, MoveHolds
<1>5. NextRow(s) \in Employee
  BY <1>1, NextRowIsLowest DEF IInv, TypeOK
<1>6. NextRow(s) \in Int /\ NextRow(t) \in Int /\ \A e \in Employee : e \in Int
  BY <1>3, <1>5 DEF IInv, TypeOK
<1>7. \A e \in Employee : NextRow(t) <= e => NextRow(s) <= e
  BY <1>4, <1>6
<1>8. ~(NextRow(t) <= NextRow(s)) /\ NextRow(s) <= NextRow(s)
  BY <1>4, <1>6
<1> QED BY <1>5, <1>7, <1>8 DEF Above

\* Any number of overlapping moves has one that waits for none of the others.
THEOREM MovesStayFree == Spec => []MovesNeverDeadlock
<1>1. ASSUME IInv PROVE MovesNeverDeadlock
  <2> SUFFICES ASSUME NEW S \in SUBSET Mover, S # {},
                      \A s \in S : WaitsFor(s) \cap S # {}
               PROVE  FALSE
    BY DEF MovesNeverDeadlock
  <2>1. \A s \in S : pc[s] = "lock" /\ rest[s] # {}
    BY <1>1 DEF WaitsFor, IInv, MoveHolds
  <2> DEFINE Ranges == {Above(s) : s \in S}
             R == StrictSubsetOrdering(Employee)
  <2>2. Ranges \subseteq SUBSET Employee /\ Ranges # {}
    <3>1. \A s \in S : Above(s) \subseteq Employee
      BY DEF Above
    <3> QED BY <3>1
  <2>3. IsWellFoundedOn(R, SUBSET Employee)
    BY FS_StrictSubsetOrderingWellFounded, FS_FiniteSubsetsOfFinite
  <2> HIDE DEF Ranges, R
  <2>4. PICK A \in Ranges : \A B \in Ranges : <<B, A>> \notin R
    BY <2>2, <2>3, WFMin
  <2>5. PICK s \in S : A = Above(s)
    BY DEF Ranges
  <2>6. PICK t \in S : t \in WaitsFor(s)
    OBVIOUS
  <2>7. Above(t) \subseteq Above(s) /\ Above(t) # Above(s)
    BY <1>1, <2>1, <2>6, WaitingClimbs
  <2>8. <<Above(t), Above(s)>> \in R
    BY <2>2, <2>7 DEF R, Ranges, StrictSubsetOrdering
  <2>9. Above(t) \in Ranges
    BY DEF Ranges
  <2> QED BY <2>4, <2>5, <2>8, <2>9
<1> QED BY Invariant, <1>1, PTL

-----------------------------------------------------------------------------
(* Loops. *)

\* Until somebody else commits, what a move checked is still so.
StillAllowed ==
    \A s \in Mover :
        pc[s] \in {"ready", "checked"} /\ ~strangers[s] /\ to[s] # NoManager =>
            ~IsDescendant(manager, to[s], who[s])

\* Whoever commits has nobody in common with a move that is checked: both hold
\* their people.
LEMMA CommitIsOfStrangers ==
    ASSUME IInv, NEW s \in Session, MoveCommit(s) \/ DeleteCommit(s),
           NEW t \in Mover \ {s}, pc[t] \in {"ready", "checked"}
    PROVE  strangers'[t]
<1>1. \A e \in Ends(who[t], to[t]) : e \in Employee /\ <<e, "update">> \in held[t]
  BY DEF IInv, MoveHolds, Locked, Ends, TypeOK, ManagerOrNone
<1>2. \A e \in Ends(who[t], to[t]) : e \notin moved[s] /\ (\A mode \in Mode : <<e, mode>> \notin held[s])
  BY <1>1, CommitSpares DEF MoveCommit, DeleteCommit
<1>3. {who[t], to[t]} \subseteq Ends(who[t], to[t]) \cup {NoManager}
  BY DEF Ends
<1>4. CASE MoveCommit(s)
  <2>1. \A e \in {who[s], to[s]} \ {NoManager} : <<e, "update">> \in held[s]
    BY <1>4 DEF MoveCommit, IInv, MoveHolds, Locked, Ends
  <2>2. ({who[s], to[s]} \ {NoManager}) \cap {who[t], to[t]} = {}
    BY <1>2, <1>3, <2>1 DEF Mode
  <2> QED BY <1>4, <2>2 DEF MoveCommit, Publish
<1>5. CASE DeleteCommit(s)
  <2>1. <<who[s], "update">> \in held[s] /\ NoManager \notin {who[s]} \cup moved[s]
    <3>1. s \in Deleter /\ pc[s] = "checked"
      BY <1>5 DEF DeleteCommit
    <3>2. <<who[s], "update">> \in held[s]
      BY <3>1 DEF IInv, DeletionHolds
    <3>3. who[s] \in Employee /\ moved[s] \subseteq Employee
      BY <3>2 DEF IInv, TypeOK
    <3> QED BY <3>2, <3>3
  <2>2. ({who[s]} \cup moved[s]) \cap {who[t], to[t]} = {}
    BY <1>2, <1>3, <2>1 DEF Mode
  <2> QED BY <1>5, <2>2 DEF DeleteCommit, Publish
<1> QED BY <1>4, <1>5

\* Every step keeps it.
LEMMA StillAllowedInductive ==
    IInv /\ StillAllowed /\ [Next]_vars => StillAllowed'
<1> SUFFICES ASSUME IInv, StillAllowed, [Next]_vars,
                    NEW t \in Mover, pc'[t] \in {"ready", "checked"}, ~strangers'[t],
                    to'[t] # NoManager
             PROVE  ~IsDescendant(manager', to'[t], who'[t])
  BY DEF StillAllowed
<1> DEFINE Kept == /\ pc[t] \in {"ready", "checked"} /\ ~strangers[t]
                   /\ manager' = manager /\ to'[t] = to[t] /\ who'[t] = who[t]
<1>1. ASSUME NEW s \in Session, MoveCommit(s) \/ DeleteCommit(s) PROVE FALSE
  <2>1. t # s /\ pc[t] = pc'[t]
    BY <1>1 DEF MoveCommit, DeleteCommit, Publish, Forget, IInv, TypeOK
  <2> QED BY <1>1, <2>1, CommitIsOfStrangers
<1>2. ASSUME NEW s \in Session, Rollback(s) PROVE Kept
  BY <1>2 DEF Rollback, Forget, IInv, TypeOK
<1>3. ASSUME NEW s \in Session, MoveCheck(s), t # s PROVE Kept
  BY <1>3 DEF MoveCheck, IInv, TypeOK
<1>4. ASSUME MoveCheck(t) PROVE ~IsDescendant(manager', to'[t], who'[t])
  BY <1>4 DEF MoveCheck, MoveAllowed
<1>5. ASSUME NEW s \in Session,
             \/ CommitCheck(s) \/ DeleteRead(s) \/ Takes(s)
             \/ \E e \in Employee, m \in ManagerOrNone : MoveStart(s, e, m)
             \/ \E x \in Employee : DeleteStart(s, x)
      PROVE  Kept
  <2> USE DEF IInv, TypeOK
  <2>1. CASE CommitCheck(s)
    BY <2>1 DEF CommitCheck, Written, MoveHolds
  <2>2. CASE DeleteRead(s)
    BY <2>2 DEF DeleteRead
  <2>3. CASE MoveLock(s)
    BY <2>3 DEF MoveLock
  <2>4. CASE DeleteFind(s)
    <3>1. s # t
      BY <2>4 DEF DeleteFind, MoveHolds
    <3> QED BY <2>4, <3>1 DEF DeleteFind
  <2>5. CASE \E r \in Employee : DeleteWrite(s, r)
    BY <2>5 DEF DeleteWrite
  <2>6. CASE DeleteRefer(s)
    BY <2>6 DEF DeleteRefer
  <2>7. CASE \E e \in Employee, m \in ManagerOrNone : MoveStart(s, e, m)
    BY <2>7 DEF MoveStart
  <2>8. CASE \E x \in Employee : DeleteStart(s, x)
    BY <2>8 DEF DeleteStart
  <2> QED BY <1>5, <2>1, <2>2, <2>3, <2>4, <2>5, <2>6, <2>7, <2>8 DEF Takes
<1>6. CASE UNCHANGED vars
  BY <1>6 DEF vars, StillAllowed
<1>7. Kept => ~IsDescendant(manager', to'[t], who'[t])
  BY DEF StillAllowed
<1> HIDE DEF Kept
<1> QED BY <1>1, <1>2, <1>3, <1>4, <1>5, <1>6, <1>7
        DEF Next, Proceeds, MoveNotFound, MoveRefused, DeleteNotFound, CommitRefused,
            DeadlockVictim, ConnectionLost

\* The walk the checks rest on: putting e under somebody outside e's subtree
\* closes no loop.
LEMMA MoveKeepsAcyclic ==
    ASSUME NEW g \in Structure, Acyclic(g),
           NEW e \in Employee, NEW m \in ManagerOrNone,
           m # NoManager => ~IsDescendant(g, m, e)
    PROVE  Acyclic([g EXCEPT ![e] = m])
<1> DEFINE h == [g EXCEPT ![e] = m]
<1> SUFFICES ASSUME NEW S \in SUBSET Employee, S # {}, \A x \in S : h[x] \in S PROVE FALSE
  BY DEF Acyclic
<1>1. \A x \in S : x # e => g[x] \in S
  BY DEF Structure
<1>2. e \in S
  BY <1>1 DEF Acyclic
<1>3. m \in S
  BY <1>2 DEF Structure
<1>4. PICK D \in SUBSET Employee : e \in D /\ DownClosed(g, D) /\ m \notin D
  BY <1>3, EmployeeAssumption DEF IsDescendant
<1>5. \A x \in S \ D : g[x] \in S \ D
  BY <1>1, <1>4 DEF DownClosed
<1>6. S \ D # {}
  BY <1>3, <1>4
<1> QED BY <1>5, <1>6 DEF Acyclic

\* A move closes a loop only if strangers committed between its check and its
\* commit.
THEOREM LoopsTakeStrangers == Spec => LoopsNeedStrangers
<1>1. Init => StillAllowed
  BY DEF Init, StillAllowed
<1>2. ASSUME IInv, StillAllowed,
             NEW s \in Mover, MoveCommit(s), Acyclic(manager), ~strangers[s]
      PROVE  Acyclic(manager')
  <2>1. moved[s] = {who[s]} /\ who[s] \in Employee
    BY <1>2 DEF IInv, MoveHolds, MoveCommit
  <2>2. manager' = [manager EXCEPT ![who[s]] = to[s]]
    BY <1>2, <2>1 DEF MoveCommit, Publish, Final, IInv, TypeOK, Structure
  <2>3. to[s] # NoManager => ~IsDescendant(manager, to[s], who[s])
    BY <1>2 DEF StillAllowed, MoveCommit
  <2> QED BY <1>2, <2>1, <2>2, <2>3, MoveKeepsAcyclic DEF IInv, TypeOK
<1>3. ASSUME IInv, StillAllowed
      PROVE  \A s \in Mover :
                MoveCommit(s) /\ Acyclic(manager) /\ ~Acyclic(manager') => strangers[s]
  BY <1>2, <1>3
<1> QED BY Invariant, <1>1, <1>3, StillAllowedInductive, PTL DEF Spec, LoopsNeedStrangers
=============================================================================
