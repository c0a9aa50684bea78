------------------------- MODULE VersionedEditsProofs -------------------------
(***************************************************************************)
(* Proofs about VersionedEdits, for any clients and any managers.          *)
(***************************************************************************)
EXTENDS VersionedEdits, TLAPS

USE ClientAssumption, VersionAssumption

-----------------------------------------------------------------------------
(* The invariant. *)

InFlight(c) == pc[c] \notin {"idle", "read"}

\* No request counts further than one above what clients read.
Bounded ==
    /\ row.version <= MaxVersion + 1
    /\ \A c \in Client : seen[c].version <= MaxVersion /\ loaded[c] <= MaxVersion

\* What a transaction with the lock has written is a row with the manager in
\* force; without the lock, a request is under way only while the committed row
\* is in step.
InStep ==
    \A c \in Client :
        /\ holder = c => /\ InFlight(c)
                         /\ mine[c] \in Row
                         /\ mine[c].manager = edge
        /\ InFlight(c) /\ holder # c => row.manager = edge

\* Before the version check the lock is held for a sync alone.
SyncOnly ==
    \A c \in Client :
        pc[c] \in {"edit", "move"} /\ holder = c =>
            /\ row.manager # edge
            /\ mine[c].version = row.version + 1

\* What was checked and is to be committed.
Checked ==
    \A c \in Client :
        /\ pc[c] \in {"edited", "moved", "planned"} => holder = c
        /\ pc[c] \notin {"change", "edited"} => ~overtaken[c]
        /\ pc[c] \in {"change", "edited"} /\ ~overtaken[c] => row.version <= loaded[c]
        /\ pc[c] = "edited" => mine[c].version = loaded[c] + 1
        /\ pc[c] \in {"moved", "planned"} =>
            /\ mine[c].version <= MaxVersion
            /\ mine[c] = row \/ mine[c].version > row.version

\* A move under way names a manager.
Goals == \A c \in Client : pc[c] \in {"move", "moved", "planned"} => goal[c] \in Manager

IInv == TypeOK /\ Bounded /\ InStep /\ SyncOnly /\ Checked /\ Goals

\* It holds at the start: the row is in step and no request is in flight.
LEMMA InitialHolds == Init => IInv
  BY DEF Init, IInv, TypeOK, Fresh, Row, Bounded, InStep, InFlight, SyncOnly, Checked, Goals

-----------------------------------------------------------------------------
(* Rows. *)

\* A row brought in step.
LEMMA RowBroughtInStep ==
    ASSUME NEW r \in Row, NEW m \in Manager, r.version <= MaxVersion + 1
    PROVE  /\ [r EXCEPT !.manager = m, !.version = @ + 1] \in Row
           /\ [r EXCEPT !.manager = m, !.version = @ + 1].manager = m
           /\ [r EXCEPT !.manager = m, !.version = @ + 1].version = r.version + 1
<1>1. r.version + 1 \in 1 .. MaxVersion + 4
  BY DEF Row
<1> QED BY <1>1 DEF Row

\* A row with the fields a client sent.
LEMMA RowEdited ==
    ASSUME NEW r \in Row, NEW c \in Client, NEW v \in Nat, v <= MaxVersion
    PROVE  /\ [r EXCEPT !.content = c, !.version = v + 1] \in Row
           /\ [r EXCEPT !.content = c, !.version = v + 1].manager = r.manager
           /\ [r EXCEPT !.content = c, !.version = v + 1].version = v + 1
<1>1. v + 1 \in 1 .. MaxVersion + 4
  OBVIOUS
<1> QED BY <1>1 DEF Row

\* A row counts its versions from 1.
LEMMA RowFields ==
    ASSUME NEW r \in Row
    PROVE  r.version \in Nat /\ r.version <= MaxVersion + 4 /\ r.manager \in Manager
  BY DEF Row

-----------------------------------------------------------------------------
(* What a request in flight sees, and how it ends. *)

\* The statements of a request in flight see a row with the manager in force.
LEMMA VisibleInStep ==
    ASSUME IInv, NEW c \in Client, InFlight(c)
    PROVE  Visible(c) \in Row /\ Visible(c).manager = edge
  BY DEF IInv, TypeOK, InStep, Visible

\* A request that raises keeps the invariant.
LEMMA RollbackKeeps ==
    ASSUME IInv, NEW c \in Client, Rollback(c)
    PROVE  IInv'
<1> USE DEF IInv, Rollback, End
<1>1. TypeOK'
  BY DEF TypeOK
<1>2. Bounded'
  BY DEF Bounded, TypeOK
<1>3. \A d \in Client : holder' = d => holder = d /\ d # c
  BY DEF TypeOK
<1>4. \A d \in Client \ {c} : /\ pc'[d] = pc[d] /\ mine'[d] = mine[d] /\ loaded'[d] = loaded[d]
                              /\ overtaken'[d] = overtaken[d]
                              /\ holder = d => holder' = d
  BY DEF TypeOK
<1>5. pc'[c] = "idle" /\ overtaken'[c] = FALSE
  BY DEF TypeOK
<1>6. InStep'
  BY <1>3, <1>4, <1>5 DEF InStep, InFlight
<1>7. SyncOnly'
  BY <1>3, <1>4, <1>5 DEF SyncOnly
<1>8. Checked'
  BY <1>3, <1>4, <1>5 DEF Checked
<1>9. Goals'
  BY <1>4, <1>5 DEF Goals, TypeOK
<1> QED BY <1>1, <1>2, <1>6, <1>7, <1>8, <1>9

\* A request that commits a row with the manager in force keeps it.
LEMMA PublishKeeps ==
    ASSUME IInv, NEW c \in Client, holder = c, NEW new \in Row, Publish(c, new),
           new.version <= MaxVersion + 1, edge' = new.manager,
           edge' \in Manager, planned' \in Manager \cup {Nobody}
    PROVE  IInv'
<1> USE DEF IInv, Publish, End
<1>1. TypeOK'
  BY DEF TypeOK
<1>2. Bounded'
  BY DEF Bounded, TypeOK
<1>3. holder' = Nobody /\ row' = new
  OBVIOUS
<1>4. \A d \in Client \ {c} : /\ pc'[d] = pc[d] /\ mine'[d] = mine[d] /\ loaded'[d] = loaded[d]
                              /\ pc[d] \notin {"edited", "moved", "planned"}
  BY DEF TypeOK, Checked
<1>5. pc'[c] = "idle" /\ overtaken'[c] = FALSE
  BY DEF TypeOK
<1>6. \A d \in Client \ {c} :
          overtaken'[d] = (overtaken[d] \/ (new # row /\ pc[d] \in {"change", "edited", "moved", "planned"}))
  BY DEF TypeOK
<1>7. InStep'
  BY <1>3, <1>4, <1>5 DEF InStep, InFlight
<1>8. SyncOnly'
  BY <1>3 DEF SyncOnly
<1>9. Checked'
  <2> SUFFICES ASSUME NEW d \in Client \ {c}
               PROVE  /\ pc[d] # "change" => ~overtaken'[d]
                      /\ pc[d] = "change" /\ ~overtaken'[d] => new.version <= loaded[d]
    BY <1>3, <1>4, <1>5 DEF Checked
  <2> QED BY <1>4, <1>6 DEF Checked
<1>10. Goals'
  BY <1>4, <1>5 DEF Goals, TypeOK
<1> QED BY <1>1, <1>2, <1>7, <1>8, <1>9, <1>10

-----------------------------------------------------------------------------
(* The steps of a request. *)

\* The sync a request begins with.
LEMMA BeginKeeps ==
    ASSUME IInv, NEW c \in Client, pc[c] = "read", Synced(c), NEW next \in {"edit", "move"},
           pc' = [pc EXCEPT ![c] = next],
           NEW m \in Manager \cup {Nobody}, goal' = [goal EXCEPT ![c] = m],
           next = "move" => m \in Manager,
           UNCHANGED <<row, edge, planned, seen, loaded, overtaken>>
    PROVE  IInv'
<1> USE DEF IInv
<1> DEFINE synced == [row EXCEPT !.manager = edge, !.version = @ + 1]
<1>1. synced \in Row /\ synced.manager = edge /\ synced.version = row.version + 1
  BY RowBroughtInStep DEF TypeOK, Bounded
<1>2. holder # c
  BY DEF InStep, InFlight
<1>3. \/ /\ row.manager = edge /\ holder' = holder /\ mine' = mine
      \/ /\ row.manager # edge /\ holder = Nobody /\ holder' = c
         /\ mine' = [mine EXCEPT ![c] = synced]
  BY <1>2 DEF Synced, Free
<1> HIDE DEF synced
<1>4. TypeOK'
  BY <1>1, <1>3 DEF TypeOK
<1>5. Bounded'
  BY DEF Bounded
<1>6. \A d \in Client \ {c} : pc'[d] = pc[d] /\ mine'[d] = mine[d] /\ (holder' = d <=> holder = d)
  BY <1>2, <1>3 DEF TypeOK
<1>7. pc'[c] = next
  BY DEF TypeOK
<1>8. holder' = c => row.manager # edge /\ mine'[c] = synced
  BY <1>2, <1>3 DEF TypeOK
<1>9. holder' # c => row.manager = edge
  BY <1>3
<1>10. InStep'
  BY <1>1, <1>6, <1>7, <1>8, <1>9 DEF InStep, InFlight
<1>11. SyncOnly'
  BY <1>1, <1>6, <1>7, <1>8 DEF SyncOnly
<1>12. Checked'
  BY <1>6, <1>7 DEF Checked
<1>13. Goals'
  BY <1>7 DEF Goals, TypeOK
<1> QED BY <1>4, <1>5, <1>10, <1>11, <1>12, <1>13

\* The version check of an edit passes.
LEMMA EditLoadKeeps == ASSUME IInv, NEW c \in Client, EditLoad(c) PROVE IInv'
<1> USE DEF IInv, EditLoad
<1>1. Visible(c) \in Row /\ Visible(c).version <= MaxVersion /\ row.version <= Visible(c).version
  BY VisibleInStep DEF InFlight, Bounded, TypeOK, SyncOnly, Visible, Row
<1>2. TypeOK'
  BY <1>1 DEF TypeOK, Row
<1>3. Bounded'
  BY <1>1 DEF Bounded, TypeOK
<1>4. \A d \in Client \ {c} : pc'[d] = pc[d] /\ loaded'[d] = loaded[d]
  BY DEF TypeOK
<1>5. pc'[c] = "change" /\ loaded'[c] = Visible(c).version
  BY DEF TypeOK
<1>6. InStep'
  BY <1>4, <1>5 DEF InStep, InFlight
<1>7. SyncOnly'
  BY <1>4, <1>5 DEF SyncOnly
<1>8. Checked'
  BY <1>1, <1>4, <1>5 DEF Checked
<1>9. Goals'
  BY <1>4, <1>5 DEF Goals
<1> QED BY <1>2, <1>3, <1>6, <1>7, <1>8, <1>9

\* The UPDATE of an edit.
LEMMA EditFlushKeeps == ASSUME IInv, NEW c \in Client, EditFlush(c) PROVE IInv'
<1> USE DEF IInv, EditFlush
<1> DEFINE new == [Visible(c) EXCEPT !.content = c, !.version = loaded[c] + 1]
<1>1. Visible(c) \in Row /\ Visible(c).manager = edge
  BY VisibleInStep DEF InFlight
<1>2. new \in Row /\ new.manager = edge /\ new.version = loaded[c] + 1
  <2>1. loaded[c] \in Nat /\ loaded[c] <= MaxVersion
    BY DEF TypeOK, Bounded
  <2> QED BY ONLY <1>1, <2>1, RowEdited, c \in Client
<1> HIDE DEF new
<1>3. mine' = [mine EXCEPT ![c] = new] /\ holder' = c
  BY DEF new
<1>4. TypeOK'
  BY <1>2, <1>3 DEF TypeOK
<1>5. Bounded'
  BY DEF Bounded
<1>6. \A d \in Client \ {c} : pc'[d] = pc[d] /\ mine'[d] = mine[d] /\ holder # d
  BY <1>3 DEF TypeOK, Free
<1>7. pc'[c] = "edited" /\ mine'[c] = new
  BY <1>3 DEF TypeOK
<1>8. InStep'
  BY <1>2, <1>3, <1>6, <1>7 DEF InStep, InFlight
<1>9. SyncOnly'
  BY <1>3, <1>6, <1>7 DEF SyncOnly
<1>10. Checked'
  BY <1>2, <1>3, <1>6, <1>7 DEF Checked
<1>11. Goals'
  BY <1>6, <1>7 DEF Goals
<1> QED BY <1>4, <1>5, <1>8, <1>9, <1>10, <1>11

\* FOR UPDATE and the version check of a move.
LEMMA MoveLockKeeps == ASSUME IInv, NEW c \in Client, MoveLock(c) PROVE IInv'
<1> USE DEF IInv, MoveLock
<1>1. Visible(c) \in Row /\ Visible(c).manager = edge
  BY VisibleInStep DEF InFlight
<1>2. Visible(c).version <= MaxVersion
  BY DEF Bounded, TypeOK
<1>3. Visible(c) = row \/ Visible(c).version > row.version
  BY DEF SyncOnly, Visible, TypeOK, Row
<1>4. PICK next \in {"moved", "planned"} : pc' = [pc EXCEPT ![c] = next]
  OBVIOUS
<1>5. TypeOK'
  BY <1>1, <1>4 DEF TypeOK
<1>6. Bounded'
  BY DEF Bounded
<1>7. \A d \in Client \ {c} : pc'[d] = pc[d] /\ mine'[d] = mine[d] /\ holder # d
  BY <1>4 DEF TypeOK, Free
<1>8. pc'[c] = next /\ mine'[c] = Visible(c) /\ holder' = c
  BY <1>4 DEF TypeOK
<1>9. InStep'
  BY <1>1, <1>7, <1>8 DEF InStep, InFlight
<1>10. SyncOnly'
  BY <1>7, <1>8 DEF SyncOnly
<1>11. Checked'
  BY <1>2, <1>3, <1>7, <1>8 DEF Checked
<1>12. Goals'
  BY <1>7, <1>8 DEF Goals
<1> QED BY <1>5, <1>6, <1>9, <1>10, <1>11, <1>12

\* What a move commits: the row it has locked, brought in step.
LEMMA MoveCommitRow ==
    ASSUME IInv, NEW c \in Client, MoveCommit(c)
    PROVE  /\ holder = c /\ mine[c] \in Row
           /\ row' \in Row /\ row'.manager = edge' /\ edge' \in Manager
           /\ row'.version <= MaxVersion + 1
           /\ row' = mine[c] \/ row'.version = mine[c].version + 1
<1>1. holder = c /\ mine[c] \in Row /\ mine[c].version <= MaxVersion
  BY DEF MoveCommit, IInv, Checked, InStep
<1>2. goal[c] \in Manager /\ edge' = goal[c]
  BY DEF MoveCommit, IInv, Goals
<1>3. CASE mine[c].manager = goal[c]
  BY <1>1, <1>2, <1>3, RowFields DEF MoveCommit, Publish
<1>4. CASE mine[c].manager # goal[c]
  <2>1. row' = [mine[c] EXCEPT !.manager = goal[c], !.version = @ + 1]
    BY <1>4 DEF MoveCommit, Publish
  <2>2. mine[c].version \in Nat /\ mine[c].version <= MaxVersion + 1
    BY <1>1, RowFields
  <2>3. row' \in Row /\ row'.manager = goal[c] /\ row'.version = mine[c].version + 1
    BY <1>1, <1>2, <2>1, <2>2, RowBroughtInStep
  <2> QED BY <1>1, <1>2, <2>2, <2>3
<1> QED BY <1>3, <1>4

\* A move that commits keeps the invariant.
LEMMA MoveCommitKeeps == ASSUME IInv, NEW c \in Client, MoveCommit(c) PROVE IInv'
<1>1. Publish(c, row') /\ planned' = Nobody
  BY DEF MoveCommit, Publish, End
<1> QED BY <1>1, MoveCommitRow, PublishKeeps

\* Every step keeps the invariant.
LEMMA Inductive == IInv /\ [Next]_vars => IInv'
<1> SUFFICES ASSUME IInv, [Next]_vars PROVE IInv'
  OBVIOUS
<1>1. CASE DayPasses
  <2>1. \A c \in Client : ~InFlight(c) /\ holder # c
    BY <1>1 DEF DayPasses, InFlight, IInv, InStep
  <2>2. TypeOK' /\ Bounded' /\ Checked' /\ Goals'
    BY <1>1 DEF DayPasses, IInv, TypeOK, Bounded, Checked, Goals
  <2>3. InStep' /\ SyncOnly'
    BY <1>1, <2>1 DEF DayPasses, InStep, InFlight, SyncOnly
  <2> QED BY <2>2, <2>3 DEF IInv
<1>2. ASSUME NEW c \in Client, Read(c) PROVE IInv'
  <2> USE <1>2 DEF Read, IInv
  <2>1. TypeOK' /\ Bounded'
    BY DEF TypeOK, Bounded
  <2>2. \A d \in Client : pc'[d] = IF d = c THEN "read" ELSE pc[d]
    BY DEF TypeOK
  <2>3. InStep' /\ SyncOnly'
    BY <2>2 DEF InStep, InFlight, SyncOnly
  <2>4. Checked' /\ Goals'
    BY <2>2 DEF Checked, Goals
  <2> QED BY <2>1, <2>3, <2>4
<1>3. ASSUME NEW c \in Client, EditBegin(c) PROVE IInv'
  <2>1. goal[c] \in Manager \cup {Nobody} /\ goal' = [goal EXCEPT ![c] = goal[c]]
    BY <1>3 DEF EditBegin, IInv, TypeOK
  <2> QED BY <1>3, <2>1, BeginKeeps DEF EditBegin
<1>4. ASSUME NEW c \in Client, NEW m \in Manager, MoveBegin(c, m) PROVE IInv'
  BY <1>4, BeginKeeps DEF MoveBegin
<1>5. ASSUME NEW c \in Client, EditConflict(c) \/ MoveConflict(c) \/ MoveUnchanged(c)
      PROVE  IInv'
  BY <1>5, RollbackKeeps DEF EditConflict, MoveConflict, MoveUnchanged
<1>6. ASSUME NEW c \in Client, EditCommit(c) PROVE IInv'
  <2>1. holder = c /\ mine[c] \in Row /\ mine[c].manager = edge /\ mine[c].version <= MaxVersion + 1
    BY <1>6 DEF EditCommit, IInv, InStep, Checked, Bounded, TypeOK, Row
  <2> QED BY <1>6, <2>1, PublishKeeps DEF EditCommit, IInv, TypeOK
<1>7. ASSUME NEW c \in Client, PlanCommit(c) PROVE IInv'
  <2>1. holder = c /\ mine[c] \in Row /\ mine[c].manager = edge /\ mine[c].version <= MaxVersion + 1
    BY <1>7 DEF PlanCommit, IInv, InStep, Checked, Row
  <2>2. goal[c] \in Manager
    BY <1>7 DEF PlanCommit, IInv, Goals
  <2> QED BY <1>7, <2>1, <2>2, PublishKeeps DEF PlanCommit, IInv, TypeOK
<1>8. CASE UNCHANGED vars
  BY <1>8 DEF vars, IInv, TypeOK, Bounded, InStep, InFlight, SyncOnly, Checked, Goals
<1> QED BY <1>1, <1>2, <1>3, <1>4, <1>5, <1>6, <1>7, <1>8,
           EditLoadKeeps, EditFlushKeeps, MoveLockKeeps, MoveCommitKeeps DEF Next

\* The invariant holds throughout.
LEMMA Invariant == Spec => []IInv
  BY InitialHolds, Inductive, PTL DEF Spec

-----------------------------------------------------------------------------
(* What follows from it. *)

\* Every variable keeps its type: versions stay within their bound, too.
THEOREM TypeCorrect == Spec => []TypeOK
<1>1. IInv => TypeOK
  BY DEF IInv
<1> QED BY Invariant, <1>1, PTL

\* Whatever is committed, the row names the manager in force.
THEOREM RowStaysInStep == Spec => WritesLeaveRowInStep
<1>1. ASSUME IInv, [Next]_vars PROVE row' # row => row'.manager = edge'
  <2> SUFFICES ASSUME row' # row PROVE row'.manager = edge'
    OBVIOUS
  <2>1. PICK c \in Client : EditCommit(c) \/ MoveCommit(c) \/ PlanCommit(c)
    BY <1>1 DEF Next, vars, DayPasses, Read, EditBegin, EditLoad, EditConflict, EditFlush,
                MoveBegin, MoveLock, MoveConflict, MoveUnchanged, Rollback
  <2>2. CASE EditCommit(c) \/ PlanCommit(c)
    BY <1>1, <2>2 DEF IInv, Checked, InStep, EditCommit, PlanCommit, Publish
  <2>3. CASE MoveCommit(c)
    BY <1>1, <2>3, MoveCommitRow
  <2> QED BY <2>1, <2>2, <2>3
<1> QED BY Invariant, <1>1, PTL DEF Spec, WritesLeaveRowInStep

\* Nobody's write of the row comes between what a move checks and its commit.
THEOREM MovesStayOnTop == Spec => MovesAreNotOvertaken
<1>1. IInv => \A c \in Client : MoveCommit(c) \/ PlanCommit(c) => ~overtaken[c]
  BY DEF IInv, Checked, MoveCommit, PlanCommit
<1> QED BY Invariant, <1>1, PTL DEF Spec, MovesAreNotOvertaken

\* Only an edit that was overtaken after its version check commits a version
\* that is not higher.
THEOREM VersionsRise == Spec => VersionsRepeatOnlyByOverlap
<1> DEFINE Repeats == row' # row /\ row'.version <= row.version
<1>1. ASSUME IInv, [Next]_vars, Repeats
      PROVE  \E c \in Client : EditCommit(c) /\ overtaken[c]
  <2>1. PICK c \in Client : EditCommit(c) \/ MoveCommit(c) \/ PlanCommit(c)
    BY <1>1 DEF Next, vars, DayPasses, Read, EditBegin, EditLoad, EditConflict, EditFlush,
                MoveBegin, MoveLock, MoveConflict, MoveUnchanged, Rollback
  <2>2. /\ row \in Row /\ mine[c] \in Row /\ loaded[c] \in Nat
        /\ row.version \in Nat /\ mine[c].version \in Nat
    BY <1>1, <2>1 DEF IInv, TypeOK, Checked, InStep, Row, EditCommit, MoveCommit, PlanCommit
  <2>3. ~MoveCommit(c)
    <3> SUFFICES ASSUME MoveCommit(c) PROVE FALSE
      OBVIOUS
    <3>1. row' = mine[c] \/ row'.version = mine[c].version + 1
      BY <1>1, MoveCommitRow
    <3>2. mine[c] = row \/ mine[c].version > row.version
      BY <1>1 DEF IInv, Checked, MoveCommit
    <3> QED BY <1>1, <2>2, <3>1, <3>2
  <2>4. ~PlanCommit(c)
    BY <1>1, <2>2 DEF IInv, Checked, PlanCommit, Publish
  <2>5. EditCommit(c) => overtaken[c]
    BY <1>1, <2>2 DEF IInv, Checked, EditCommit, Publish
  <2> QED BY <2>1, <2>3, <2>4, <2>5
<1> QED BY Invariant, <1>1, PTL DEF Spec, VersionsRepeatOnlyByOverlap

\* A client that read the row as it is gets a conflict only for a change that
\* fell due.
THEOREM ConflictsHaveCauses == Spec => ConflictMeansChangedOrDue
<1>1. IInv => \A c \in Client :
          EditConflict(c) \/ MoveConflict(c) => row # seen[c] \/ row.manager # edge
  BY DEF IInv, SyncOnly, EditConflict, MoveConflict, Visible
<1> QED BY Invariant, <1>1, PTL DEF Spec, ConflictMeansChangedOrDue
=============================================================================
