-------------------------- MODULE PlannedMovesProofs --------------------------
(***************************************************************************)
(* Proofs about PlannedMoves, for any number of rows, days, moments and    *)
(* colleagues: when cancellations that overlap leave an employee without a *)
(* row, and that a cancelled change is gone from list and history.         *)
(***************************************************************************)
EXTENDS PlannedMoves, FiniteSetTheorems, SequenceTheorems, WellFoundedInduction, TLAPS

USE BoundsAssumption, DialogAssumption, EmployeeAssumption, HorizonAssumption DEF Day

Moment == [rows : SUBSET Row, day : Day]

Ids(rows) == {r.id : r \in rows}

\* The ids that ever had a row.
Used == UNION {Ids(history[i].rows) : i \in 1 .. Now}

-----------------------------------------------------------------------------
(* The server's history. *)

\* The last moment is one.
LEMMA HistoryType ==
    ASSUME TypeOK
    PROVE  history \in Seq(Moment) /\ Now \in 1 .. MaxMoments /\ Now \in Nat
           /\ Rows \in SUBSET Row /\ Today \in Day /\ Ids(Rows) \subseteq Used
<1>1. history \in Seq(Moment) /\ Now \in 1 .. MaxMoments
  BY DEF TypeOK, Moment
<1>2. history[Now] \in Moment
  BY <1>1, ElementOfSeq DEF Now
<1> QED BY <1>1, <1>2 DEF Rows, Today, Moment, Used

\* What is committed is what is there next; what was there stays in history.
LEMMA Committed ==
    ASSUME history \in Seq(Moment), NEW rows \in SUBSET Row, NEW day \in Day, Commit(rows, day)
    PROVE  /\ history' \in Seq(Moment)
           /\ Now' = Now + 1 /\ Now' \in 1 .. MaxMoments
           /\ Rows' = rows /\ Today' = day
           /\ \A i \in 1 .. Now : history'[i] = history[i]
           /\ Used' = Used \cup Ids(rows)
<1>1. [rows |-> rows, day |-> day] \in Moment
  BY DEF Moment
<1>2. /\ history' \in Seq(Moment)
      /\ Len(history') = Len(history) + 1
      /\ history'[Len(history) + 1] = [rows |-> rows, day |-> day]
      /\ \A i \in 1 .. Len(history) : history'[i] = history[i]
  BY <1>1 DEF Commit
<1>3. Len(history) \in Nat
  OBVIOUS
<1>4. /\ Now' = Now + 1 /\ Now' \in 1 .. MaxMoments
      /\ Rows' = rows /\ Today' = day
  BY <1>2, <1>3 DEF Now, Rows, Today, Commit
<1>5. Used' = Used \cup Ids(rows)
  <2>1. 1 .. Now' = (1 .. Now) \cup {Now + 1}
    BY <1>3, <1>4 DEF Now
  <2>2. \A i \in 1 .. Now : history'[i].rows = history[i].rows
    BY <1>2 DEF Now
  <2>3. history'[Now + 1].rows = rows
    BY <1>2 DEF Now
  <2> QED BY <2>1, <2>2, <2>3 DEF Used
<1> QED BY <1>2, <1>4, <1>5 DEF Now

\* A step that commits nothing leaves everything about the rows.
LEMMA NothingCommitted ==
    ASSUME history' = history
    PROVE  Now' = Now /\ Rows' = Rows /\ Today' = Today /\ Used' = Used
  BY DEF Now, Rows, Today, Used

\* Of some numbers up to d there is a smallest.
LEMMA SmallestOf ==
    ASSUME NEW d \in Nat, NEW B \in SUBSET (0 .. d), B # {}
    PROVE  \E b \in B : \A c \in B : b <= c
<1> DEFINE R == StrictSubsetOrdering(0 .. d)
           Heads == {0 .. b : b \in B}
<1>1. IsWellFoundedOn(R, SUBSET (0 .. d))
  <2>1. IsFiniteSet(0 .. d) /\ 0 \in Int /\ d \in Int
    BY FS_Interval
  <2>2. FiniteSubsetsOf(0 .. d) = SUBSET (0 .. d)
    BY <2>1, FS_FiniteSubsetsOfFinite
  <2>3. IsWellFoundedOn(R, FiniteSubsetsOf(0 .. d))
    BY FS_StrictSubsetOrderingWellFounded
  <2> HIDE DEF R
  <2> QED BY <2>2, <2>3
<1>2. Heads \subseteq SUBSET (0 .. d) /\ Heads # {}
  <2>1. \A b \in B : 0 .. b \subseteq 0 .. d
    OBVIOUS
  <2> QED BY <2>1
<1>3. PICK T \in Heads : \A U \in Heads : <<U, T>> \notin R
  <2> HIDE DEF Heads, R
  <2> QED BY <1>1, <1>2, WFMin
<1>4. PICK b \in B : T = 0 .. b
  BY <1>3
<1>5. ASSUME NEW c \in B, c < b PROVE FALSE
  <2>1. 0 .. c \in Heads
    OBVIOUS
  <2>2. 0 .. c \subseteq T /\ b \in T /\ b \notin 0 .. c /\ T \subseteq 0 .. d
    BY <1>4, <1>5
  <2>3. <<0 .. c, T>> \in R
    <3>1. 0 .. c \in SUBSET (0 .. d) /\ T \in SUBSET (0 .. d) /\ 0 .. c # T
      BY <2>2
    <3> QED BY <2>2, <3>1 DEF StrictSubsetOrdering
  <2> QED BY <1>3, <2>1, <2>3
<1> QED BY <1>5

\* The rows a colleague's move leaves: those that end by then, the one in force
\* shortened, and a new one under an id nothing ever had.
MovedRows(m, f, i) ==
    {r \in Rows : r.to <= f}
        \cup {[r EXCEPT !.to = f] : r \in {q \in Rows : q.from < f /\ f < q.to}}
        \cup {[id |-> i, mgr |-> m, from |-> f, to |-> Horizon]}

\* ColleagueMoves commits those rows.
LEMMA MoveCommits ==
    ASSUME TypeOK, NEW m \in ManagerOrNone, NEW f \in Day, ColleagueMoves(m, f)
    PROVE  \E i \in (1 .. MaxRows) \ Used : Commit(MovedRows(m, f, i), Today)
<1> DEFINE unused == (1 .. MaxRows) \ Used
           next == SetEdge(Rows, m, f)
           i == CHOOSE j \in unused : \A k \in unused : j <= k
           kept == {r \in Rows : r.to <= f}
           cut == {[r EXCEPT !.to = f] : r \in {q \in Rows : q.from < f /\ f < q.to}}
           opened == [mgr |-> m, from |-> f, to |-> Horizon]
<1>1. i \in unused
  <2>1. unused # {}
    BY DEF ColleagueMoves, Used, Ids
  <2>2. unused \in SUBSET (0 .. MaxRows) /\ MaxRows \in Nat
    OBVIOUS
  <2> HIDE DEF unused
  <2>3. \E j \in unused : \A k \in unused : j <= k
    BY <2>1, <2>2, SmallestOf
  <2> QED BY <2>3
<1>2. Rows \in SUBSET Row
  BY HistoryType
<1>3. opened \notin Row /\ \A r \in Row : [r EXCEPT !.to = f] # opened
  BY DEF Row
<1>4. next = kept \cup cut \cup {opened}
  BY DEF SetEdge
<1>5. (next \cap Rows) \cup {q \in next : \E r \in Rows : [r EXCEPT !.to = f] = q} = kept \cup cut
  <2>1. \A q \in cut : q.to = f
    BY <1>2 DEF Row
  <2>2. cut \cap Rows \subseteq kept
    BY <2>1
  <2> QED BY <1>2, <1>3, <1>4, <2>2
<1>6. Commit(kept \cup cut \cup {[id |-> i, mgr |-> m, from |-> f, to |-> Horizon]}, Today)
  BY <1>5 DEF ColleagueMoves, Used, Ids
<1> QED BY <1>1, <1>6 DEF MovedRows

\* The rows a cancellation leaves, one by one.
LEMMA LeftRows ==
    ASSUME TypeOK, NEW s \in Request, request[s].row \in Row
    PROVE  /\ Left(s) \in SUBSET Row
           /\ \A q \in Left(s) : \E p \in Rows :
                  /\ p.id # request[s].id /\ q.id = p.id /\ q.from = p.from
                  /\ q.to = IF p.id = request[s].before THEN request[s].row.to ELSE p.to
           /\ \A p \in Rows : p.id # request[s].id => \E q \in Left(s) :
                  /\ q.id = p.id /\ q.from = p.from
                  /\ q.to = IF p.id = request[s].before THEN request[s].row.to ELSE p.to
<1>1. ASSUME NEW p \in Rows
      PROVE  LET q == IF p.id = request[s].before THEN [p EXCEPT !.to = request[s].row.to] ELSE p
             IN  /\ q \in Row /\ q.id = p.id /\ q.from = p.from
                 /\ q.to = IF p.id = request[s].before THEN request[s].row.to ELSE p.to
  BY HistoryType DEF Row
<1>2. Left(s) = {IF p.id = request[s].before THEN [p EXCEPT !.to = request[s].row.to] ELSE p :
                    p \in {p \in Rows : p.id # request[s].id}}
  BY DEF Left
<1> HIDE DEF Left
<1>3. ASSUME NEW q \in Left(s)
      PROVE  q \in Row /\ \E p \in Rows :
                  /\ p.id # request[s].id /\ q.id = p.id /\ q.from = p.from
                  /\ q.to = IF p.id = request[s].before THEN request[s].row.to ELSE p.to
  <2>1. PICK p \in Rows : p.id # request[s].id
            /\ q = IF p.id = request[s].before THEN [p EXCEPT !.to = request[s].row.to] ELSE p
    BY <1>2
  <2> QED BY <1>1, <2>1
<1>4. ASSUME NEW p \in Rows, p.id # request[s].id
      PROVE  \E q \in Left(s) :
                  /\ q.id = p.id /\ q.from = p.from
                  /\ q.to = IF p.id = request[s].before THEN request[s].row.to ELSE p.to
  <2> DEFINE q == IF p.id = request[s].before THEN [p EXCEPT !.to = request[s].row.to] ELSE p
  <2>1. q \in Left(s)
    BY <1>2, <1>4
  <2> QED BY <1>1, <2>1
<1> QED BY <1>3, <1>4

\* And those a move leaves.
LEMMA MovedRowsType ==
    ASSUME TypeOK, NEW m \in ManagerOrNone, NEW f \in Day, NEW i \in 1 .. MaxRows
    PROVE  /\ MovedRows(m, f, i) \in SUBSET Row
           /\ \A q \in MovedRows(m, f, i) :
                  \/ q \in Rows /\ q.to <= f
                  \/ \E p \in Rows : /\ p.from < f /\ f < p.to
                                     /\ q.id = p.id /\ q.from = p.from /\ q.to = f
                  \/ q.id = i /\ q.from = f /\ q.to = Horizon
<1>1. ASSUME NEW p \in Rows, p.from < f
      PROVE  LET q == [p EXCEPT !.to = f]
             IN  q \in Row /\ q.id = p.id /\ q.from = p.from /\ q.to = f
  <2>1. p \in Row
    BY HistoryType
  <2>2. f \in 1 .. Horizon
    BY <1>1, <2>1 DEF Row
  <2> QED BY <2>1, <2>2 DEF Row
<1> DEFINE opened == [id |-> i, mgr |-> m, from |-> f, to |-> Horizon]
<1>2. opened \in Row /\ opened.id = i /\ opened.from = f /\ opened.to = Horizon
  BY DEF Row
<1>3. ASSUME NEW q \in MovedRows(m, f, i)
      PROVE  /\ q \in Row
             /\ \/ q \in Rows /\ q.to <= f
                \/ \E p \in Rows : /\ p.from < f /\ f < p.to
                                   /\ q.id = p.id /\ q.from = p.from /\ q.to = f
                \/ q.id = i /\ q.from = f /\ q.to = Horizon
  <2>1. CASE q \in Rows /\ q.to <= f
    BY <2>1, HistoryType
  <2>2. CASE \E p \in Rows : p.from < f /\ f < p.to /\ q = [p EXCEPT !.to = f]
    BY <1>1, <2>2
  <2>3. CASE q = opened
    BY <1>2, <2>3
  <2> HIDE DEF opened
  <2> QED BY <2>1, <2>2, <2>3 DEF MovedRows, opened
<1> QED BY <1>3

-----------------------------------------------------------------------------
(* The invariant. *)

\* What a cancellation under way holds.
Reading(s) ==
    LET r == request[s].row IN
    UnderWay(s) =>
        /\ r \in Row /\ r.id = request[s].id /\ r.id \in Used /\ r.from < r.to
        /\ \A q \in Rows : q.id = r.id => q.from = r.from
        /\ (At(s, "locked") /\ request[s].before # 0) =>
               \E p \in Rows : p.id = request[s].before /\ p.to = r.from

\* Unless another cancellation touched its row, that row has at most been
\* shortened, and if it is still there nothing ends where it starts but the row
\* the statement found.
Untouched(s) ==
    LET r == request[s].row IN
    (UnderWay(s) /\ s \notin crossed) =>
        /\ \A q \in Rows : q.id = r.id => q.to <= r.to
        /\ (~At(s, "read") /\ r.id \in Ids(Rows)) =>
               \A q \in Rows : q.to = r.from => q.id = request[s].before

\* A row is locked by one cancellation at a time.
LocksExclude ==
    \A s, t \in Request :
        (At(s, "locked") /\ At(t, "locked") /\ request[s].before = request[t].before)
            => s = t \/ request[s].before = 0

RowsOK == OneRowPerId(Rows) /\ RangesOK(Rows) /\ NoOverlap(Rows)

\* What the page is told is cancelled had a row and has none.
Gone(c) == c \in Used \ Ids(Rows)

CancelledGone ==
    /\ At(Mine, "done") => Gone(request[Mine].id)
    /\ \A c \in cancelled : Gone(c)

IInv ==
    /\ TypeOK /\ RowsOK /\ LocksExclude /\ CancelledGone
    /\ \A s \in Request : Reading(s) /\ Untouched(s)

\* The steps that leave the server and the cancellations alone.
PageStep ==
    \/ \E r \in Listed : AskCancel(r)
    \/ Refocus \/ PlanArrives \/ PastArrives \/ OpenDrawer \/ Close

\* An entry keeps its type.
LEMMA EntryTypes ==
    ASSUME TypeOK, NEW q \in Entries(1 .. Now)
    PROVE  /\ Fetch(q, Now) \in Entries(1 .. Now)
           /\ Mount(q, Now) \in Entries(1 .. Now)
           /\ q.asked # 0 => Arrivals(q, Now) \subseteq Entries(1 .. Now)
           /\ \A shown \in BOOLEAN : Invalidate(q, shown, Now) \in Entries(1 .. Now)
<1>0. Now \in 1 .. Now
  BY HistoryType
<1> USE DEF Entries
<1>1. Fetch(q, Now) \in Entries(1 .. Now)
  BY <1>0 DEF Fetch
<1>2. Mount(q, Now) \in Entries(1 .. Now)
  BY <1>1 DEF Mount
<1>3. ASSUME NEW i \in q.asked .. Now, q.asked # 0
      PROVE  [q EXCEPT !.data = i, !.asked = 0, !.stale = FALSE] \in Entries(1 .. Now)
  <2>1. i \in 1 .. Now
    BY <1>3, HistoryType
  <2> QED BY <2>1
<1>4. ASSUME NEW shown \in BOOLEAN PROVE Invalidate(q, shown, Now) \in Entries(1 .. Now)
  BY <1>0 DEF Invalidate
<1> HIDE DEF Entries
<1>5. ASSUME q.asked # 0 PROVE Arrivals(q, Now) \subseteq Entries(1 .. Now)
  BY <1>3, <1>5 DEF Arrivals
<1> QED BY <1>1, <1>2, <1>4, <1>5

\* The page lists rows.
LEMMA ListedRows == TypeOK => Listed \subseteq Row
<1> SUFFICES ASSUME TypeOK PROVE Listed \subseteq Row
  OBVIOUS
<1>1. plan.data \in 1 .. Now \/ plan.data = 0
  BY DEF TypeOK, Entries
<1>2. plan.data # 0 => history[plan.data] \in Moment
  BY <1>1, HistoryType, ElementOfSeq DEF Now
<1> QED BY <1>2 DEF Listed, Scheduled, Moment

\* A cancellation's answer keeps the type of the requests.
LEMMA AnsweredType ==
    ASSUME TypeOK, NEW s \in Request, NEW step \in Steps
    PROVE  Answered(s, step) \in [Request -> [step : Steps, id : 0 .. MaxRows,
                                             row : Row \cup {Nothing}, before : 0 .. MaxRows]]
<1> DEFINE One == [step : Steps, id : 0 .. MaxRows, row : Row \cup {Nothing}, before : 0 .. MaxRows]
<1>1. request[s] \in One /\ Idle \in One
  BY DEF TypeOK, Idle, Steps
<1>2. [request[s] EXCEPT !.step = step] \in One
  BY <1>1
<1> QED BY <1>1, <1>2 DEF TypeOK, Answered

\* So do the changes of one request.
LEMMA RequestType ==
    ASSUME TypeOK, NEW s \in Request, NEW step \in Steps
    PROVE  LET One == [step : Steps, id : 0 .. MaxRows, row : Row \cup {Nothing}, before : 0 .. MaxRows]
               Requests == [Request -> One]
           IN  /\ [request EXCEPT ![s] = Idle] \in Requests
               /\ [request EXCEPT ![s].step = step] \in Requests
               /\ \A before \in 0 .. MaxRows :
                      [request EXCEPT ![s].step = step, ![s].before = before] \in Requests
               /\ \A r \in Row :
                      /\ [request EXCEPT ![s].step = step, ![s].row = r] \in Requests
                      /\ [request EXCEPT ![s] = [Idle EXCEPT !.step = step, !.id = r.id]] \in Requests
                      /\ [request EXCEPT ![s] = [Idle EXCEPT !.step = step, !.id = r.id, !.row = r]]
                             \in Requests
<1> DEFINE One == [step : Steps, id : 0 .. MaxRows, row : Row \cup {Nothing}, before : 0 .. MaxRows]
<1>1. request \in [Request -> One] /\ Idle \in One
  BY DEF TypeOK, Idle, Steps
<1>2. [request[s] EXCEPT !.step = step] \in One
  BY <1>1
<1>3. ASSUME NEW before \in 0 .. MaxRows
      PROVE  [request[s] EXCEPT !.step = step, !.before = before] \in One
  BY <1>1
<1>4. ASSUME NEW r \in Row
      PROVE  /\ [request[s] EXCEPT !.step = step, !.row = r] \in One
             /\ [Idle EXCEPT !.step = step, !.id = r.id] \in One
             /\ [Idle EXCEPT !.step = step, !.id = r.id, !.row = r] \in One
  <2>1. r.id \in 0 .. MaxRows
    BY DEF Row
  <2> QED BY <1>1, <2>1
<1> HIDE DEF One
<1>5. [request EXCEPT ![s].step = step] \in [Request -> One]
  BY <1>1, <1>2
<1>6. \A before \in 0 .. MaxRows :
          [request EXCEPT ![s].step = step, ![s].before = before] \in [Request -> One]
  BY <1>1, <1>3
<1>7. \A r \in Row :
          /\ [request EXCEPT ![s].step = step, ![s].row = r] \in [Request -> One]
          /\ [request EXCEPT ![s] = [Idle EXCEPT !.step = step, !.id = r.id]] \in [Request -> One]
          /\ [request EXCEPT ![s] = [Idle EXCEPT !.step = step, !.id = r.id, !.row = r]]
                 \in [Request -> One]
  BY <1>1, <1>4
<1> QED BY <1>1, <1>5, <1>6, <1>7 DEF One

\* Every step keeps the types.
LEMMA TypeInductive == IInv /\ [Next]_vars => TypeOK'
<1> SUFFICES ASSUME IInv, [Next]_vars PROVE TypeOK'
  OBVIOUS
<1> USE DEF IInv
<1> DEFINE Requests == [Request -> [step : Steps, id : 0 .. MaxRows,
                                    row : Row \cup {Nothing}, before : 0 .. MaxRows]]
<1>1. request \in Requests /\ crossed \in SUBSET Request
  BY DEF TypeOK
<1>2. ASSUME UNCHANGED history, request' \in Requests, crossed' \in SUBSET Request,
             UNCHANGED pageVars
      PROVE  TypeOK'
  BY <1>2 DEF TypeOK, pageVars, Now
<1>3. ASSUME NEW rows \in SUBSET Row, NEW day \in Day, Commit(rows, day),
             request' \in Requests, crossed' \in SUBSET Request, UNCHANGED pageVars
      PROVE  TypeOK'
  <2>1. /\ history' \in Seq(Moment) /\ Now' \in 1 .. MaxMoments /\ Now' = Now + 1
    BY <1>3, HistoryType, Committed
  <2>2. Entries(1 .. Now) \subseteq Entries(1 .. Now')
    BY <2>1, HistoryType DEF Entries
  <2> QED BY <1>3, <2>1, <2>2 DEF TypeOK, pageVars, Moment
<1>4. ASSUME NEW s \in Request, Cancels(s) \/ ColleagueCancels(s) PROVE TypeOK'
  <2>1. CASE CancelRead(s)
    <3>1. request' \in Requests
      <4>1. PICK r \in Rows : request' = [request EXCEPT ![s].step = "read", ![s].row = r]
        BY <2>1 DEF CancelRead
      <4> QED BY <4>1, HistoryType, RequestType DEF Steps
    <3> QED BY <1>1, <1>2, <2>1, <3>1 DEF CancelRead
  <2>2. CASE CancelRefused(s)
    BY <1>1, <1>2, <2>2, AnsweredType DEF CancelRefused, Steps
  <2>3. CASE CancelFind(s)
    <3>1. \A p \in Rows : p.id \in 0 .. MaxRows
      BY HistoryType DEF Row
    <3> DEFINE found == {p \in Rows : p.to = request[s].row.from}
               before == IF found = {} THEN 0 ELSE (CHOOSE p \in found : TRUE).id
    <3>2. before \in 0 .. MaxRows
      BY <3>1
    <3>3. request' = [request EXCEPT ![s].step = "found", ![s].before = before]
      BY <2>3 DEF CancelFind
    <3> HIDE DEF before
    <3>5. request' \in Requests
      BY <3>2, <3>3, RequestType DEF Steps
    <3> QED BY <1>1, <1>2, <2>3, <3>5 DEF CancelFind
  <2>4. CASE CancelLock(s)
    <3> DEFINE before == IF \E p \in Rows : p.id = request[s].before /\ p.to = request[s].row.from
                         THEN request[s].before ELSE 0
    <3>1. before \in 0 .. MaxRows
      BY <1>1
    <3>2. request' = [request EXCEPT ![s].step = "locked", ![s].before = before]
      BY <2>4 DEF CancelLock
    <3> HIDE DEF before
    <3>3. request' \in Requests
      BY <3>1, <3>2, RequestType DEF Steps
    <3> QED BY <1>1, <1>2, <2>4, <3>3 DEF CancelLock
  <2>5. CASE CancelCommit(s)
    <3>1. Left(s) \in SUBSET Row
      BY <2>5, LeftRows DEF CancelCommit, Reading, UnderWay, At
    <3>2. request' \in Requests /\ crossed' \in SUBSET Request
      BY <1>1, <2>5, AnsweredType DEF CancelCommit, Passed, Steps
    <3> QED BY <1>3, <2>5, <3>1, <3>2, HistoryType DEF CancelCommit
  <2>6. CASE CancelOverlaps(s)
    BY <1>1, <1>2, <2>6, AnsweredType DEF CancelOverlaps, Steps, pageVars
  <2>7. CASE ColleagueCancels(s)
    <3>1. \A r \in Scheduled(Now) : r \in Row /\ r.id \in 0 .. MaxRows
      BY HistoryType DEF Scheduled, Rows, Row
    <3>2. request' \in Requests
      <4>1. PICK r \in Scheduled(Now) :
                request' = [request EXCEPT ![s] = [Idle EXCEPT !.step = "read", !.id = r.id, !.row = r]]
        BY <2>7 DEF ColleagueCancels
      <4> QED BY <3>1, <4>1, RequestType DEF Steps
    <3> QED BY <1>1, <1>2, <2>7, <3>2 DEF ColleagueCancels
  <2> QED BY <1>4, <2>1, <2>2, <2>3, <2>4, <2>5, <2>6, <2>7 DEF Cancels
<1>5. ASSUME NEW move \in MovesTried, ColleagueMoves(move[1], move[2]) PROVE TypeOK'
  <2>1. move[1] \in ManagerOrNone /\ move[2] \in Day
    OBVIOUS
  <2>2. PICK i \in 1 .. MaxRows : Commit(MovedRows(move[1], move[2], i), Today)
    BY <1>5, <2>1, MoveCommits
  <2>3. MovedRows(move[1], move[2], i) \in SUBSET Row /\ Today \in Day
    BY <2>1, MovedRowsType, HistoryType
  <2>4. request' \in Requests /\ crossed' \in SUBSET Request /\ UNCHANGED pageVars
    BY <1>1, <1>5 DEF ColleagueMoves
  <2> QED BY <1>3, <2>2, <2>3, <2>4
<1>6. CASE NextDay
  BY <1>1, <1>3, <1>6, HistoryType DEF NextDay
<1>7. ASSUME UNCHANGED history, request' \in Requests, crossed' \in SUBSET Request,
             {plan', past'} \subseteq Entries(1 .. Now),
             dialog' \in Row \cup {Nothing, Drawer},
             missed' \subseteq cancelled', cancelled' \subseteq 1 .. MaxRows
      PROVE  TypeOK'
  BY <1>7 DEF TypeOK, Now
<1>8. plan \in Entries(1 .. Now) /\ past \in Entries(1 .. Now)
      /\ dialog \in Row \cup {Nothing, Drawer}
      /\ missed \subseteq cancelled /\ cancelled \subseteq 1 .. MaxRows
  BY DEF TypeOK
<1>9. CASE PageStep
  <2>1. UNCHANGED <<history, request, crossed, cancelled, missed>>
    BY <1>9 DEF PageStep, AskCancel, Refocus, PlanArrives, PastArrives, OpenDrawer, Close
  <2>2. {plan', past'} \subseteq Entries(1 .. Now)
    BY <1>8, <1>9, EntryTypes
       DEF PageStep, AskCancel, Refocus, PlanArrives, PastArrives, OpenDrawer, Close
  <2>3. dialog' \in Row \cup {Nothing, Drawer}
    <3>1. Listed \subseteq Row
      BY ListedRows
    <3>2. CASE \E r \in Listed : AskCancel(r)
      BY <3>1, <3>2 DEF AskCancel
    <3> QED BY <1>8, <1>9, <3>2
            DEF PageStep, Refocus, PlanArrives, PastArrives, OpenDrawer, Close
  <2> QED BY <1>1, <1>7, <1>8, <2>1, <2>2, <2>3
<1>10. CASE ConfirmCancel
  BY <1>1, <1>7, <1>8, <1>10, RequestType DEF ConfirmCancel, Steps, Request
<1>11. CASE Succeeds
  <2>1. request[Mine].id \in 1 .. MaxRows
    <3>1. Used \subseteq 1 .. MaxRows
      <4>1. \A i \in 1 .. Now : history[i] \in Moment
        BY HistoryType, ElementOfSeq DEF Now
      <4> QED BY <4>1 DEF Used, Ids, Moment, Row
    <3> QED BY <1>11, <3>1 DEF Succeeds, CancelledGone, Gone
  <2>2. request' \in Requests
    BY <1>11, RequestType DEF Succeeds, Request, Steps
  <2>3. {plan', past'} \subseteq Entries(1 .. Now)
    BY <1>8, <1>11, EntryTypes DEF Succeeds, Invalidated, InDrawer
  <2> QED BY <1>1, <1>7, <1>8, <1>11, <2>1, <2>2, <2>3 DEF Succeeds
<1>12. CASE Fails \/ AnswerLost
  <2>1. request' \in Requests
    <3>1. Mine \in Request /\ "failed" \in Steps
      BY DEF Request, Steps
    <3>2. request' = [request EXCEPT ![Mine] = Idle]
          \/ request' = [request EXCEPT ![Mine].step = "failed"]
      BY <1>12 DEF Fails, AnswerLost
    <3>3. /\ [request EXCEPT ![Mine] = Idle] \in Requests
          /\ [request EXCEPT ![Mine].step = "failed"] \in Requests
      BY <3>1, RequestType
    <3> QED BY <3>2, <3>3
  <2> QED BY <1>1, <1>2, <1>12, <2>1 DEF Fails, AnswerLost, pageVars
<1>13. CASE UNCHANGED vars
  BY <1>13 DEF TypeOK, vars, pageVars, Now
<1> QED BY <1>4, <1>5, <1>6, <1>9, <1>10, <1>11, <1>12, <1>13 DEF Next, PageStep

\* What each step does to the requests: it changes one of them at most.
LEMMA OneRequestChanges ==
    ASSUME TypeOK, NEW s \in Request, NEW t \in Request \ {s}
    PROVE  /\ Cancels(s) \/ ColleagueCancels(s) => request'[t] = request[t]
           /\ (s = Mine /\ (ConfirmCancel \/ Succeeds \/ Fails \/ AnswerLost)) => request'[t] = request[t]
  BY DEF TypeOK, Cancels, ColleagueCancels, CancelRead, CancelRefused, CancelFind, CancelLock,
         CancelCommit, CancelOverlaps, Answered, ConfirmCancel, Succeeds, Fails, AnswerLost

\* Where a request is after a step of its own.
LEMMA StepAfter ==
    ASSUME TypeOK, NEW u \in Request
    PROVE  /\ CancelRead(u) \/ ColleagueCancels(u) => request'[u].step = "read"
           /\ CancelFind(u) => request'[u].step = "found"
           /\ CancelLock(u) => request'[u].step = "locked"
           /\ CancelCommit(u) => request'[u].step \in {"done", "idle"}
           /\ CancelRefused(u) \/ CancelOverlaps(u) => request'[u].step \in {"failed", "idle"}
           /\ u = Mine => /\ ConfirmCancel => request'[u].step = "sent"
                          /\ Succeeds \/ Fails => request'[u].step = "idle"
                          /\ AnswerLost => request'[u].step = "failed"
<1>1. /\ request \in [Request -> [step : Steps, id : 0 .. MaxRows,
                                  row : Row \cup {Nothing}, before : 0 .. MaxRows]]
      /\ Idle.step = "idle"
  BY DEF TypeOK, Idle
<1>2. \A step \in Steps : Answered(u, step)[u].step \in {step, "idle"}
  BY <1>1 DEF Answered
<1>3. CancelCommit(u) => request'[u].step \in {"done", "idle"}
  BY <1>2 DEF CancelCommit, Steps
<1>4. CancelRefused(u) \/ CancelOverlaps(u) => request'[u].step \in {"failed", "idle"}
  BY <1>2 DEF CancelRefused, CancelOverlaps, Steps
<1>5. \A id, r : [Idle EXCEPT !.step = "read", !.id = id, !.row = r].step = "read"
  BY DEF Idle
<1>6. CancelRead(u) \/ ColleagueCancels(u) => request'[u].step = "read"
  <2>1. CancelRead(u) => request'[u].step = "read"
    BY <1>1 DEF CancelRead
  <2>2. ASSUME ColleagueCancels(u) PROVE request'[u].step = "read"
    <3>1. PICK r : request' = [request EXCEPT ![u] = [Idle EXCEPT !.step = "read", !.id = r.id, !.row = r]]
      BY <2>2 DEF ColleagueCancels
    <3>2. request'[u] = [Idle EXCEPT !.step = "read", !.id = r.id, !.row = r]
      BY <1>1, <3>1
    <3> QED BY <1>5, <3>2
  <2> QED BY <2>1, <2>2
<1>7. /\ CancelFind(u) => request'[u].step = "found"
      /\ CancelLock(u) => request'[u].step = "locked"
  BY <1>1 DEF CancelFind, CancelLock
<1>8. [Idle EXCEPT !.step = "sent", !.id = dialog.id].step = "sent"
  BY DEF Idle
<1>9. u = Mine => /\ ConfirmCancel => request'[u].step = "sent"
                  /\ Succeeds \/ Fails => request'[u].step = "idle"
                  /\ AnswerLost => request'[u].step = "failed"
  BY <1>1, <1>8 DEF ConfirmCancel, Succeeds, Fails, AnswerLost
<1> QED BY <1>3, <1>4, <1>6, <1>7, <1>9

\* A request the step leaves alone keeps what it holds if nothing is committed.
LEMMA KeptByOthers ==
    ASSUME NEW s \in Request, Reading(s), Untouched(s), request'[s] = request[s],
           UNCHANGED history, s \in crossed => s \in crossed'
    PROVE  Reading(s)' /\ Untouched(s)'
  BY NothingCommitted DEF Reading, Untouched, UnderWay, At

\* One that is not under way holds nothing.
LEMMA NothingHeld ==
    ASSUME NEW s \in Request, request'[s].step \notin {"read", "found", "locked"}
    PROVE  Reading(s)' /\ Untouched(s)'
  BY DEF Reading, Untouched, UnderWay

\* A move takes nothing from a cancellation: rows that are locked stay as they
\* are, and no row is longer than before.
LEMMA MoveKeeps ==
    ASSUME IInv, NEW m \in ManagerOrNone, NEW f \in Day, ColleagueMoves(m, f), NEW s \in Request
    PROVE  Reading(s)' /\ Untouched(s)'
<1> USE DEF IInv
<1>1. PICK i \in (1 .. MaxRows) \ Used : Commit(MovedRows(m, f, i), Today)
  BY MoveCommits
<1> DEFINE moved == MovedRows(m, f, i)
           r == request[s].row
<1>2. /\ moved \in SUBSET Row
      /\ \A q \in moved :
             \/ q \in Rows /\ q.to <= f
             \/ \E p \in Rows : /\ p.from < f /\ f < p.to
                                /\ q.id = p.id /\ q.from = p.from /\ q.to = f
             \/ q.id = i /\ q.from = f /\ q.to = Horizon
  <2>1. moved \in SUBSET Row
    BY MovedRowsType
  <2>2. ASSUME NEW q \in moved
        PROVE  \/ q \in Rows /\ q.to <= f
               \/ \E p \in Rows : /\ p.from < f /\ f < p.to
                                  /\ q.id = p.id /\ q.from = p.from /\ q.to = f
               \/ q.id = i /\ q.from = f /\ q.to = Horizon
    BY MovedRowsType
  <2> QED BY <2>1, <2>2
<1>3. Rows' = moved /\ Used' = Used \cup Ids(moved)
  BY <1>1, <1>2, HistoryType, Committed
<1>4. request' = request /\ crossed' = crossed
  BY DEF ColleagueMoves
<1>5. \A p \in Rows : p.to <= f => p \in moved
  BY DEF MovedRows
<1> HIDE DEF moved
<1>6. CASE ~UnderWay(s)
  BY <1>4, <1>6, NothingHeld DEF UnderWay
<1>7. CASE UnderWay(s)
  <2>1. r \in Row /\ r.id = request[s].id /\ r.id \in Used /\ r.from < r.to /\ r.id # i
    BY <1>7 DEF Reading
  <2>2. \A q \in moved : q.id = r.id =>
            \E p \in Rows : p.id = q.id /\ p.from = q.from /\ q.to <= p.to /\ q.from < f
    <3> SUFFICES ASSUME NEW q \in moved, q.id = r.id
                 PROVE  \E p \in Rows : p.id = q.id /\ p.from = q.from /\ q.to <= p.to /\ q.from < f
      OBVIOUS
    <3>1. q \in Row
      BY <1>2
    <3>2. CASE q \in Rows /\ q.to <= f
      BY <3>1, <3>2 DEF RowsOK, RangesOK, Row
    <3>3. CASE \E p \in Rows : p.from < f /\ f < p.to /\ q.id = p.id /\ q.from = p.from /\ q.to = f
      BY <3>1, <3>3, HistoryType DEF Row
    <3> QED BY <1>2, <2>1, <3>2, <3>3
  <2>3. Reading(s)'
    <3>1. \A q \in moved : q.id = r.id => q.from = r.from
      BY <1>7, <2>2 DEF Reading
    <3>2. ASSUME At(s, "locked"), request[s].before # 0
          PROVE  \E p \in moved : p.id = request[s].before /\ p.to = r.from
      <4>1. PICK p \in Rows : p.id = request[s].before /\ p.to = r.from
        BY <1>7, <3>2 DEF Reading
      <4>2. s \in Locked(p.id)
        BY <3>2, <4>1 DEF Locked
      <4>3. ~(p.from >= f \/ InForce(p, f))
        BY <4>2 DEF ColleagueMoves
      <4>4. p.to <= f
        BY <4>3, HistoryType DEF InForce, Row
      <4> QED BY <1>5, <4>1, <4>4
    <3> QED BY <1>3, <1>4, <2>1, <3>1, <3>2 DEF Reading, UnderWay, At
  <2>4. Untouched(s)'
    <3> SUFFICES ASSUME s \notin crossed
                 PROVE  /\ \A q \in moved : q.id = r.id => q.to <= r.to
                        /\ (~At(s, "read") /\ r.id \in Ids(moved)) =>
                               \A q \in moved : q.to = r.from => q.id = request[s].before
      BY <1>3, <1>4 DEF Untouched, UnderWay, At
    <3>1. \A p \in Rows : p.id = r.id => p.to <= r.to
      BY <1>7 DEF Untouched
    <3>2. \A q \in moved : q.id = r.id => q.to <= r.to
      <4> SUFFICES ASSUME NEW q \in moved, q.id = r.id PROVE q.to <= r.to
        OBVIOUS
      <4>1. PICK p \in Rows : p.id = r.id /\ q.to <= p.to
        BY <2>2
      <4>2. p.to <= r.to
        BY <3>1, <4>1
      <4>3. q \in Row /\ p \in Row
        BY <1>2, HistoryType
      <4> QED BY <2>1, <4>1, <4>2, <4>3 DEF Row
    <3>3. ASSUME ~At(s, "read"), r.id \in Ids(moved), NEW q \in moved, q.to = r.from
          PROVE  q.id = request[s].before
      <4>1. PICK o \in moved : o.id = r.id
        BY <3>3 DEF Ids
      <4>2. r.from < f /\ r.id \in Ids(Rows)
        BY <1>7, <2>2, <4>1 DEF Reading, Ids
      <4>3. q \in Rows
        BY <1>2, <2>1, <3>3, <4>2 DEF Row
      <4> QED BY <1>7, <3>3, <4>2, <4>3 DEF Untouched
    <3> QED BY <3>2, <3>3
  <2> QED BY <2>3, <2>4
<1> QED BY <1>6, <1>7

\* Nor does another cancellation, if it does not touch the row.
LEMMA CommitKeeps ==
    ASSUME IInv, NEW t \in Request, CancelCommit(t), NEW s \in Request \ {t}
    PROVE  Reading(s)' /\ Untouched(s)'
<1> USE DEF IInv
<1> DEFINE r == request[s].row
           u == request[t].row
<1>1. /\ UnderWay(t) /\ u \in Row /\ u.id = request[t].id /\ u.from < u.to
      /\ request[t].before # 0 =>
             \A p \in Rows : p.id = request[t].before => p.to = u.from
  BY DEF CancelCommit, At, UnderWay, Reading, RowsOK, OneRowPerId
<1>2. /\ Left(t) \in SUBSET Row
      /\ \A q \in Left(t) : \E p \in Rows :
             /\ p.id # request[t].id /\ q.id = p.id /\ q.from = p.from
             /\ q.to = IF p.id = request[t].before THEN u.to ELSE p.to
      /\ \A p \in Rows : p.id # request[t].id => \E q \in Left(t) :
             /\ q.id = p.id /\ q.from = p.from
             /\ q.to = IF p.id = request[t].before THEN u.to ELSE p.to
  BY <1>1, LeftRows
<1>3. Rows' = Left(t) /\ Used \subseteq Used'
  BY <1>2, HistoryType, Committed DEF CancelCommit
<1>4. request'[s] = request[s]
  BY OneRequestChanges DEF Cancels
<1>5. CASE ~UnderWay(s)
  BY <1>4, <1>5, NothingHeld DEF UnderWay
<1>6. CASE UnderWay(s)
  <2>1. r \in Row /\ r.id = request[s].id /\ r.id \in Used /\ r.from < r.to
    BY <1>6 DEF Reading
  <2>2. \A p \in Rows : p \in Row /\ p.from < p.to /\ p.id # 0
    BY HistoryType DEF RowsOK, RangesOK, Row
  <2>3. Reading(s)'
    <3>1. \A q \in Left(t) : q.id = r.id => q.from = r.from
      BY <1>2, <1>6 DEF Reading
    <3>2. ASSUME At(s, "locked"), request[s].before # 0
          PROVE  \E p \in Left(t) : p.id = request[s].before /\ p.to = r.from
      <4>1. PICK p \in Rows : p.id = request[s].before /\ p.to = r.from
        BY <1>6, <3>2 DEF Reading
      <4>2. p.id # request[t].id
        BY <3>2, <4>1 DEF CancelCommit, Locked
      <4>3. p.id # request[t].before
        BY <3>2, <4>1 DEF CancelCommit, LocksExclude
      <4> QED BY <1>2, <4>1, <4>2, <4>3
    <3> QED BY <1>3, <1>4, <2>1, <3>1, <3>2 DEF Reading, UnderWay, At
  <2>4. Untouched(s)'
    <3>1. s \notin crossed' => s \notin crossed /\ ~Touches(u, r)
      BY <1>6 DEF CancelCommit, Passed
    <3> SUFFICES ASSUME s \notin crossed, ~Touches(u, r)
                 PROVE  /\ \A q \in Left(t) : q.id = r.id => q.to <= r.to
                        /\ (~At(s, "read") /\ r.id \in Ids(Left(t))) =>
                               \A q \in Left(t) : q.to = r.from => q.id = request[s].before
      BY <1>3, <1>4, <3>1 DEF Untouched, UnderWay, At
    <3>2. ASSUME NEW q \in Left(t), q.id = r.id PROVE q.to <= r.to
      <4>1. PICK p \in Rows : /\ q.id = p.id
                              /\ q.to = IF p.id = request[t].before THEN u.to ELSE p.to
        BY <1>2
      <4>2. p.from = r.from /\ p.to <= r.to
        BY <1>6, <3>2, <4>1 DEF Reading, Untouched
      <4>3. p.id # request[t].before
        BY <1>1, <2>1, <2>2, <4>2 DEF Touches, Row
      <4> QED BY <4>1, <4>2, <4>3
    <3>3. ASSUME ~At(s, "read"), r.id \in Ids(Left(t)), NEW q \in Left(t), q.to = r.from
          PROVE  q.id = request[s].before
      <4>1. r.id \in Ids(Rows)
        BY <1>2, <3>3 DEF Ids
      <4>2. PICK p \in Rows : /\ q.id = p.id
                              /\ q.to = IF p.id = request[t].before THEN u.to ELSE p.to
        BY <1>2
      <4>3. q.to = p.to
        BY <3>3, <4>2 DEF Touches
      <4> QED BY <1>6, <3>3, <4>1, <4>2, <4>3 DEF Untouched
    <3> QED BY <3>2, <3>3
  <2> QED BY <2>3, <2>4
<1> QED BY <1>5, <1>6

\* A cancellation that has just read its row holds it as it is.
LEMMA JustRead ==
    ASSUME IInv, NEW s \in Request, NEW r \in Rows,
           request'[s].step = "read", request'[s].row = r, request'[s].id = r.id,
           Rows' = Rows, Used' = Used
    PROVE  Reading(s)' /\ Untouched(s)'
<1> USE DEF IInv
<1>1. r \in Row /\ r.id \in Used /\ r.from < r.to
  BY HistoryType DEF RowsOK, RangesOK, Ids
<1>2. \A q \in Rows : q.id = r.id => q = r
  BY DEF RowsOK, OneRowPerId
<1>3. r.to <= r.to
  BY <1>1 DEF Row
<1>4. Reading(s)'
  BY <1>1, <1>2 DEF Reading, UnderWay, At
<1>5. Untouched(s)'
  BY <1>2, <1>3 DEF Untouched, UnderWay, At
<1> QED BY <1>4, <1>5

\* The steps of a cancellation itself.
LEMMA OwnStepKeeps ==
    ASSUME IInv, NEW s \in Request, Cancels(s) \/ ColleagueCancels(s)
    PROVE  Reading(s)' /\ Untouched(s)'
<1> USE DEF IInv
<1>0. request[s] \in [step : Steps, id : 0 .. MaxRows, row : Row \cup {Nothing}, before : 0 .. MaxRows]
  BY DEF TypeOK
<1>1. CASE CancelRead(s)
  <2>1. PICK r \in Rows : r.id = request[s].id
            /\ request' = [request EXCEPT ![s].step = "read", ![s].row = r]
    BY <1>1 DEF CancelRead
  <2>2. request'[s].step = "read" /\ request'[s].row = r /\ request'[s].id = r.id
    BY <1>0, <2>1 DEF TypeOK
  <2>3. Rows' = Rows /\ Used' = Used
    BY <1>1, NothingCommitted DEF CancelRead
  <2> QED BY <2>1, <2>2, <2>3, JustRead
<1>2. CASE ColleagueCancels(s)
  <2>1. PICK r \in Rows :
            request' = [request EXCEPT ![s] = [Idle EXCEPT !.step = "read", !.id = r.id, !.row = r]]
    BY <1>2 DEF ColleagueCancels, Scheduled, Rows
  <2>2. request'[s].step = "read" /\ request'[s].row = r /\ request'[s].id = r.id
    BY <1>0, <2>1 DEF TypeOK, Idle
  <2>3. Rows' = Rows /\ Used' = Used
    BY <1>2, NothingCommitted DEF ColleagueCancels
  <2> QED BY <2>1, <2>2, <2>3, JustRead
<1>3. CASE CancelFind(s)
  <2> DEFINE r == request[s].row
             found == {p \in Rows : p.to = r.from}
             before == IF found = {} THEN 0 ELSE (CHOOSE p \in found : TRUE).id
  <2>1. request'[s].step = "found" /\ request'[s].row = r /\ request'[s].id = request[s].id
        /\ request'[s].before = before
    BY <1>0, <1>3 DEF TypeOK, CancelFind
  <2>2. \A p, q \in found : p = q
    BY HistoryType DEF RowsOK, NoOverlap, RangesOK, Row
  <2>3. \A q \in Rows : q.to = r.from => q.id = before
    BY <2>2
  <2> HIDE DEF before
  <2> QED BY <1>3, <2>1, <2>3, NothingCommitted DEF CancelFind, Reading, Untouched, UnderWay, At
<1>4. CASE CancelLock(s)
  <2> DEFINE r == request[s].row
             there == \E p \in Rows : p.id = request[s].before /\ p.to = r.from
  <2>1. request'[s].step = "locked" /\ request'[s].row = r /\ request'[s].id = request[s].id
        /\ request'[s].before = IF there THEN request[s].before ELSE 0
    BY <1>0, <1>4 DEF TypeOK, CancelLock
  <2>2. Reading(s)'
    <3>1. Rows' = Rows /\ Used' = Used
      BY <1>4, NothingCommitted DEF CancelLock
    <3>2. /\ r \in Row /\ r.id = request[s].id /\ r.id \in Used /\ r.from < r.to
          /\ \A q \in Rows : q.id = r.id => q.from = r.from
      BY <1>4 DEF CancelLock, Reading, UnderWay, At
    <3>3. request'[s].before # 0 =>
              \E p \in Rows : p.id = request'[s].before /\ p.to = r.from
      BY <2>1
    <3> HIDE DEF there
    <3> QED BY <2>1, <3>1, <3>2, <3>3 DEF Reading, UnderWay, At
  <2>3. s \notin crossed /\ r.id \in Ids(Rows) =>
            \A q \in Rows : q.to = r.from => q.id = request[s].before /\ there
    BY <1>4 DEF CancelLock, Untouched, UnderWay, At
  <2>4. Untouched(s)'
    BY <1>4, <2>1, <2>3, NothingCommitted DEF CancelLock, Untouched, UnderWay, At
  <2> QED BY <2>2, <2>4
<1>5. CASE CancelRefused(s) \/ CancelCommit(s) \/ CancelOverlaps(s)
  <2>1. request'[s].step \notin {"read", "found", "locked"}
    BY <1>0, <1>5 DEF TypeOK, CancelRefused, CancelCommit, CancelOverlaps, Answered, Idle
  <2> QED BY <2>1, NothingHeld
<1> QED BY <1>1, <1>2, <1>3, <1>4, <1>5 DEF Cancels

\* Every step keeps what every cancellation under way holds.
LEMMA RequestsInductive ==
    ASSUME IInv, [Next]_vars, NEW s \in Request
    PROVE  Reading(s)' /\ Untouched(s)'
<1> USE DEF IInv
<1>1. ASSUME NEW t \in Request, Cancels(t) \/ ColleagueCancels(t) PROVE Reading(s)' /\ Untouched(s)'
  <2>1. CASE s = t
    BY <1>1, <2>1, OwnStepKeeps
  <2>2. CASE s # t /\ CancelCommit(t)
    BY <2>2, CommitKeeps
  <2>3. CASE s # t /\ ~CancelCommit(t)
    <3>1. request'[s] = request[s]
      BY <1>1, <2>3, OneRequestChanges
    <3>2. UNCHANGED history
      BY <1>1, <2>3 DEF Cancels, ColleagueCancels, CancelRead, CancelRefused, CancelFind, CancelLock,
                        CancelOverlaps
    <3>3. s \in crossed => s \in crossed'
      BY <1>1, <2>3 DEF Cancels, ColleagueCancels, CancelRead, CancelRefused, CancelFind, CancelLock,
                        CancelOverlaps
    <3> QED BY <3>1, <3>2, <3>3, KeptByOthers
  <2> QED BY <2>1, <2>2, <2>3
<1>2. ASSUME NEW move \in MovesTried, ColleagueMoves(move[1], move[2])
      PROVE  Reading(s)' /\ Untouched(s)'
  BY <1>2, MoveKeeps
<1>3. CASE NextDay
  <2>0. Today + 1 \in Day
    BY <1>3, HistoryType DEF NextDay
  <2>1. Rows' = Rows /\ Used \subseteq Used'
    BY <1>3, <2>0, HistoryType, Committed DEF NextDay
  <2> QED BY <1>3, <2>1 DEF NextDay, Reading, Untouched, UnderWay, At
<1>4. CASE ConfirmCancel \/ Succeeds \/ Fails \/ AnswerLost
  <2>1. UNCHANGED <<history, crossed>>
    BY <1>4 DEF ConfirmCancel, Succeeds, Fails, AnswerLost
  <2>2. CASE s = Mine
    <3>1. request'[Mine].step \notin {"read", "found", "locked"}
      <4>1. Mine \in Request /\ Idle.step = "idle" /\ [Idle EXCEPT !.step = "sent", !.id = dialog.id].step = "sent"
        BY DEF Idle, Request
      <4>2. \/ request' = [request EXCEPT ![Mine] = Idle]
            \/ request' = [request EXCEPT ![Mine] = [Idle EXCEPT !.step = "sent", !.id = dialog.id]]
            \/ request' = [request EXCEPT ![Mine].step = "failed"]
        BY <1>4 DEF ConfirmCancel, Succeeds, Fails, AnswerLost
      <4>3. request'[Mine].step \in {"idle", "sent", "failed"}
        BY <4>1, <4>2 DEF TypeOK
      <4> QED BY <4>3
    <3> QED BY <2>2, <3>1, NothingHeld
  <2>3. CASE s # Mine
    BY <1>4, <2>1, <2>3, OneRequestChanges, KeptByOthers DEF Request
  <2> QED BY <2>2, <2>3
<1>5. CASE PageStep \/ UNCHANGED vars
  <2>1. UNCHANGED <<history, request, crossed>>
    BY <1>5 DEF PageStep, AskCancel, Refocus, PlanArrives, PastArrives, OpenDrawer, Close, vars
  <2> QED BY <2>1, KeptByOthers
<1> QED BY <1>1, <1>2, <1>3, <1>4, <1>5 DEF Next, PageStep

\* Every step keeps one row per id, none empty and none overlapping.
LEMMA RowsInductive == IInv /\ [Next]_vars => RowsOK'
<1> SUFFICES ASSUME IInv, [Next]_vars PROVE RowsOK'
  OBVIOUS
<1> USE DEF IInv
<1>1. CASE UNCHANGED history
  BY <1>1, NothingCommitted DEF RowsOK, OneRowPerId
<1>2. ASSUME NEW s \in Request, CancelCommit(s) PROVE RowsOK'
  <2> DEFINE u == request[s].row
  <2>1. /\ u \in Row /\ u.from < u.to
        /\ request[s].before # 0 =>
               \A p \in Rows : p.id = request[s].before => p.to = u.from
    BY <1>2 DEF CancelCommit, At, UnderWay, Reading, RowsOK, OneRowPerId
  <2>2. Rows' = Left(s)
    BY <1>2, <2>1, LeftRows, HistoryType, Committed DEF CancelCommit
  <2>3. RangesOK(Left(s))
    <3> SUFFICES ASSUME NEW q \in Left(s) PROVE q.from < q.to
      BY DEF RangesOK
    <3>1. PICK p \in Rows : /\ q.from = p.from
                            /\ q.to = IF p.id = request[s].before THEN u.to ELSE p.to
      BY <2>1, LeftRows
    <3>2. p \in Row /\ p.from < p.to /\ p.id # 0
      BY HistoryType DEF RowsOK, RangesOK, Row
    <3> QED BY <2>1, <3>1, <3>2 DEF Row
  <2>4. OneRowPerId(Left(s))
    <3> SUFFICES ASSUME NEW v \in Left(s), NEW w \in Left(s), v.id = w.id PROVE v = w
      BY DEF OneRowPerId
    <3> DEFINE After(p) == IF p.id = request[s].before THEN [p EXCEPT !.to = u.to] ELSE p
    <3>1. PICK p \in Rows, q \in Rows : v = After(p) /\ w = After(q)
      BY DEF Left
    <3>2. After(p).id = p.id /\ After(q).id = q.id
      BY HistoryType DEF Row
    <3>3. p = q
      BY <3>1, <3>2 DEF RowsOK, OneRowPerId
    <3> QED BY <3>1, <3>3
  <2>5. NoOverlap(Left(s))
    BY <1>2 DEF CancelCommit
  <2> QED BY <2>2, <2>3, <2>4, <2>5 DEF RowsOK, OneRowPerId, RangesOK, NoOverlap
<1>3. ASSUME NEW m \in ManagerOrNone, NEW f \in Day, ColleagueMoves(m, f) PROVE RowsOK'
  <2>1. PICK i \in (1 .. MaxRows) \ Used : Commit(MovedRows(m, f, i), Today)
    BY <1>3, MoveCommits
  <2> DEFINE moved == MovedRows(m, f, i)
             cut == {[r EXCEPT !.to = f] : r \in {q \in Rows : q.from < f /\ f < q.to}}
             opened == [id |-> i, mgr |-> m, from |-> f, to |-> Horizon]
  <2>2. i \in 1 .. MaxRows /\ moved \in SUBSET Row
    BY MovedRowsType
  <2>3. Rows' = moved
    BY <2>1, <2>2, HistoryType, Committed
  <2>4. \A q \in moved : \/ q \in Rows /\ q.to <= f /\ q.id # i
                         \/ \E p \in Rows : /\ p.from < f /\ f < p.to
                                            /\ q = [p EXCEPT !.to = f]
                                            /\ q.id = p.id /\ q.from = p.from /\ q.to = f /\ q.id # i
                         \/ q = opened /\ q.id = i /\ q.from = f /\ q.to = Horizon
    <3>1. \A p \in Rows : p \in Row /\ p.id # i
      BY HistoryType DEF Ids
    <3>2. \A p \in Rows : LET q == [p EXCEPT !.to = f]
                          IN  q.id = p.id /\ q.from = p.from /\ q.to = f
      BY <3>1 DEF Row
    <3>3. opened.id = i /\ opened.from = f /\ opened.to = Horizon
      OBVIOUS
    <3>4. moved = {r \in Rows : r.to <= f} \cup cut \cup {opened}
      BY DEF MovedRows
    <3>5. \A q \in cut : \E p \in Rows : p.from < f /\ f < p.to /\ q = [p EXCEPT !.to = f]
      OBVIOUS
    <3> HIDE DEF opened, moved, cut
    <3> SUFFICES ASSUME NEW q \in moved
                 PROVE  \/ q \in Rows /\ q.to <= f /\ q.id # i
                        \/ \E p \in Rows : /\ p.from < f /\ f < p.to
                                           /\ q = [p EXCEPT !.to = f]
                                           /\ q.id = p.id /\ q.from = p.from /\ q.to = f /\ q.id # i
                        \/ q = opened /\ q.id = i /\ q.from = f /\ q.to = Horizon
      OBVIOUS
    <3>6. CASE q \in {r \in Rows : r.to <= f}
      BY <3>1, <3>6
    <3>7. CASE q \in cut
      <4>1. PICK p \in Rows : p.from < f /\ f < p.to /\ q = [p EXCEPT !.to = f]
        BY <3>5, <3>7
      <4>2. q.id = p.id /\ q.from = p.from /\ q.to = f /\ q.id # i
        BY <3>1, <3>2, <4>1
      <4> QED BY <4>1, <4>2
    <3>8. CASE q = opened
      BY <3>3, <3>8
    <3> QED BY <3>4, <3>6, <3>7, <3>8
  <2> HIDE DEF moved, opened
  <2>5. \A p \in Rows : p \in Row /\ p.from < p.to
    BY HistoryType DEF RowsOK, RangesOK
  <2>6. RangesOK(moved)
    BY <2>4, <2>5 DEF RangesOK, Row
  <2>7. OneRowPerId(moved)
    <3> SUFFICES ASSUME NEW v \in moved, NEW w \in moved, v.id = w.id PROVE v = w
      BY DEF OneRowPerId
    <3>1. CASE v.id = i
      BY <2>4, <3>1
    <3>2. ASSUME NEW q \in moved, q.id # i
          PROVE  \E p \in Rows : /\ p.id = q.id
                                /\ q = IF p.to <= f THEN p ELSE [p EXCEPT !.to = f]
      <4>1. CASE q \in Rows /\ q.to <= f
        BY <4>1
      <4>2. CASE \E p \in Rows : p.from < f /\ f < p.to /\ q = [p EXCEPT !.to = f] /\ q.id = p.id
        <5>1. PICK p \in Rows : f < p.to /\ q = [p EXCEPT !.to = f] /\ q.id = p.id
          BY <4>2
        <5>2. ~(p.to <= f)
          BY <2>5, <5>1 DEF Row
        <5> QED BY <5>1, <5>2
      <4> QED BY <2>4, <3>2, <4>1, <4>2
    <3>3. CASE v.id # i
      <4>1. PICK p \in Rows : p.id = v.id /\ v = IF p.to <= f THEN p ELSE [p EXCEPT !.to = f]
        BY <3>2, <3>3
      <4>2. PICK o \in Rows : o.id = w.id /\ w = IF o.to <= f THEN o ELSE [o EXCEPT !.to = f]
        BY <3>2, <3>3
      <4>3. p = o
        BY <4>1, <4>2 DEF RowsOK, OneRowPerId
      <4> QED BY <4>1, <4>2, <4>3
    <3> QED BY <3>1, <3>3
  <2>8. NoOverlap(moved)
    BY <2>2, <2>4, <2>5 DEF RowsOK, NoOverlap, Row
  <2> QED BY <2>3, <2>6, <2>7, <2>8 DEF RowsOK, OneRowPerId, RangesOK, NoOverlap
<1>4. CASE NextDay
  <2>1. Today + 1 \in Day
    BY <1>4, HistoryType DEF NextDay
  <2>2. Rows' = Rows
    BY <1>4, <2>1, HistoryType, Committed DEF NextDay
  <2> QED BY <2>2 DEF RowsOK, OneRowPerId
<1>5. \/ UNCHANGED history
      \/ \E s \in Request : CancelCommit(s)
      \/ \E move \in MovesTried : ColleagueMoves(move[1], move[2])
      \/ NextDay
  BY DEF Next, Cancels, ColleagueCancels, CancelRead, CancelRefused, CancelFind, CancelLock,
         CancelOverlaps, AskCancel, Refocus, PlanArrives, PastArrives, OpenDrawer, Close,
         ConfirmCancel, Succeeds, Fails, AnswerLost, vars
<1> QED BY <1>1, <1>2, <1>3, <1>4, <1>5

\* The steps that commit, and those that do not.
LEMMA WhatCommits ==
    ASSUME [Next]_vars
    PROVE  \/ UNCHANGED history
           \/ \E s \in Request : CancelCommit(s)
           \/ \E move \in MovesTried : ColleagueMoves(move[1], move[2])
           \/ NextDay
  BY DEF Next, Cancels, ColleagueCancels, CancelRead, CancelRefused, CancelFind, CancelLock,
         CancelOverlaps, AskCancel, Refocus, PlanArrives, PastArrives, OpenDrawer, Close,
         ConfirmCancel, Succeeds, Fails, AnswerLost, vars

\* The history only grows, and an id whose row has gone never has one again.
LEMMA HistoryGrows ==
    ASSUME IInv, [Next]_vars
    PROVE  /\ Now' = Now \/ Now' = Now + 1
           /\ \A i \in 1 .. Now : history'[i] = history[i]
           /\ Used \subseteq Used'
           /\ \A c \in Used : c \notin Ids(Rows) => c \notin Ids(Rows')
<1> USE DEF IInv
<1>1. CASE UNCHANGED history
  BY <1>1, NothingCommitted DEF Ids
<1>2. ASSUME NEW rows \in SUBSET Row, NEW day \in Day, Commit(rows, day),
             \A c \in Used : c \notin Ids(Rows) => c \notin Ids(rows)
      PROVE  /\ Now' = Now \/ Now' = Now + 1
             /\ \A i \in 1 .. Now : history'[i] = history[i]
             /\ Used \subseteq Used'
             /\ \A c \in Used : c \notin Ids(Rows) => c \notin Ids(Rows')
  BY <1>2, HistoryType, Committed
<1>3. ASSUME NEW s \in Request, CancelCommit(s)
      PROVE  /\ Left(s) \in SUBSET Row /\ Today \in Day /\ Commit(Left(s), Today)
             /\ \A c \in Used : c \notin Ids(Rows) => c \notin Ids(Left(s))
  <2>1. request[s].row \in Row
    BY <1>3 DEF CancelCommit, Reading, UnderWay, At
  <2>2. Ids(Left(s)) \subseteq Ids(Rows)
    BY <2>1, LeftRows DEF Ids
  <2> QED BY <1>3, <2>1, <2>2, LeftRows, HistoryType DEF CancelCommit
<1>4. ASSUME NEW m \in ManagerOrNone, NEW f \in Day, ColleagueMoves(m, f)
      PROVE  \E rows \in SUBSET Row : /\ Commit(rows, Today)
                                      /\ \A c \in Used : c \notin Ids(Rows) => c \notin Ids(rows)
  <2>1. PICK i \in (1 .. MaxRows) \ Used : Commit(MovedRows(m, f, i), Today)
    BY <1>4, MoveCommits
  <2> DEFINE moved == MovedRows(m, f, i)
  <2>2. /\ moved \in SUBSET Row
        /\ \A q \in moved : q.id = i \/ \E p \in Rows : q.id = p.id
    BY MovedRowsType
  <2> HIDE DEF moved
  <2>3. \A c \in Used : c \notin Ids(Rows) => c \notin Ids(moved)
    BY <2>2 DEF Ids
  <2> QED BY <2>1, <2>2, <2>3 DEF moved
<1>5. CASE NextDay
  <2>1. Today + 1 \in Day
    BY <1>5, HistoryType DEF NextDay
  <2>2. Commit(Rows, Today + 1)
    BY <1>5 DEF NextDay
  <2> QED BY <1>2, <2>1, <2>2, HistoryType
<1> QED BY <1>1, <1>2, <1>3, <1>4, <1>5, WhatCommits, HistoryType

\* Every step keeps a row locked by one cancellation at a time.
LEMMA LocksInductive == IInv /\ [Next]_vars => LocksExclude'
<1> SUFFICES ASSUME IInv, [Next]_vars PROVE LocksExclude'
  OBVIOUS
<1> USE DEF IInv
<1>1. ASSUME NEW s \in Request, CancelLock(s) PROVE LocksExclude'
  <2>1. \A u \in Request \ {s} : request'[u] = request[u]
    BY <1>1, OneRequestChanges DEF Cancels
  <2>2. request'[s].before \in {0, request[s].before}
    BY <1>1 DEF CancelLock, TypeOK
  <2>3. request[s].before = 0 \/ Locked(request[s].before) = {}
    BY <1>1 DEF CancelLock
  <2>4. \A u \in Request \ {s} :
            (At(u, "locked") /\ request'[s].before = request[u].before) => request'[s].before = 0
    BY <2>2, <2>3 DEF Locked
  <2> QED BY <2>1, <2>4 DEF LocksExclude, At
<1>2. ASSUME ~ \E s \in Request : CancelLock(s) PROVE LocksExclude'
  <2>0. "locked" \notin {"read", "found", "done", "failed", "idle", "sent"}
    OBVIOUS
  <2>1. \A u \in Request : request'[u].step = "locked" => request'[u] = request[u]
    <3> SUFFICES ASSUME NEW u \in Request, request'[u].step = "locked" PROVE request'[u] = request[u]
      OBVIOUS
    <3>1. CASE \E t \in Request \ {u} : Cancels(t) \/ ColleagueCancels(t)
      BY <3>1, OneRequestChanges
    <3>2. CASE Cancels(u) \/ ColleagueCancels(u)
      BY <1>2, <2>0, <3>2, StepAfter DEF Cancels
    <3>3. CASE ConfirmCancel \/ Succeeds \/ Fails \/ AnswerLost
      <4>1. CASE u = Mine
        BY <2>0, <3>3, <4>1, StepAfter
      <4>2. CASE u # Mine
        BY <3>3, <4>2, OneRequestChanges DEF Request
      <4> QED BY <4>1, <4>2
    <3>4. CASE UNCHANGED request
      BY <3>4
    <3> QED BY <3>1, <3>2, <3>3, <3>4 DEF Next, ColleagueMoves, NextDay, AskCancel, Refocus,
               PlanArrives, PastArrives, OpenDrawer, Close, vars
  <2> QED BY <2>1 DEF LocksExclude, At
<1> QED BY <1>1, <1>2

\* Every step keeps what the page was told is cancelled gone.
LEMMA GoneInductive == IInv /\ [Next]_vars => CancelledGone'
<1> SUFFICES ASSUME IInv, [Next]_vars PROVE CancelledGone'
  OBVIOUS
<1> USE DEF IInv
<1>1. \A c : Gone(c) => Gone(c)'
  BY HistoryGrows DEF Gone, Ids
<1>2. ASSUME CancelCommit(Mine) PROVE CancelledGone'
  <2>1. Mine \in Request /\ request[Mine].row \in Row /\ request[Mine].id \in Used
    BY <1>2 DEF CancelCommit, Reading, UnderWay, At, Request
  <2>2. Rows' = Left(Mine)
    BY <1>2, <2>1, LeftRows, HistoryType, Committed DEF CancelCommit
  <2>3. request[Mine].id \notin Ids(Left(Mine))
    BY <2>1, LeftRows DEF Ids
  <2>4. request'[Mine].id = request[Mine].id /\ cancelled' = cancelled
    BY <1>2, <2>1 DEF CancelCommit, Answered, TypeOK, pageVars
  <2> QED BY <1>1, <2>1, <2>2, <2>3, <2>4, HistoryGrows DEF CancelledGone, Gone, Ids
<1>3. CASE Succeeds
  <2>1. request'[Mine].step = "idle" /\ cancelled' = cancelled \cup {request[Mine].id}
    BY <1>3 DEF Succeeds, TypeOK, Request, Idle
  <2> QED BY <1>1, <1>3, <2>1 DEF Succeeds, CancelledGone, At
<1>4. ASSUME ~CancelCommit(Mine), ~Succeeds PROVE CancelledGone'
  <2>1. cancelled' = cancelled
    BY <1>4 DEF Next, Cancels, ColleagueCancels, CancelRead, CancelRefused, CancelFind, CancelLock,
         CancelCommit, CancelOverlaps, ColleagueMoves, NextDay, AskCancel, Refocus, PlanArrives,
         PastArrives, OpenDrawer, Close, ConfirmCancel, Fails, AnswerLost, vars, pageVars
  <2>0. "done" \notin {"read", "found", "locked", "failed", "idle", "sent"}
    OBVIOUS
  <2>2. request'[Mine].step = "done" => request'[Mine] = request[Mine]
    <3>1. CASE \E t \in Request \ {Mine} : Cancels(t) \/ ColleagueCancels(t)
      BY <3>1, OneRequestChanges DEF Request
    <3>2. CASE Cancels(Mine) \/ ColleagueCancels(Mine)
      BY <1>4, <2>0, <3>2, StepAfter DEF Cancels, Request
    <3>3. CASE ConfirmCancel \/ Fails \/ AnswerLost
      BY <2>0, <3>3, StepAfter DEF Request
    <3>4. CASE UNCHANGED request
      BY <3>4
    <3> QED BY <1>4, <3>1, <3>2, <3>3, <3>4 DEF Next, ColleagueMoves, NextDay, AskCancel, Refocus,
               PlanArrives, PastArrives, OpenDrawer, Close, vars
  <2> QED BY <1>1, <2>1, <2>2 DEF CancelledGone, At
<1> QED BY <1>2, <1>3, <1>4

\* Nothing is asked, cancelled or on its way at the start.
LEMMA InitInvariant == Init => IInv
<1> SUFFICES ASSUME Init PROVE IInv
  OBVIOUS
<1>1. PICK rows \in FirstPlans : history = <<[rows |-> rows, day |-> 0]>>
  BY DEF Init
<1>2. rows \in SUBSET Row /\ OneRowPerId(rows) /\ RangesOK(rows) /\ NoOverlap(rows)
  BY PlansAssumption DEF Contiguous
<1>3. history \in Seq(Moment) /\ Now = 1 /\ Rows = rows
  BY <1>1, <1>2 DEF Moment, Now, Rows
<1>4. Now \in 1 .. MaxMoments
  BY <1>3
<1>5. request \in [Request -> [step : Steps, id : 0 .. MaxRows,
                               row : Row \cup {Nothing}, before : 0 .. MaxRows]]
  BY DEF Init, Idle, Steps
<1>6. {plan, past} \subseteq Entries(1 .. Now)
  <2>1. NoEntry \in Entries(1 .. Now)
    BY DEF NoEntry, Entries
  <2>2. [NoEntry EXCEPT !.data = 1] \in Entries(1 .. Now)
    BY <1>3, <2>1 DEF Entries
  <2> QED BY <2>1, <2>2 DEF Init
<1>7. TypeOK
  BY <1>3, <1>4, <1>5, <1>6 DEF Init, TypeOK, Moment
<1>8. \A s \in Request : request[s].step = "idle"
  BY DEF Init, Idle
<1>9. RowsOK /\ LocksExclude /\ CancelledGone
  BY <1>2, <1>3, <1>8 DEF Init, RowsOK, LocksExclude, CancelledGone, At, Request
<1>10. \A s \in Request : Reading(s) /\ Untouched(s)
  BY <1>8 DEF Reading, Untouched, UnderWay
<1> QED BY <1>7, <1>9, <1>10 DEF IInv

\* IInv holds throughout.
THEOREM CancellationsInvariant == Spec => []IInv
<1>1. IInv /\ [Next]_vars => IInv'
  BY TypeInductive, RowsInductive, LocksInductive, GoneInductive, RequestsInductive DEF IInv
<1> QED BY <1>1, InitInvariant, PTL DEF Spec

\* TypeOK.
THEOREM TypeCorrect == Spec => []TypeOK
<1>1. IInv => TypeOK
  BY DEF IInv
<1> QED BY <1>1, CancellationsInvariant, PTL

-----------------------------------------------------------------------------
(* When an employee is left without a row. *)

\* A cancellation that nothing touched leaves no gap: the row before reaches
\* as far as its row did, and there the next one starts.
LEMMA UncrossedLeavesNoGap ==
    ASSUME IInv, NEW s \in Request, CancelCommit(s), s \notin crossed, NoGap(Rows)
    PROVE  NoGap(Left(s))
<1> USE DEF IInv
<1> DEFINE r == request[s].row
           before == request[s].before
<1>1. /\ r \in Row /\ r.id = request[s].id /\ r.from < r.to
      /\ \A q \in Rows : q.id = r.id => q.from = r.from /\ q.to <= r.to
      /\ r.id \in Ids(Rows) => \A q \in Rows : q.to = r.from => q.id = before
      /\ \A q \in Rows : q.id = before => q.to = r.from
  <2>1. UnderWay(s) /\ At(s, "locked") /\ ~At(s, "read")
    BY DEF CancelCommit, At, UnderWay
  <2>2. /\ r \in Row /\ r.id = request[s].id /\ r.from < r.to
        /\ \A q \in Rows : q.id = r.id => q.from = r.from
        /\ before # 0 => \E p \in Rows : p.id = before /\ p.to = r.from
    BY <2>1 DEF Reading
  <2>3. /\ \A q \in Rows : q.id = r.id => q.to <= r.to
        /\ r.id \in Ids(Rows) => \A q \in Rows : q.to = r.from => q.id = before
    BY <2>1 DEF Untouched
  <2>4. \A q \in Rows : q.id # 0
    BY HistoryType DEF Row
  <2> QED BY <2>2, <2>3, <2>4 DEF RowsOK, OneRowPerId
<1>2. /\ Left(s) \in SUBSET Row
      /\ \A q \in Left(s) : \E p \in Rows :
             /\ p.id # r.id /\ q.id = p.id /\ q.from = p.from
             /\ q.to = IF p.id = before THEN r.to ELSE p.to
      /\ \A p \in Rows : p.id # r.id => \E q \in Left(s) :
             /\ q.id = p.id /\ q.from = p.from
             /\ q.to = IF p.id = before THEN r.to ELSE p.to
  BY <1>1, LeftRows
<1>3. NoOverlap(Left(s))
  BY DEF CancelCommit
<1>4. /\ \A p \in Rows : /\ p.from \in Int /\ p.to \in Int /\ p.from < p.to
                         /\ p.to = Horizon \/ \E q \in Rows : q.from = p.to
      /\ \A p, q \in Rows : p.id = q.id => p = q
  BY HistoryType DEF RowsOK, RangesOK, OneRowPerId, NoGap, Row
<1>5. r.from \in Int /\ r.to \in Int /\ r.to <= Horizon /\ Horizon \in Int
  BY <1>1 DEF Row
<1> HIDE DEF r, before
<1> SUFFICES ASSUME NEW v \in Left(s), v.to # Horizon PROVE \E w \in Left(s) : w.from = v.to
  BY DEF NoGap
<1>6. PICK p \in Rows : /\ p.id # r.id /\ v.id = p.id /\ v.from = p.from
                        /\ v.to = IF p.id = before THEN r.to ELSE p.to
  BY <1>2
<1>7. CASE p.id = before
  <2>1. p.to = r.from /\ v.to = r.to
    BY <1>1, <1>6, <1>7
  <2>2. ASSUME NEW w \in Rows, w.id # r.id, r.from <= w.from, w.from < r.to PROVE FALSE
    <3>1. w.id # before
      BY <1>4, <1>7, <2>1, <2>2
    <3>2. PICK x \in Left(s) : x.id = w.id /\ x.from = w.from /\ x.to = w.to
      BY <1>2, <2>2, <3>1
    <3>3. x # v
      BY <1>6, <1>7, <3>1, <3>2
    <3>4. x.to <= v.from \/ v.to <= x.from
      BY <1>3, <3>2, <3>3 DEF NoOverlap
    <3> QED BY <1>4, <1>5, <1>6, <2>1, <2>2, <3>2, <3>4
  <2>3. PICK o \in Rows : o.from = r.from
    BY <1>4, <1>5, <1>1, <2>1
  <2>4. o.id = r.id /\ o.to <= r.to
    BY <1>1, <1>4, <1>5, <2>2, <2>3
  <2>5. o.to = r.to
    <3> SUFFICES ASSUME o.to < r.to PROVE FALSE
      BY <1>4, <1>5, <2>4
    <3>1. PICK w \in Rows : w.from = o.to
      BY <1>4, <1>5
    <3>2. w.id # r.id
      BY <1>4, <2>4, <3>1
    <3> QED BY <1>4, <1>5, <2>2, <2>3, <3>1, <3>2
  <2>6. PICK w \in Rows : w.from = r.to
    BY <1>4, <2>1, <2>5
  <2>7. w.id # r.id
    BY <1>4, <2>4, <2>5, <2>6
  <2> QED BY <1>2, <2>1, <2>6, <2>7
<1>8. CASE p.id # before
  <2>1. v.to = p.to
    BY <1>6, <1>8
  <2>2. PICK w \in Rows : w.from = p.to
    BY <1>4, <2>1
  <2>3. w.id # r.id
    BY <1>1, <1>8, <2>2 DEF Ids
  <2> QED BY <1>2, <2>1, <2>2, <2>3
<1> QED BY <1>7, <1>8

\* Nor does a move.
LEMMA MoveLeavesNoGap ==
    ASSUME TypeOK, NEW m \in ManagerOrNone, NEW f \in Day, NEW i \in 1 .. MaxRows, NoGap(Rows)
    PROVE  NoGap(MovedRows(m, f, i))
<1> DEFINE moved == MovedRows(m, f, i)
           opened == [id |-> i, mgr |-> m, from |-> f, to |-> Horizon]
<1>1. opened \in moved /\ opened.from = f
  BY DEF MovedRows
<1>2. \A p \in Rows : p.from \in Int /\ p.to \in Int
  BY HistoryType DEF Row
<1>3. \A p \in Rows : p.from < f => \E w \in moved : w.from = p.from
  <2> SUFFICES ASSUME NEW p \in Rows, p.from < f PROVE \E w \in moved : w.from = p.from
    OBVIOUS
  <2>1. CASE p.to <= f
    BY <2>1 DEF MovedRows
  <2>2. CASE f < p.to
    <3>1. [p EXCEPT !.to = f] \in moved
      BY <2>2 DEF MovedRows
    <3>2. [p EXCEPT !.to = f].from = p.from
      BY HistoryType DEF Row
    <3> QED BY <3>1, <3>2
  <2> QED BY <1>2, <2>1, <2>2
<1>4. \A q \in moved : (q \in Rows /\ q.to <= f) \/ q.to = f \/ q.to = Horizon
  BY MovedRowsType
<1> HIDE DEF moved, opened
<1> SUFFICES ASSUME NEW q \in moved, q.to # Horizon PROVE \E w \in moved : w.from = q.to
  BY DEF NoGap, moved
<1>5. CASE q.to = f
  BY <1>1, <1>5
<1>6. CASE q \in Rows /\ q.to < f
  <2>1. PICK w \in Rows : w.from = q.to
    BY <1>6 DEF NoGap
  <2> QED BY <1>3, <1>6, <2>1
<1> QED BY <1>2, <1>4, <1>5, <1>6

\* GapsNeedAdjoiningCancels: whatever colleagues cancel and plan meanwhile, the
\* employee is left without a row only by a cancellation that another one, of a
\* row that touches its row, has passed.
THEOREM GapsOnlyWhenCrossed == Spec => GapsNeedAdjoiningCancels
<1>1. ASSUME IInv, [Next]_vars, NoGap(Rows), ~NoGap(Rows')
      PROVE  \E s \in crossed : CancelCommit(s)
  <2> USE <1>1 DEF IInv
  <2>1. ASSUME NEW s \in Request, CancelCommit(s) PROVE s \in crossed
    <3>1. Rows' = Left(s)
      BY <2>1, LeftRows, HistoryType, Committed DEF CancelCommit, Reading, UnderWay, At
    <3> QED BY <2>1, <3>1, UncrossedLeavesNoGap
  <2>2. ASSUME NEW m \in ManagerOrNone, NEW f \in Day, ColleagueMoves(m, f) PROVE FALSE
    <3>1. PICK i \in (1 .. MaxRows) \ Used : Commit(MovedRows(m, f, i), Today)
      BY <2>2, MoveCommits
    <3>2. Rows' = MovedRows(m, f, i)
      BY <3>1, MovedRowsType, HistoryType, Committed
    <3> QED BY <3>1, <3>2, MoveLeavesNoGap
  <2>3. ~NextDay
    <3> SUFFICES ASSUME NextDay PROVE FALSE
      OBVIOUS
    <3>1. Today + 1 \in Day
      BY HistoryType DEF NextDay
    <3>2. Rows' = Rows
      BY <3>1, HistoryType, Committed DEF NextDay
    <3> QED BY <3>2
  <2>4. ~UNCHANGED history
    BY NothingCommitted
  <2> QED BY <2>1, <2>2, <2>3, <2>4, WhatCommits
<1>2. IInv /\ [Next]_vars => [NoGap(Rows) /\ ~NoGap(Rows') => \E s \in crossed : CancelCommit(s)]_vars
  BY <1>1
<1> QED BY <1>2, CancellationsInvariant, PTL DEF Spec, GapsNeedAdjoiningCancels

-----------------------------------------------------------------------------
(* What the page shows of a change it was told is cancelled. *)

\* No moment from i on has a row of that id.
GoneFrom(c, i) == \A k \in i .. Now : c \notin Ids(history[k].rows)

\* An entry that knows, will know, or knows that it may not know.
InTouch(q, c) ==
    \/ q.behind
    \/ q.asked # 0 /\ GoneFrom(c, q.asked)
    \/ q.asked = 0 /\ (q.data = 0 \/ GoneFrom(c, q.data))

\* The history may be out of touch while it is not shown, if it is read again
\* when it next is.
PastInTouch(c) == InTouch(past, c) \/ (past.asked = 0 /\ past.stale /\ past.data # 0 /\ ~InDrawer)

PageKnows ==
    /\ \A c \in cancelled : InTouch(plan, c)
    /\ \A c \in cancelled \ missed : PastInTouch(c)

\* What is gone stays gone as the history grows.
LEMMA StaysGone ==
    ASSUME IInv, [Next]_vars, NEW c, Gone(c)
    PROVE  /\ \A i \in 1 .. Now : GoneFrom(c, i) => GoneFrom(c, i)'
           /\ \A q \in Entries(1 .. Now) : InTouch(q, c) => InTouch(q, c)'
<1>1. /\ c \in Used /\ c \notin Ids(Rows)
      /\ Now' = Now \/ Now' = Now + 1
      /\ \A k \in 1 .. Now : history'[k] = history[k]
      /\ c \notin Ids(Rows')
      /\ Now \in Nat
  BY HistoryGrows, HistoryType DEF Gone, IInv
<1>2. ASSUME NEW i \in 1 .. Now, GoneFrom(c, i) PROVE GoneFrom(c, i)'
  <2> SUFFICES ASSUME NEW k \in i .. Now' PROVE c \notin Ids(history'[k].rows)
    BY DEF GoneFrom, Ids
  <2>1. CASE k <= Now
    <3>1. k \in i .. Now /\ k \in 1 .. Now
      BY <1>1, <2>1
    <3> QED BY <1>1, <1>2, <3>1 DEF GoneFrom
  <2>2. CASE k = Now'
    BY <1>1, <2>2 DEF Rows, Ids
  <2> QED BY <1>1, <2>1, <2>2
<1>3. \A q \in Entries(1 .. Now) : q.asked \in (1 .. Now) \cup {0} /\ q.data \in (1 .. Now) \cup {0}
  BY DEF Entries
<1> QED BY <1>2, <1>3 DEF InTouch

\* What the cache does to an entry keeps it in touch, and a request sent now
\* puts it in touch.
LEMMA EntryInTouch ==
    ASSUME TypeOK, NEW c, Gone(c), NEW q \in Entries(1 .. Now)
    PROVE  /\ InTouch(q, c) => InTouch(Fetch(q, Now), c) /\ InTouch(Mount(q, Now), c)
           /\ (q.asked # 0 /\ InTouch(q, c)) => \A p \in Arrivals(q, Now) : InTouch(p, c)
           /\ q.asked = 0 => InTouch(Fetch(q, Now), c)
           /\ InTouch(Invalidate(q, TRUE, Now), c)
           /\ LET p == Invalidate(q, FALSE, Now)
              IN  InTouch(p, c) \/ (p.asked = 0 /\ p.stale /\ p.data # 0)
<1>1. GoneFrom(c, Now) /\ Now \in Nat /\ Now # 0
  BY HistoryType DEF GoneFrom, Gone, Rows
<1>2. q.asked \in (1 .. Now) \cup {0} /\ q.data \in (1 .. Now) \cup {0} /\ q.behind \in BOOLEAN
  BY DEF Entries
<1>3. q.asked = 0 => InTouch(Fetch(q, Now), c)
  BY <1>1 DEF Fetch, InTouch, Entries
<1>4. InTouch(q, c) => InTouch(Fetch(q, Now), c)
  <2>1. CASE q.asked = 0
    BY <1>3, <2>1
  <2>2. CASE q.asked # 0
    BY <2>2 DEF Fetch
  <2> QED BY <2>1, <2>2
<1>5. InTouch(q, c) => InTouch(Mount(q, Now), c)
  BY <1>4 DEF Mount
<1>6. ASSUME q.asked # 0, InTouch(q, c), NEW i \in q.asked .. Now
      PROVE  InTouch([q EXCEPT !.data = i, !.asked = 0, !.stale = FALSE], c)
  <2> DEFINE p == [q EXCEPT !.data = i, !.asked = 0, !.stale = FALSE]
  <2>1. p.data = i /\ p.asked = 0 /\ p.behind = q.behind
    BY DEF Entries
  <2>2. CASE q.behind
    BY <2>1, <2>2 DEF InTouch
  <2>3. CASE GoneFrom(c, q.asked)
    <3>1. i .. Now \subseteq q.asked .. Now
      BY <1>1, <1>2
    <3>2. GoneFrom(c, i)
      BY <2>3, <3>1 DEF GoneFrom
    <3> QED BY <2>1, <3>2 DEF InTouch
  <2> QED BY <1>6, <2>2, <2>3 DEF InTouch
<1>7. InTouch(Invalidate(q, TRUE, Now), c)
  <2>1. CASE q.data = 0 /\ q.asked # 0
    BY <2>1 DEF Invalidate, InTouch, Entries
  <2>2. CASE ~(q.data = 0 /\ q.asked # 0)
    BY <1>1, <2>2 DEF Invalidate, InTouch, Entries
  <2> QED BY <2>1, <2>2
<1>8. LET p == Invalidate(q, FALSE, Now)
      IN  InTouch(p, c) \/ (p.asked = 0 /\ p.stale /\ p.data # 0)
  <2>1. CASE q.data = 0 /\ q.asked # 0
    BY <2>1 DEF Invalidate, InTouch, Entries
  <2>2. CASE ~(q.data = 0 /\ q.asked # 0) /\ q.asked # 0
    BY <2>2 DEF Invalidate, InTouch, Entries
  <2>3. CASE q.asked = 0
    BY <2>3 DEF Invalidate, InTouch, Entries
  <2> QED BY <2>1, <2>2, <2>3
<1> QED BY <1>3, <1>4, <1>5, <1>6, <1>7, <1>8 DEF Arrivals

\* Every step keeps the page in touch.
LEMMA KnowsInductive == IInv /\ PageKnows /\ [Next]_vars => PageKnows'
<1> SUFFICES ASSUME IInv, PageKnows, [Next]_vars PROVE PageKnows'
  OBVIOUS
<1> USE DEF IInv
<1>1. /\ plan \in Entries(1 .. Now) /\ past \in Entries(1 .. Now)
      /\ \A c \in cancelled : Gone(c) /\ InTouch(plan, c)
      /\ \A c \in cancelled \ missed : PastInTouch(c)
  BY DEF TypeOK, CancelledGone, PageKnows
<1>2. CASE UNCHANGED pageVars
  <2>1. \A c \in cancelled : InTouch(plan, c)'
    BY <1>1, <1>2, StaysGone DEF pageVars, InTouch
  <2>2. \A c \in cancelled \ missed : PastInTouch(c)'
    BY <1>1, <1>2, StaysGone DEF pageVars, InTouch, PastInTouch, InDrawer
  <2> QED BY <1>2, <2>1, <2>2 DEF PageKnows, pageVars
<1>3. ASSUME UNCHANGED history,
             \A c \in cancelled' : InTouch(plan', c),
             \A c \in cancelled' \ missed' :
                 InTouch(past', c) \/ (past'.asked = 0 /\ past'.stale /\ past'.data # 0 /\ ~InDrawer')
      PROVE  PageKnows'
  BY <1>3, NothingCommitted DEF PageKnows, PastInTouch, InTouch, GoneFrom
<1>4. CASE Refocus
  BY <1>1, <1>3, <1>4, EntryInTouch DEF Refocus, PastInTouch, InDrawer
<1>5. CASE PlanArrives
  BY <1>1, <1>3, <1>5, EntryInTouch DEF PlanArrives, PastInTouch, InDrawer
<1>6. CASE PastArrives
  BY <1>1, <1>3, <1>6, EntryInTouch DEF PastArrives, PastInTouch, InDrawer
<1>7. CASE OpenDrawer
  <2>1. ASSUME NEW c \in cancelled \ missed
        PROVE  InTouch(Mount(past, Now), c) /\ InTouch(Fetch(past, Now), c)
    <3>1. CASE InTouch(past, c)
      BY <1>1, <3>1, EntryInTouch
    <3>2. CASE past.asked = 0 /\ past.stale
      BY <1>1, <3>2, EntryInTouch DEF Mount
    <3> QED BY <1>1, <3>1, <3>2 DEF PastInTouch
  <2> QED BY <1>1, <1>3, <1>7, <2>1 DEF OpenDrawer
<1>8. CASE (\E r \in Listed : AskCancel(r)) \/ Close \/ ConfirmCancel \/ Fails
  <2>1. InDrawer' => InDrawer
    <3>1. CASE \E r \in Listed : AskCancel(r)
      BY <3>1, ListedRows DEF AskCancel, InDrawer
    <3> QED BY <1>8, <3>1 DEF Close, ConfirmCancel, Fails, InDrawer
  <2> QED BY <1>1, <1>3, <1>8, <2>1 DEF AskCancel, Close, ConfirmCancel, Fails, PastInTouch
<1>9. CASE Succeeds
  <2> DEFINE id == request[Mine].id
  <2>1. Gone(id)
    BY <1>9 DEF Succeeds, CancelledGone
  <2>2. \A c \in cancelled \cup {id} : Gone(c)
    BY <1>1, <2>1
  <2>3. InDrawer' <=> InDrawer
    BY <1>9 DEF Succeeds, InDrawer
  <2>4. \A c \in cancelled' : InTouch(plan', c)
    BY <1>1, <1>9, <2>2, EntryInTouch DEF Succeeds, Invalidated
  <2>5. CASE id \in {r.id : r \in Listed}
    <3>1. past' = Invalidate(past, InDrawer, Now) /\ cancelled' = cancelled \cup {id}
      BY <1>9, <2>5 DEF Succeeds, Invalidated
    <3>2. \A c \in cancelled' : InTouch(past', c) \/ (past'.asked = 0 /\ past'.stale /\ past'.data # 0 /\ ~InDrawer)
      <4> SUFFICES ASSUME NEW c \in cancelled'
                   PROVE  InTouch(past', c) \/ (past'.asked = 0 /\ past'.stale /\ past'.data # 0 /\ ~InDrawer)
        OBVIOUS
      <4>1. Gone(c)
        BY <2>2, <3>1
      <4>2. CASE InDrawer
        <5>1. past' = Invalidate(past, TRUE, Now)
          BY <3>1, <4>2 DEF Invalidate
        <5>2. InTouch(Invalidate(past, TRUE, Now), c)
          BY <1>1, <4>1, EntryInTouch
        <5> QED BY <5>1, <5>2
      <4>3. CASE ~InDrawer
        <5> DEFINE p == Invalidate(past, FALSE, Now)
        <5>1. past' = p
          BY <3>1, <4>3 DEF Invalidate
        <5>2. InTouch(p, c) \/ (p.asked = 0 /\ p.stale /\ p.data # 0)
          BY <1>1, <4>1, EntryInTouch
        <5> HIDE DEF p
        <5> QED BY <4>3, <5>1, <5>2
      <4> QED BY <4>2, <4>3
    <3> QED BY <1>3, <1>9, <2>3, <2>4, <3>2 DEF Succeeds
  <2>6. CASE id \notin {r.id : r \in Listed}
    BY <1>1, <1>3, <1>9, <2>3, <2>4, <2>6 DEF Succeeds, Invalidated, PastInTouch
  <2> QED BY <2>5, <2>6
<1>10. CASE AnswerLost \/ (\E s \in Request : Cancels(s) \/ ColleagueCancels(s))
            \/ (\E move \in MovesTried : ColleagueMoves(move[1], move[2])) \/ NextDay \/ UNCHANGED vars
  BY <1>2, <1>10 DEF AnswerLost, Cancels, ColleagueCancels, CancelRead, CancelRefused, CancelFind,
     CancelLock, CancelCommit, CancelOverlaps, ColleagueMoves, NextDay, vars
<1> QED BY <1>4, <1>5, <1>6, <1>7, <1>8, <1>9, <1>10 DEF Next

\* CancelledIsGone: the list never offers a change the page was told is
\* cancelled, in whatever order the answers come, and the history, when it is
\* shown, has none but those the list had lost before the answer.
THEOREM CancelledStaysGone == Spec => []CancelledIsGone
<1>1. Init => PageKnows
  BY DEF Init, PageKnows
<1>2. IInv /\ PageKnows => CancelledIsGone
  <2> SUFFICES ASSUME IInv, PageKnows PROVE CancelledIsGone
    OBVIOUS
  <2>1. ASSUME NEW q \in Entries(1 .. Now), NEW c, Settled(q), InTouch(q, c)
        PROVE  \A r \in history[q.data].rows : r.id # c
    <3>1. GoneFrom(c, q.data)
      BY <2>1 DEF Settled, InTouch
    <3>2. q.data \in q.data .. Now
      BY <2>1, HistoryType DEF Settled, Entries, IInv
    <3> QED BY <3>1, <3>2 DEF GoneFrom, Ids
  <2>2. plan \in Entries(1 .. Now) /\ past \in Entries(1 .. Now)
    BY DEF TypeOK, IInv
  <2>3. Settled(plan) => \A r \in Listed : r.id \notin cancelled
    BY <2>1, <2>2 DEF PageKnows, Listed, Scheduled
  <2>4. (InDrawer /\ Settled(past)) => \A r \in history[past.data].rows : r.id \notin cancelled \ missed
    BY <2>1, <2>2 DEF PageKnows, PastInTouch
  <2> QED BY <2>3, <2>4 DEF CancelledIsGone
<1> QED BY <1>1, <1>2, KnowsInductive, CancellationsInvariant, PTL DEF Spec
=============================================================================
