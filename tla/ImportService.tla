--------------------------- MODULE ImportService ----------------------------
(***************************************************************************)
(* The endpoint that writes an import file, statement by statement: it     *)
(* reads who is there and validates the rows as a whole, loads the         *)
(* employees they name, and then works off one row after another, first    *)
(* the records, then the managers, in one READ COMMITTED transaction.      *)
(* Every statement sees what others have committed by then, and what the   *)
(* transaction wrote itself; the employees that were loaded stay as they   *)
(* were loaded, for nothing refreshes them.                                *)
(*                                                                         *)
(* Employees are known by their number.  Of a row's fields the e-mail is   *)
(* kept, for it must be unique, and stands for any cell that is wrong.     *)
(* Of the dated edges the one in force today is kept; everybody who was    *)
(* ever employed has one.  Midnight does not fall into a transaction.      *)
(***************************************************************************)
EXTENDS Integers, Sequences, ReportingGraph

CONSTANTS
    Email,       \* e-mails that pass
    Invalid,     \* a cell that is found fault with
    RowChoice,   \* bound: the rows a file can have
    MaxRows,     \* bound: how many
    FirstTable,  \* bound: the employees there are at first
    OtherRow,    \* bound: what others make of whom
    Nothing      \* no employee, no rows

Number == Employee

ASSUME RowAssumption ==
    RowChoice \subseteq
        [number : Number, email : Email \cup {Invalid}, manager : ManagerOrNone]
ASSUME SizeAssumption == MaxRows \in Nat

File == UNION {[1 .. n -> RowChoice] : n \in 0 .. MaxRows}

\* A row of the employee table and the edge in force: where it is not the cached
\* manager a change has fallen due and nothing has been written since.
Record == [email : Email, manager : ManagerOrNone, edge : ManagerOrNone, gone : BOOLEAN]

Table == [Number -> Record \cup {Nothing}]

\* The foreign keys: a manager has a row.
Refers(d) ==
    \A n \in Number : d[n] # Nothing =>
        {d[n].manager, d[n].edge} \subseteq {NoManager} \cup {m \in Number : d[m] # Nothing}

\* Others leave the cache in step; whoever has left, stays as they were.
ASSUME TableAssumption ==
    /\ FirstTable \subseteq {d \in Table : Refers(d)}
    /\ OtherRow \in [Number -> SUBSET {r \in Record : r.manager = r.edge /\ ~r.gone}]

\* A cell with a fault is no e-mail.
ASSUME NothingAssumption ==
    Nothing \notin Record /\ Nothing \notin File /\ Invalid \notin Email

VARIABLES
    db,         \* the employee table as committed
    writing,    \* the rows that are being committed
    stage,      \* what the transaction does next
    at,         \* and with which row
    people,     \* list_active_identity_map, as it was read
    loaded,     \* existing_by_number: what is remembered of whom
    own,        \* rows as this transaction has written them
    updates,    \* the manager_id's it wrote, for the deferred trigger
    overtaken,  \* ghost: whose row changed between its loading and its writing
    alone       \* ghost: nothing was due and nobody else has written since the start

remembered == <<people, loaded>>
written == <<own, updates, overtaken>>
import == <<writing, stage, at, remembered, written, alone>>

Nobody == [n \in Number |-> Nothing]

Stages == {"none", "addresses", "load", "find", "write", "move", "trigger", "commit"}

ServiceTypeOK ==
    /\ {db, people, loaded, own} \subseteq Table
    /\ writing \in File \cup {Nothing}
    /\ stage \in Stages /\ at \in 1 .. MaxRows + 1
    /\ stage # "none" => writing # Nothing
    /\ stage \in {"find", "write", "move"} => at \in DOMAIN writing
    /\ updates \subseteq Number \X ManagerOrNone
    /\ overtaken \subseteq Number /\ alone \in BOOLEAN

NoImport ==
    /\ stage = "none" /\ at = 1
    /\ people = Nobody /\ loaded = Nobody /\ own = Nobody
    /\ updates = {} /\ overtaken = {} /\ alone = FALSE

ServiceInit == db \in FirstTable /\ writing = Nothing /\ NoImport

-----------------------------------------------------------------------------
(* What the statements see. *)

Present(d) == {n \in Number : d[n] # Nothing /\ ~d[n].gone}

\* employee.manager_id, of the departed too.
Edges(d) == [n \in Number |-> IF d[n] = Nothing THEN NoManager ELSE d[n].manager]

\* Of those present, to those present.
ActiveEdges(d) ==
    [n \in Number |-> IF n \in Present(d) /\ d[n].manager \in Present(d)
                      THEN d[n].manager ELSE NoManager]

Owners(d, email) == {n \in Present(d) : d[n].email = email}

Due(d) == {n \in Present(d) : d[n].edge # d[n].manager}

\* sync_effective_assignments().
Landed(d) ==
    [n \in Number |-> IF n \in Due(d) THEN [d[n] EXCEPT !.manager = d[n].edge] ELSE d[n]]

Seen == [n \in Number |-> IF own[n] # Nothing THEN own[n] ELSE db[n]]

-----------------------------------------------------------------------------
(* ImportService.validate, of the people p and the addresses in d. *)

Same(rows, f(_)) ==
    {i \in DOMAIN rows : \E j \in DOMAIN rows \ {i} : f(rows[i]) = f(rows[j])}

NumberOf(row) == row.number
EmailOf(row) == row.email

Duplicates(rows) == Same(rows, NumberOf) \cup Same(rows, EmailOf)

\* The address belongs to somebody else who is present.
Taken(d, rows) ==
    {i \in DOMAIN rows : \E n \in Present(d) \ {rows[i].number} : d[n].email = rows[i].email}

Malformed(rows) == {i \in DOMAIN rows : rows[i].email = Invalid}

KnownManager(p, rows, i) ==
    rows[i].manager \in {NoManager} \cup Present(p) \cup {rows[j].number : j \in DOMAIN rows}

\* The structure as it would be, the last row of a number counting.
Combined(p, rows) ==
    [n \in Number |->
        LET of == {i \in DOMAIN rows : rows[i].number = n}
            last == CHOOSE i \in of : \A j \in of : j <= i
        IN  IF of = {} THEN ActiveEdges(p)[n]
            ELSE IF KnownManager(p, rows, last) THEN rows[last].manager ELSE NoManager]

\* MUTANT of InLoop: loops are not looked for.
InLoopNever(p, rows) == {}

\* _find_cycle_members.
InLoop(p, rows) ==
    LET g == Combined(p, rows) IN
    {i \in DOMAIN rows :
        LET n == rows[i].number IN g[n] # NoManager /\ Reaches(g, g[n], n)}

Blocked(p, d, rows) ==
    Duplicates(rows) \cup Taken(d, rows) \cup Malformed(rows) \cup InLoop(p, rows)
        \cup {i \in DOMAIN rows : ~KnownManager(p, rows, i)}

-----------------------------------------------------------------------------
(* The transaction begins: it validates and loads. *)

\* Bound: the number of somebody who has left is not given to somebody new.
ReadPeople ==
    /\ writing # Nothing /\ stage = "none"
    /\ \A i \in DOMAIN writing :
          LET n == writing[i].number IN db[n] # Nothing => n \in Present(db)
    /\ stage' = "addresses"
    /\ people' = db
    /\ alone' = (Due(db) = {})
    /\ UNCHANGED <<db, writing, at, loaded, written>>

ReadAddresses ==
    /\ stage = "addresses"
    /\ Blocked(people, db, writing) = {}
    /\ stage' = "load"
    /\ UNCHANGED <<db, writing, at, remembered, written, alone>>

Mentioned(rows) ==
    {rows[i].number : i \in DOMAIN rows} \cup ({rows[i].manager : i \in DOMAIN rows} \ {NoManager})

LoadRows ==
    /\ stage = "load"
    /\ loaded' = [n \in Number |-> IF n \in Mentioned(writing) \cap Present(db)
                                   THEN db[n] ELSE Nothing]
    /\ stage' = IF writing = <<>> THEN "trigger" ELSE "find"
    /\ UNCHANGED <<db, writing, at, people, written, alone>>

-----------------------------------------------------------------------------
(* EmployeeService.create and update, for row after row. *)

\* will_create.
New(i) == writing[i].number \notin Present(people)

\* The row passes what is asked before it is written.  Its version is compared
\* with the one that was loaded, and so with itself.
Found(i) ==
    LET n == writing[i].number
        e == writing[i].email
    IN  IF New(i) THEN n \notin Present(Seen) /\ Owners(Seen, e) = {}
        ELSE /\ loaded[n] # Nothing /\ n \in Present(Seen)
             /\ e # loaded[n].email => Owners(Seen, e) \subseteq {n}

\* The first row syncs, for all of them.
FindRow ==
    /\ stage = "find"
    /\ Found(at)
    /\ IF at = 1
       THEN /\ own' = [n \in Number |-> IF n \in Due(db) THEN Landed(db)[n] ELSE Nothing]
            /\ updates' = {<<n, db[n].edge>> : n \in Due(db)}
            /\ overtaken' = overtaken \cup Due(db)
       ELSE UNCHANGED written
    /\ stage' = "write"
    /\ UNCHANGED <<db, writing, at, remembered, alone>>

\* The row as it is written: columns that are as they were loaded are left out.
Put(i) ==
    LET n == writing[i].number
        e == writing[i].email
    IN  IF New(i) THEN [email |-> e, manager |-> NoManager, edge |-> NoManager, gone |-> FALSE]
        ELSE [Seen[n] EXCEPT !.email = IF e = loaded[n].email THEN @ ELSE e]

\* The unique indexes, of those present.
Fits(i) ==
    LET n == writing[i].number IN
    /\ New(i) => n \notin Present(Seen)
    /\ ~Put(i).gone => Owners(Seen, Put(i).email) \subseteq {n}

\* The next row, or the next thing to do with them.
Onward(to, then) ==
    IF at < Len(writing) THEN stage' = to /\ at' = at + 1 ELSE stage' = then /\ at' = 1

\* Bound: nobody new gets the number of somebody who was there for a moment.
WriteRow ==
    /\ stage = "write"
    /\ Fits(at)
    /\ New(at) => Seen[writing[at].number] = Nothing
    /\ own' = [own EXCEPT ![writing[at].number] = Put(at)]
    /\ Onward("find", "move")
    /\ UNCHANGED <<db, writing, remembered, updates, overtaken, alone>>

-----------------------------------------------------------------------------
(* ReassignmentService.reassign_manager, for row after row. *)

\* employee.manager_id, of the object in memory.
Remembers(i) == IF New(i) THEN NoManager ELSE loaded[writing[i].number].manager

Unmoved(i) == Remembers(i) = writing[i].manager

\* The manager is one of the file or was loaded.
Resolved(i) ==
    writing[i].manager \in
        {NoManager} \cup {n \in Number : loaded[n] # Nothing}
                    \cup {writing[j].number : j \in DOMAIN writing}

\* Both are present, and the walk down the cached managers, which leads through
\* departed employees, does not find the new manager.
Movable(i) ==
    LET n == writing[i].number
        m == writing[i].manager
    IN  /\ n \in Present(Seen)
        /\ m # NoManager =>
             m \in Present(Seen) /\ m # n /\ ~IsDescendant(Edges(Seen), m, n)

\* MUTANT of Moved: only the cache is written.
MovedInCache(i) ==
    LET n == writing[i].number IN
    own' = [own EXCEPT ![n] = [Seen[n] EXCEPT !.manager = writing[i].manager]]

\* The cache is written and set_edge opens a row from today on.
Moved(i) ==
    LET n == writing[i].number
        m == writing[i].manager
    IN  own' = [own EXCEPT ![n] = [Seen[n] EXCEPT !.manager = m, !.edge = m]]

\* Check and write are one step: both rows are locked, and what others do to
\* those above them in between is the matter of ConcurrentMoves.
MoveRow ==
    /\ stage = "move"
    /\ Resolved(at)
    /\ IF Unmoved(at) THEN UNCHANGED <<own, updates>>
       ELSE /\ Movable(at)
            /\ Moved(at)
            /\ updates' = updates \cup {<<writing[at].number, writing[at].manager>>}
    /\ Onward("move", "trigger")
    /\ UNCHANGED <<db, writing, remembered, overtaken, alone>>

\* assert_no_reporting_cycle(): the walk up from every manager written does not
\* come back, and ends.
Passes ==
    \A u \in updates :
        u[2] # NoManager =>
            /\ ~Reaches(Edges(Seen), u[2], u[1])
            /\ \E top \in Number : Reaches(Edges(Seen), u[2], top) /\ Edges(Seen)[top] = NoManager

CheckTrigger ==
    /\ stage = "trigger"
    /\ Passes
    /\ stage' = "commit"
    /\ UNCHANGED <<db, writing, at, remembered, written, alone>>

-----------------------------------------------------------------------------
(* The transaction ends. *)

Ended ==
    /\ writing' = Nothing
    /\ stage' = "none" /\ at' = 1
    /\ people' = Nobody /\ loaded' = Nobody /\ own' = Nobody
    /\ updates' = {} /\ overtaken' = {} /\ alone' = FALSE

\* The rows are blocked and nothing is written.
Blocks ==
    /\ stage = "addresses"
    /\ Blocked(people, db, writing) # {}
    /\ Ended
    /\ UNCHANGED db

\* A row is refused for its manager.
MoveRefused ==
    /\ stage = "move"
    /\ ~(Resolved(at) /\ (Unmoved(at) \/ Movable(at)))

\* A row is refused on the way, or all of them at the end, and all is rolled back.
Raises ==
    /\ \/ stage = "find" /\ ~Found(at)
       \/ stage = "write" /\ ~Fits(at)
       \/ MoveRefused
       \/ stage = "trigger" /\ ~Passes
    /\ Ended
    /\ UNCHANGED db

\* A deadlock, a lost connection.
Lost ==
    /\ writing # Nothing
    /\ Ended
    /\ UNCHANGED db

Writes ==
    /\ stage = "commit"
    /\ db' = Seen
    /\ Ended

-----------------------------------------------------------------------------
(* Others. *)

\* Rows this transaction has locked: those it wrote, and the managers it gave.
Locked ==
    {n \in Number : own[n] # Nothing}
        \cup {writing[i].manager :
                i \in {j \in DOMAIN writing :
                        /\ stage \in {"trigger", "commit"} \/ (stage = "move" /\ j < at)
                        /\ ~Unmoved(j)}}

\* The row of n becomes r, and what is due lands.  Others may close loops.
OthersCommit(n, r) ==
    /\ Locked \cap ({n} \cup Due(db)) = {}
    /\ db' = [Landed(db) EXCEPT ![n] = r]
    /\ overtaken' = IF stage \in {"none", "addresses", "load"} THEN overtaken
                    ELSE overtaken \cup {n} \cup Due(db)
    /\ alone' = FALSE
    /\ UNCHANGED <<writing, stage, at, remembered, own, updates>>

\* Somebody else edits, moves, creates or restores an employee.  Bound: while
\* the rows wait to be written.
OthersWrite(n, r) ==
    /\ writing # Nothing
    /\ r # db[n] /\ Refers([db EXCEPT ![n] = r])
    /\ Owners(db, r.email) \cup Owners(Seen, r.email) \subseteq {n}
    /\ OthersCommit(n, r)

OthersDelete(n) ==
    /\ writing # Nothing
    /\ n \in Present(db)
    /\ OthersCommit(n, [Landed(db)[n] EXCEPT !.gone = TRUE])

-----------------------------------------------------------------------------
\* What the server does that no answer tells of.
ServiceStep ==
    \/ ReadPeople \/ ReadAddresses \/ LoadRows
    \/ FindRow \/ WriteRow \/ MoveRow \/ CheckTrigger
    \/ \E n \in Number : OthersDelete(n) \/ \E r \in OtherRow[n] : OthersWrite(n, r)
=============================================================================
