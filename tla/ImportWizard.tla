---------------------------- MODULE ImportWizard ----------------------------
(***************************************************************************)
(* The import page, beside the endpoint of ImportService.  A file becomes  *)
(* the rows of a table, which the server checks; cells are corrected;      *)
(* Submit checks once more, asks for confirmation and sends the rows to be *)
(* written.  The page sends them as a text, and the server reads it.       *)
(*                                                                         *)
(* The page hears of a commit no sooner than the server has ended it.      *)
(***************************************************************************)
EXTENDS CsvText, ImportService

CONSTANTS
    FileChoice,  \* bound: the files that are loaded
    Spelling     \* what stands in a cell

ASSUME FileAssumption == FileChoice \subseteq File
ASSUME SpellingAssumption ==
    Spelling \in [Number \cup Email \cup {Invalid, NoManager} -> Seq(Char)]

VARIABLES
    table,       \* rows
    named,       \* filename
    issues,      \* the indices in rowIssues
    committed,
    dialog,      \* which confirmation is open
    reading,     \* files whose text is being read
    isChecking,
    checks,      \* checks in flight
    crowded      \* ghost: a file was loaded while another was read or checked

inputs == <<table, named, reading>>
verdicts == <<issues, committed, dialog>>
requests == <<isChecking, checks>>
vars == <<db, import, inputs, verdicts, requests, crowded>>

TypeOK ==
    /\ ServiceTypeOK
    /\ table \in File
    /\ named \in BOOLEAN /\ isChecking \in BOOLEAN
    /\ committed \in BOOLEAN /\ crowded \in BOOLEAN
    /\ issues \subseteq 1 .. MaxRows
    /\ dialog \in {"none", "commit", "discard"}
    /\ reading \in UNION {[1 .. n -> FileChoice] : n \in 0 .. 2}
    /\ checks \subseteq [id : 1 .. 2, rows : File, submits : BOOLEAN]

Init ==
    /\ ServiceInit
    /\ table = <<>> /\ named = FALSE /\ reading = <<>>
    /\ issues = {} /\ committed = FALSE /\ dialog = "none"
    /\ isChecking = FALSE /\ checks = {}
    /\ crowded = FALSE

-----------------------------------------------------------------------------
(* Files and cells. *)

\* validateRows.
CellErrors == {i \in DOMAIN table : table[i].email = Invalid}

Busy == isChecking \/ writing # Nothing

\* A check is sent.  Bound: two are under way at most.
Checks(rows, submits) ==
    /\ isChecking' = TRUE
    /\ \E id \in 1 .. 2 :
        /\ \A c \in checks : c.id # id
        /\ \A k \in 1 .. (id - 1) : \E c \in checks : c.id = k
        /\ checks' = checks \cup {[id |-> id, rows |-> rows, submits |-> submits]}

\* A file is dropped or chosen; its text is read before the page is busy.
\* Bound: two files at once.
LoadFile(f) ==
    /\ table = <<>> /\ ~committed /\ ~Busy /\ dialog = "none"
    /\ Len(reading) < 2
    /\ reading' = Append(reading, f)
    /\ crowded' = (crowded \/ reading # <<>> \/ checks # {})
    /\ UNCHANGED <<db, import, table, named, verdicts, requests>>

FileRead ==
    /\ reading # <<>>
    /\ \E i \in DOMAIN reading :
        /\ reading' = RemoveAt(reading, i)
        /\ table' = reading[i]
        /\ Checks(reading[i], FALSE)
    /\ named' = TRUE /\ committed' = FALSE
    /\ UNCHANGED <<db, import, issues, dialog, crowded>>

FileRefused ==
    /\ reading # <<>>
    /\ reading' = Tail(reading)
    /\ UNCHANGED <<db, import, table, named, verdicts, requests, crowded>>

OneCell(r, s) == Cardinality({f \in DOMAIN r : r[f] # s[f]}) = 1

\* Cells can be edited at any time, a request in flight or not.  Bound: one edit
\* while requests are in flight.
EditCell(i, r) ==
    /\ dialog = "none"
    /\ \A c \in checks : c.rows = table
    /\ writing \in {Nothing, table}
    /\ OneCell(table[i], r)
    /\ table' = [table EXCEPT ![i] = r]
    /\ issues' = issues \ {i}
    /\ UNCHANGED <<db, import, named, reading, committed, dialog, requests, crowded>>

AskDiscard ==
    /\ table # <<>> /\ ~Busy /\ dialog = "none"
    /\ dialog' = "discard"
    /\ UNCHANGED <<db, import, inputs, issues, committed, requests, crowded>>

\* MUTANT of Cleared: the issues stay.
ClearedButIssues ==
    /\ table' = <<>> /\ named' = FALSE /\ committed' = FALSE
    /\ UNCHANGED issues

\* reset.
Cleared ==
    /\ table' = <<>> /\ named' = FALSE
    /\ issues' = {} /\ committed' = FALSE

Discard ==
    /\ dialog = "discard"
    /\ dialog' = "none"
    /\ Cleared
    /\ UNCHANGED <<db, import, reading, requests, crowded>>

ImportAnother ==
    /\ committed /\ dialog = "none"
    /\ Cleared
    /\ UNCHANGED <<db, import, reading, dialog, requests, crowded>>

CloseDialog ==
    /\ dialog # "none"
    /\ dialog' = "none"
    /\ UNCHANGED <<db, import, inputs, issues, committed, requests, crowded>>

-----------------------------------------------------------------------------
(* Checking and committing. *)

CheckAgain ==
    /\ table # <<>> /\ named /\ ~Busy /\ dialog = "none"
    /\ Checks(table, FALSE)
    /\ UNCHANGED <<db, import, inputs, verdicts, crowded>>

Submit ==
    /\ table # <<>> /\ named /\ ~Busy /\ dialog = "none"
    /\ CellErrors = {}
    /\ Checks(table, TRUE)
    /\ UNCHANGED <<db, import, inputs, verdicts, crowded>>

Checked(c) ==
    LET blocked == Blocked(db, db, c.rows) IN
    /\ isChecking' = FALSE
    /\ checks' = checks \ {c}
    /\ issues' = blocked
    /\ dialog' = IF c.submits /\ blocked = {} THEN "commit" ELSE dialog
    /\ UNCHANGED <<db, import, inputs, committed, crowded>>

CheckFails(c) ==
    /\ isChecking' = FALSE
    /\ checks' = checks \ {c}
    /\ UNCHANGED <<db, import, inputs, verdicts, crowded>>

\* What is sent is the table as it is now.  Bound: no other file or check is under
\* way.
Commit ==
    /\ dialog = "commit"
    /\ writing = Nothing
    /\ reading = <<>> /\ checks = {}
    /\ dialog' = "none"
    /\ IF named THEN writing' = table ELSE UNCHANGED writing
    /\ UNCHANGED <<db, stage, at, remembered, written, alone>>
    /\ UNCHANGED <<inputs, issues, committed, requests, crowded>>

\* The server has written all rows, and the page empties itself; or the answer is
\* lost, and it says "Nothing was written."
Commits ==
    /\ Writes
    /\ \/ committed' = TRUE /\ table' = <<>> /\ issues' = {}
       \/ UNCHANGED <<committed, table, issues>>
    /\ UNCHANGED <<named, reading, dialog, requests, crowded>>

\* Some rows are blocked, of a table that was changed or of employees that were.
CommitBlocked ==
    /\ Blocks
    /\ issues' = Blocked(people, db, writing)
    /\ UNCHANGED <<inputs, committed, dialog, requests, crowded>>

CommitFails ==
    /\ Raises \/ Lost
    /\ UNCHANGED <<inputs, verdicts, requests, crowded>>

-----------------------------------------------------------------------------
Answer ==
    \/ \E c \in checks : Checked(c) \/ CheckFails(c)
    \/ Commits \/ CommitBlocked \/ CommitFails

UserStep ==
    \/ \E f \in FileChoice : LoadFile(f)
    \/ \E i \in DOMAIN table, r \in RowChoice : EditCell(i, r)
    \/ AskDiscard \/ Discard \/ ImportAnother \/ CloseDialog
    \/ CheckAgain \/ Submit \/ Commit

Next ==
    \/ UserStep
    \/ FileRead \/ FileRefused
    \/ Answer
    \/ ServiceStep /\ UNCHANGED <<inputs, verdicts, requests, crowded>>

Spec == Init /\ [][Next]_vars

-----------------------------------------------------------------------------
(* Properties. *)

\* "Either every row lands or none does": whatever others commit between the
\* statements, a commit that writes leaves the employees of the file as the file
\* says, whatever the order of its rows, and of everybody else lands what was due
\* at most.  Save one case: a cell that says what was remembered of the employee
\* is not written, and so a change of others', or one that fell due, stays if it
\* came after the rows were loaded and before this one was written; and so does
\* a deletion.
WrittenAsTheFileSays ==
    [][Writes =>
        \A n \in Number :
            LET of == {i \in DOMAIN writing : writing[i].number = n}
                stays(cell, before) == n \in overtaken /\ loaded[n] # Nothing /\ cell = before
            IN
            IF of = {} THEN db'[n] \in {db[n], Landed(db)[n]}
            ELSE \A i \in of :
                /\ \/ db'[n].email = writing[i].email
                   \/ stays(writing[i].email, loaded[n].email)
                /\ \/ {db'[n].manager, db'[n].edge} = {writing[i].manager}
                   \/ stays(writing[i].manager, loaded[n].manager)
                /\ db'[n].gone => n \in overtaken]_vars

\* The structure when the rows before i have been moved.
HalfWay(d, rows, i) ==
    [n \in Number |->
        IF \E j \in DOMAIN rows : j < i /\ rows[j].number = n
        THEN Combined(d, rows)[n] ELSE Edges(d)[n]]

\* Where nobody else writes and nothing is due, rows that pass the check are
\* refused on the way only for their order or for somebody who has left: the new
\* manager is under the employee by way of somebody whom a later row moves away,
\* or of somebody departed, whom the check does not look at.
RaisesOnlyForTheOrder ==
    [][Raises /\ alone /\ Acyclic(Edges(db)) =>
        /\ MoveRefused
        /\ \E between \in Number :
            LET g == HalfWay(db, writing, at) IN
            /\ IsDescendant(g, writing[at].manager, between)
            /\ IsDescendant(g, between, writing[at].number)
            /\ \/ between \notin Present(Seen)
               \/ \E j \in DOMAIN writing :
                    at < j /\ writing[j].number = between /\ g[between] # writing[j].manager]_vars

\* Every row that is marked is a row of the table, unless two files were loaded
\* at once: the verdict on one file is then put under the rows of the other.
MarksAreInTheTable == ~crowded => issues \subseteq DOMAIN table

\* The cells of rows.
Spelled(rows) ==
    [i \in DOMAIN rows |->
        <<Spelling[rows[i].number], Spelling[rows[i].email], Spelling[rows[i].manager]>>]

Cleaned(cells) == [k \in DOMAIN cells |-> [i \in DOMAIN cells[k] |-> Trimmed(cells[k][i])]]

\* Tables of which the server reads something else than the page has sent.
Misread ==
    {rows \in File :
        Served(Printed(Spelled(rows))) # [refused |-> FALSE, rows |-> Cleaned(Spelled(rows))]}

\* Tables of which the page reads something else than it has saved, save that it
\* leaves out rows of nothing but blanks.
Misloaded ==
    {rows \in File : Imported(Printed(Spelled(rows))) # Cleaned(Filled(Spelled(rows)))}

\* Whatever its cells say, of a table that is sent to be checked or written the
\* server reads every row, in its place, so that its verdicts are about the rows
\* they are put under; and a file that "Download edits" has saved is loaded as it
\* was.  Blanks around a cell are all that is lost.
TextsAreRead ==
    [][/\ \A c \in checks' \ checks : c.rows \notin Misread
       /\ writing' = writing \/ writing' \notin Misread
       /\ \A f \in FileChoice : LoadFile(f) => f \notin Misloaded]_vars
=============================================================================
