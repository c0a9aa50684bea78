--------------------------- MODULE EmployeeEditor ---------------------------
(***************************************************************************)
(* The edit sheet against a server that others write to as well.  A save   *)
(* is a PATCH under If-Match and, when another manager was picked, a PUT   *)
(* of the manager under the version the PATCH answered with.  A PATCH that *)
(* is answered with 409 makes the client read the record again and show a  *)
(* dialog: keep mine, or use theirs.                                       *)
(*                                                                         *)
(* The sheet has two hosts.  The list gives it the record the user clicked *)
(* on; the drawer of the chart gives it a new object for the record at     *)
(* every render, which the sheet's effect takes for another record.        *)
(*                                                                         *)
(* The fields of the form are one value, `email`, of which the server      *)
(* refuses one that somebody else has, with 409 as well.  Sync is left to  *)
(* VersionedEdits.                                                         *)
(***************************************************************************)
EXTENDS Integers, ReportingGraph

CONSTANTS
    Email,       \* values of the form
    Slot,        \* saves that can be under way at once
    Host,        \* hosts of the sheet that are checked
    Nothing,     \* no record, no conflict, no value
    MaxVersion   \* bound: others stop at this version, saves after it

ASSUME HostAssumption == Host \subseteq {"list", "drawer"}
ASSUME VersionAssumption == MaxVersion \in Nat \ {0}

VARIABLES
    host,
    row,      \* the server's records
    listed,   \* the records as the page last read them
    sheet,    \* the state of EditEmployeeSheet
    save,     \* submitWithVersion, once for every call under way
    left      \* ghost: a sheet was closed with a save of it under way

vars == <<host, row, listed, sheet, save, left>>

Version == 1 .. MaxVersion + 2 * Cardinality(Slot)

Record == [version : Version, email : Email, manager : ManagerOrNone]

Sheet ==
    [who      : Employee \cup {Nothing},
     open     : BOOLEAN,
     read     : Record \cup {Nothing},       \* the employee of the props
     version  : Version,
     of       : Employee \cup {Nothing},     \* ghost: whose version it is
     manager  : ManagerOrNone,               \* managerId
     picked   : BOOLEAN,                     \* ghost: by the user, for this record
     email    : Email \cup {Nothing},        \* the form
     values   : Employee \X Email \cup {Nothing},  \* what the form was last given
     conflict : [of : Employee, version : Version, email : Email] \cup {Nothing}]

NoSheet == [who |-> Nothing, open |-> FALSE, read |-> Nothing, version |-> 1,
            of |-> Nothing, manager |-> NoManager, picked |-> FALSE,
            email |-> Nothing, values |-> Nothing, conflict |-> Nothing]

Idle == [step |-> "none", who |-> Nothing, version |-> 1, of |-> Nothing,
         email |-> Nothing, manager |-> NoManager, picked |-> FALSE, moves |-> FALSE]

Save ==
    [step : {"none", "patch", "reread", "put"}, who : Employee \cup {Nothing},
     version : Version, of : Employee \cup {Nothing}, email : Email \cup {Nothing},
     manager : ManagerOrNone, picked : BOOLEAN, moves : BOOLEAN]

Unique(r) == \A d, e \in Employee : d # e => r[d].email # r[e].email

Managers(r) == [e \in Employee |-> r[e].manager]

TypeOK ==
    /\ host \in Host
    /\ row \in [Employee -> Record] /\ Unique(row) /\ Acyclic(Managers(row))
    /\ listed \in [Employee -> Record]
    /\ sheet \in Sheet
    /\ save \in [Slot -> Save]
    /\ left \in BOOLEAN

Init ==
    /\ host \in Host
    /\ \E g \in {f \in Structure : Acyclic(f)}, m \in [Employee -> Email] :
        /\ row = [e \in Employee |-> [version |-> 1, email |-> m[e], manager |-> g[e]]]
        /\ Unique(row)
    /\ listed = row
    /\ sheet = NoSheet
    /\ save = [s \in Slot |-> Idle]
    /\ left = FALSE

-----------------------------------------------------------------------------
(* The server. *)

Free(e, email) == \A d \in Employee \ {e} : row[d].email # email

\* What the server answers a PATCH with.
Accepts(e, version, email) == row[e].version = version /\ Free(e, email)

Patched(e, email) == [row EXCEPT ![e].email = email, ![e].version = @ + 1]

\* reassign: not to the manager in force, and not into the own branch.
MoveAccepted(e, version, m) ==
    /\ row[e].version = version
    /\ row[e].manager # m
    /\ Acyclic([Managers(row) EXCEPT ![e] = m])

Moved(e, m) == [row EXCEPT ![e].manager = m, ![e].version = @ + 1]

OthersEdit(e, email) ==
    /\ row[e].version < MaxVersion
    /\ Free(e, email)
    /\ row' = Patched(e, email)
    /\ UNCHANGED <<host, listed, sheet, save, left>>

OthersMove(e, m) ==
    /\ row[e].version < MaxVersion
    /\ MoveAccepted(e, row[e].version, m)
    /\ row' = Moved(e, m)
    /\ UNCHANGED <<host, listed, sheet, save, left>>

-----------------------------------------------------------------------------
(* The sheet. *)

\* MUTANT of Given: the version is only set when the sheet is first shown.
GivenOnce(e, r) ==
    [sheet EXCEPT !.who = e, !.read = r, !.of = IF @ = Nothing THEN e ELSE @,
                  !.version = IF sheet.of = Nothing THEN r.version ELSE @,
                  !.manager = r.manager, !.picked = FALSE, !.conflict = Nothing,
                  !.email = IF sheet.values = <<e, r.email>> THEN @ ELSE r.email,
                  !.values = <<e, r.email>>]

\* The sheet is given a record: its effect takes over version and manager, and
\* the form is reset if it was last given other values.
Given(e, r) ==
    [sheet EXCEPT !.who = e, !.read = r, !.version = r.version, !.of = e,
                  !.manager = r.manager, !.picked = FALSE, !.conflict = Nothing,
                  !.email = IF sheet.values = <<e, r.email>> THEN @ ELSE r.email,
                  !.values = <<e, r.email>>]

Open(e) ==
    /\ ~sheet.open /\ sheet.conflict = Nothing
    /\ sheet' = [Given(e, listed[e]) EXCEPT !.open = TRUE]
    /\ UNCHANGED <<host, row, listed, save, left>>

\* The page reads its records again.  The drawer renders the sheet anew.
Refresh ==
    /\ listed' = row
    /\ sheet' = IF host = "drawer" /\ sheet.who # Nothing
                THEN Given(sheet.who, row[sheet.who]) ELSE sheet
    /\ UNCHANGED <<host, row, save, left>>

\* onOpenChange(false): the list forgets the record, and with it what the next
\* one replaces before it is used; the drawer keeps it and renders the sheet anew.
Closed ==
    IF host = "list" \/ sheet.who = Nothing
    THEN [NoSheet EXCEPT !.email = sheet.email, !.values = sheet.values,
                         !.conflict = sheet.conflict]
    ELSE [Given(sheet.who, listed[sheet.who]) EXCEPT !.open = FALSE]

Leaves(saves) == left' = (left \/ \E s \in Slot : saves[s].step # "none")

Cancel ==
    /\ sheet.open /\ sheet.conflict = Nothing
    /\ sheet' = Closed
    /\ Leaves(save)
    /\ UNCHANGED <<host, row, listed, save>>

Type(email) ==
    /\ sheet.open /\ sheet.conflict = Nothing
    /\ sheet' = [sheet EXCEPT !.email = email]
    /\ UNCHANGED <<host, row, listed, save, left>>

\* Whom the picker does not offer: the branch of the employee, once it has been
\* read; the employee alone, if it could not be; before that, nobody.
Excluded(e, g, answer) ==
    CASE answer = "read"    -> {d \in Employee : IsDescendant(g, d, e)}
      [] answer = "failed"  -> {e}
      [] answer = "pending" -> {}

Pick(m) ==
    /\ sheet.open /\ sheet.conflict = Nothing
    /\ \E answer \in {"read", "failed", "pending"} :
        m \notin Excluded(sheet.who, Managers(listed), answer)
    /\ sheet' = [sheet EXCEPT !.manager = m, !.picked = TRUE]
    /\ UNCHANGED <<host, row, listed, save, left>>

Pending == \E s \in Slot : save[s].step = "patch"

\* MUTANT of Sends: the picked manager is compared with what the page has by now.
SendsComparedLate(s, version, of) ==
    /\ ~Pending
    /\ save[s].step = "none"
    /\ \A e \in Employee : row[e].version <= MaxVersion
    /\ save' = [save EXCEPT ![s] =
           [step |-> "patch", who |-> sheet.who, version |-> version, of |-> of,
            email |-> sheet.email, manager |-> sheet.manager, picked |-> sheet.picked,
            moves |-> sheet.manager # listed[sheet.who].manager]]

\* submitWithVersion, of what the sheet holds at this moment.
Sends(s, version, of) ==
    /\ ~Pending
    /\ save[s].step = "none"
    /\ \A e \in Employee : row[e].version <= MaxVersion
    /\ save' = [save EXCEPT ![s] =
           [step |-> "patch", who |-> sheet.who, version |-> version, of |-> of,
            email |-> sheet.email, manager |-> sheet.manager, picked |-> sheet.picked,
            moves |-> sheet.manager # sheet.read.manager]]

Submit(s) ==
    /\ sheet.open /\ sheet.conflict = Nothing
    /\ Sends(s, sheet.version, sheet.of)
    /\ UNCHANGED <<host, row, listed, sheet, left>>

-----------------------------------------------------------------------------
(* The dialog. *)

KeepMine(s) ==
    /\ sheet.conflict # Nothing /\ sheet.who # Nothing
    /\ Sends(s, sheet.conflict.version, sheet.conflict.of)
    /\ UNCHANGED <<host, row, listed, sheet, left>>

\* The form is reset to their values, the picked manager stays.
UseTheirs ==
    /\ sheet.conflict # Nothing
    /\ sheet' = [sheet EXCEPT !.email = sheet.conflict.email,
                              !.version = sheet.conflict.version,
                              !.of = sheet.conflict.of,
                              !.conflict = Nothing]
    /\ UNCHANGED <<host, row, listed, save, left>>

DismissConflict ==
    /\ sheet.conflict # Nothing
    /\ sheet' = [sheet EXCEPT !.conflict = Nothing]
    /\ UNCHANGED <<host, row, listed, save, left>>

-----------------------------------------------------------------------------
(* A save under way. *)

\* It is over and closes the sheet, whichever is open by now.
Finishes(s) ==
    /\ save' = [save EXCEPT ![s] = Idle]
    /\ sheet' = [Closed EXCEPT !.conflict = Nothing]
    /\ Leaves(save')

Ends(s) ==
    /\ save' = [save EXCEPT ![s] = Idle]
    /\ UNCHANGED <<sheet, left>>

PatchAccepted(s) ==
    LET r == save[s] IN
    /\ r.step = "patch"
    /\ Accepts(r.who, r.version, r.email)
    /\ row' = Patched(r.who, r.email)
    /\ \/ /\ r.moves
          /\ save' = [save EXCEPT ![s].step = "put", ![s].version = row'[r.who].version]
          /\ UNCHANGED <<sheet, left>>
       \/ ~r.moves /\ Finishes(s)
       \/ \* the answer is lost: "The record is unchanged."
          Ends(s)
    /\ UNCHANGED <<host, listed>>

\* A stale version or an address that is taken: 409, and VersionConflict.
PatchRefused(s) ==
    LET r == save[s] IN
    /\ r.step = "patch"
    /\ ~Accepts(r.who, r.version, r.email)
    /\ save' = [save EXCEPT ![s].step = "reread"]
    /\ UNCHANGED <<host, row, listed, sheet, left>>

SaveLost(s) ==
    /\ save[s].step \in {"patch", "reread"}
    /\ Ends(s)
    /\ UNCHANGED <<host, row, listed>>

\* The record is read again and the dialog opens.
ShowConflict(s) ==
    LET e == save[s].who IN
    /\ save[s].step = "reread"
    /\ save' = [save EXCEPT ![s] = Idle]
    /\ sheet' = [sheet EXCEPT !.conflict =
                     [of |-> e, version |-> row[e].version, email |-> row[e].email]]
    /\ UNCHANGED <<host, row, listed, left>>

\* Refused or not, the sheet closes: "Saved the other changes, but ...".
Put(s) ==
    LET r == save[s] IN
    /\ r.step = "put"
    /\ \/ MoveAccepted(r.who, r.version, r.manager) /\ row' = Moved(r.who, r.manager)
       \/ UNCHANGED row
    /\ Finishes(s)
    /\ UNCHANGED <<host, listed>>

-----------------------------------------------------------------------------
SaveStep(s) ==
    \/ PatchAccepted(s) \/ PatchRefused(s) \/ SaveLost(s) \/ ShowConflict(s) \/ Put(s)

UserStep ==
    \/ \E e \in Employee : Open(e)
    \/ Cancel
    \/ \E v \in Email : Type(v)
    \/ \E m \in ManagerOrNone : Pick(m)
    \/ \E s \in Slot : Submit(s) \/ KeepMine(s)
    \/ UseTheirs \/ DismissConflict

Next ==
    \/ UserStep
    \/ Refresh
    \/ \E s \in Slot : SaveStep(s)
    \/ \E e \in Employee, v \in Email : OthersEdit(e, v)
    \/ \E e \in Employee, m \in ManagerOrNone : OthersMove(e, m)

Spec == Init /\ [][Next]_vars

-----------------------------------------------------------------------------
(* Properties. *)

\* "Choose which version to keep": a save overwrites only a version of that
\* very record that the user was shown, in the sheet or in the dialog.  Not so
\* once a sheet was closed with its save under way: the conflict then opens over
\* the sheet of somebody else and hands it another record's version.
SavedOverSeen ==
    [][\A s \in Slot : PatchAccepted(s) /\ ~left => save[s].of = save[s].who]_vars

\* A save moves an employee only to a manager the user picked for them; a move
\* that others made in the meantime is not undone by keeping one's own fields.
MovesOnlyWhatWasPicked ==
    [][\A s \in Slot : Put(s) => save[s].picked]_vars

\* "This record changed since you opened it": the dialog shows a version other
\* than the one in the sheet.  An address that is taken opens it as well.
ConflictShowsAChange ==
    sheet.conflict # Nothing /\ ~left => sheet.conflict.version # sheet.version
=============================================================================
