---------------------------- MODULE EmployeeList ----------------------------
(***************************************************************************)
(* The employee list.  What it asks for is in the address: a search, a     *)
(* filter on the salary, an order, a page, and whether the deleted are     *)
(* meant.  The search box writes to the address after a pause and is       *)
(* written by it.  Rows of the last question stay until the next is        *)
(* answered.  From a row, or from the button on top, one employee is       *)
(* deleted, restored or created.                                           *)
(*                                                                         *)
(* Any question may have been asked before and be answered from the cache, *)
(* with what held at a moment since the page was opened.  After a change   *)
(* of its own the page asks again for whatever was read before the change, *)
(* save what it is just asking for: a question that has no answer yet, or  *)
(* one it has turned away from, is left alone, and its answer is taken for *)
(* a new one (TanStack Query).                                             *)
(***************************************************************************)
EXTENDS Integers, Sequences, FiniteSets, SequencesExt

CONSTANTS
    Staff,     \* employees are 1 .. Staff, in the order of the list
    Term,      \* searches
    NoTerm,    \* the empty search
    Hits,      \* whom a search finds
    Paid,      \* whose salary the filter admits
    Under,     \* who is in whose branch
    PageSize,
    Policy,    \* deletion policies besides reparent
    Nothing,   \* no rows, no request
    FirstRoster, \* bound: rosters at first
    MaxMoments \* bound: states the roster goes through

Person == 1 .. Staff
Query == Term \cup {NoTerm}

ASSUME SizeAssumption == Staff \in Nat /\ PageSize \in Nat \ {0} /\ MaxMoments \in Nat
ASSUME HitsAssumption == Hits \in [Query -> SUBSET Person] /\ Hits[NoTerm] = Person
ASSUME PaidAssumption == Paid \subseteq Person
ASSUME RosterAssumption == FirstRoster \subseteq [Person -> {"absent", "active", "deleted"}]
ASSUME UnderAssumption == Under \in [Person -> SUBSET Person]

VARIABLES
    admin,    \* the user is hr_admin
    roster,   \* the server's employees
    url,      \* the address: EmployeesViewState
    box,      \* searchInput
    typed,    \* debouncedSearch
    applied,  \* lastAppliedQRef
    crossed,  \* ghost: a search was typed back before the pause was over
    shown,    \* what the query of the address gives to show
    last,     \* keepPreviousData: the rows last read
    asked,    \* rosters there were since the request in flight was sent
    away,     \* rosters there were since the requests in flight for other
              \* addresses were sent, of all of them together
    seen,     \* rosters there were since the page was opened
    fresh,    \* and since its own last change
    missed,   \* rosters before it, in the answers to what was left alone
    dialog,   \* the dialog that is open
    sending   \* the change that is under way

address == <<url, box, typed, applied, crossed>>
reading == <<shown, last, asked, away>>
history == <<seen, fresh, missed>>
vars == <<admin, roster, address, reading, history, dialog, sending>>

Roster == [Person -> {"absent", "active", "deleted"}]
Address == [q : Query, paid : BOOLEAN, sort : {"last_name", "salary"},
            page : 1 .. Staff + 1, deleted : BOOLEAN]
Rows == UNION {[1 .. n -> Person] : n \in 0 .. PageSize}
Shown == [held : {"nothing", "kept", "answer", "error"}, failed : {"no", "lost", "denied"}]
Choice == Policy \cup {"reparent"}
NoDialog == [kind |-> "none", who |-> 1, policy |-> "reparent", picked |-> "reparent"]

TypeOK ==
    /\ admin \in BOOLEAN
    /\ roster \in Roster
    /\ url \in Address
    /\ {box, typed, applied} \subseteq Query /\ crossed \in BOOLEAN
    /\ shown \in Shown
    /\ last \in [rows : Rows, total : 0 .. Staff] \cup {Nothing}
    /\ shown.held \in {"kept", "answer"} => last # Nothing
    /\ asked \cup away \subseteq seen /\ fresh \cup missed \subseteq seen
    /\ roster \in fresh /\ seen \subseteq Roster
    /\ dialog \in [kind : {"none", "create", "delete", "restore"}, who : Person,
                   policy : Choice, picked : Choice]
    /\ sending \in [kind : {"create", "delete", "restore"}, who : Person, policy : Choice,
                    answer : {"none", "ok", "error"}] \cup {Nothing}

-----------------------------------------------------------------------------
(* What the server answers, and what the address asks. *)

Denied(u) == ~admin /\ (u.paid \/ u.sort = "salary")

Answer(u, r) ==
    LET found == {p \in Hits[u.q] : r[p] = (IF u.deleted THEN "deleted" ELSE "active")
                                    /\ (u.paid => p \in Paid)}
        all == SetToSortSeq(found, <)
        end == IF u.page * PageSize < Len(all) THEN u.page * PageSize ELSE Len(all)
    IN  [rows |-> SubSeq(all, (u.page - 1) * PageSize + 1, end),
         total |-> Len(all)]

Pages(total) == IF total = 0 THEN 1 ELSE (total + PageSize - 1) \div PageSize

Displayed ==
    IF shown.held \in {"kept", "answer"} THEN last.rows ELSE <<>>

Total == IF shown.held \in {"kept", "answer"} THEN last.total ELSE 0

\* The query of an address, when the requests of others go on: answered from the
\* cache, and read again or not, or asked for the first time.  It is read over
\* the rosters since now, or since an earlier visit whose request is in flight.
Visit(u, others) ==
    /\ away' = others
    /\ \/ \E r \in seen :
            /\ ~Denied(u)
            /\ last' = Answer(u, r)
            /\ shown' = [held |-> "answer", failed |-> "no"]
            /\ \/ asked' \in {{roster}, others} \ {{}}
               \/ r \in fresh \cup missed /\ asked' = {}
       \/ /\ shown' = [held |-> IF last = Nothing THEN "nothing" ELSE "kept", failed |-> "no"]
          /\ asked' \in {{roster}, others} \ {{}}
          /\ UNCHANGED last

\* commit: the address becomes u, and its query is the one that is shown.
Go(u, others) ==
    /\ url' = u
    /\ IF u = url THEN UNCHANGED reading ELSE Visit(u, others)

\* MUTANT of Synced: the box keeps its text.
SyncedNot(u) == applied' = u.q /\ box' = box

\* The box follows the address unless the box wrote it.
Synced(u) ==
    /\ applied' = u.q
    /\ box' = IF u.q = applied THEN box ELSE u.q

Init ==
    /\ admin \in BOOLEAN
    /\ roster \in FirstRoster
    /\ url \in [q : Query, paid : BOOLEAN, sort : {"last_name", "salary"},
                page : {1}, deleted : {FALSE}]
    /\ box = url.q /\ typed = url.q /\ applied = url.q /\ crossed = FALSE
    /\ shown = [held |-> "nothing", failed |-> "no"] /\ last = Nothing
    /\ seen = {roster} /\ fresh = {roster} /\ missed = {}
    /\ asked = {roster} /\ away = {}
    /\ dialog = NoDialog /\ sending = Nothing

-----------------------------------------------------------------------------
(* The address. *)

Type(t) ==
    /\ dialog.kind = "none"
    /\ t # box
    /\ box' = t
    /\ crossed' = (t = typed /\ url.q # t)
    /\ UNCHANGED <<admin, roster, url, typed, applied, reading, history, dialog, sending>>

\* The pause is over: the search is applied, and the page starts over.
Pause ==
    /\ typed # box
    /\ typed' = box
    /\ applied' = box
    /\ Go([url EXCEPT !.q = box, !.page = 1], away \cup asked)
    /\ crossed' = FALSE
    /\ UNCHANGED <<admin, roster, box, history, dialog, sending>>

Changes(u) ==
    /\ dialog.kind = "none"
    /\ Go(u, away \cup asked)
    /\ Synced(u)
    /\ UNCHANGED <<admin, roster, typed, crossed, history, dialog, sending>>

\* The popover, which offers the salary to an administrator.
Filter(paid) ==
    /\ paid => admin
    /\ Changes([url EXCEPT !.paid = paid, !.page = 1])

\* The chip of a filter that is on, whoever sees it.
RemoveChip == url.paid /\ Changes([url EXCEPT !.paid = FALSE, !.page = 1])

ClearAll == url.paid /\ Changes([url EXCEPT !.q = NoTerm, !.paid = FALSE, !.page = 1])

SetSort(field) ==
    /\ field = "salary" => admin
    /\ Changes([url EXCEPT !.sort = field, !.page = 1])

\* The pages with a button, and the one before the page that is shown.
PagesOffered == (1 .. Pages(Total)) \cup ({url.page - 1} \ {0})

SetPage(n) ==
    /\ n \in PagesOffered
    /\ Changes([url EXCEPT !.page = n])

SetDeleted == Changes([url EXCEPT !.deleted = ~@, !.page = 1])

\* The link of the sidebar to the page that is open.
Navigate ==
    Changes([q |-> NoTerm, paid |-> FALSE, sort |-> "last_name", page |-> 1, deleted |-> FALSE])

-----------------------------------------------------------------------------
(* Requests. *)

Arrives ==
    /\ asked # {}
    /\ ~Denied(url)
    /\ \E r \in asked : last' = Answer(url, r)
    /\ shown' = [held |-> "answer", failed |-> "no"]
    /\ asked' = {}
    /\ UNCHANGED <<admin, roster, address, away, history, dialog, sending>>

\* Those for other addresses are answered, or fail.
OthersArrive ==
    /\ away # {}
    /\ away' = {}
    /\ UNCHANGED <<admin, roster, address, shown, last, asked, history, dialog, sending>>

\* An answer that names hr_admin takes the salary out of the filter.
Refused ==
    /\ asked # {} /\ Denied(url)
    /\ LET u == [url EXCEPT !.paid = FALSE, !.page = 1] IN
        IF u = url
        THEN /\ shown' = [held |-> "error", failed |-> "denied"] /\ asked' = {}
             /\ UNCHANGED <<url, last, away>>
        ELSE Go(u, away)
    /\ UNCHANGED <<admin, roster, box, typed, applied, crossed, history, dialog, sending>>

\* The request fails for good: rows of this question that were there stay.
Fails ==
    /\ asked # {}
    /\ asked' = {}
    /\ shown' = [held |-> IF shown.held = "answer" THEN "answer" ELSE "error", failed |-> "lost"]
    /\ UNCHANGED <<admin, roster, address, last, away, history, dialog, sending>>

\* The roster changes, here or elsewhere.
Become(r) ==
    /\ r \in seen \/ Cardinality(seen) < MaxMoments
    /\ roster' = r
    /\ seen' = seen \cup {r}
    /\ fresh' = fresh \cup {r}
    /\ asked' = IF asked = {} THEN {} ELSE asked \cup {r}
    /\ away' = IF away = {} THEN {} ELSE away \cup {r}
    /\ missed' = missed \ {r}

OthersChange(p) ==
    /\ \E s \in {"active", "deleted"} :
        roster[p] # s /\ Become([roster EXCEPT ![p] = s])
    /\ UNCHANGED <<admin, address, shown, last, dialog, sending>>

-----------------------------------------------------------------------------
(* Dialogs.  The menu of a row follows the address, not the row. *)

\* MUTANT of Opens: what was picked for another employee is kept.
OpensAsBefore(kind, p) ==
    dialog' = [NoDialog EXCEPT !.kind = kind, !.who = p, !.policy = dialog.policy]

Opens(kind, p) == dialog' = [NoDialog EXCEPT !.kind = kind, !.who = p]

Ask(p) ==
    /\ admin /\ dialog.kind = "none"
    /\ p \in Range(Displayed)
    /\ Opens(IF url.deleted THEN "restore" ELSE "delete", p)
    /\ UNCHANGED <<admin, roster, address, reading, history, sending>>

AskCreate ==
    /\ admin /\ dialog.kind = "none"
    /\ Opens("create", 1)
    /\ UNCHANGED <<admin, roster, address, reading, history, sending>>

Pick(policy) ==
    /\ dialog.kind = "delete"
    /\ dialog' = [dialog EXCEPT !.policy = policy, !.picked = policy]
    /\ UNCHANGED <<admin, roster, address, reading, history, sending>>

\* The policy stays in the state of the closed dialog.
Closed(d) == [d EXCEPT !.kind = "none", !.who = 1, !.picked = "reparent"]

Close ==
    /\ dialog.kind # "none"
    /\ dialog' = Closed(dialog)
    /\ UNCHANGED <<admin, roster, address, reading, history, sending>>

\* One of the three buttons, disabled while a change of its kind is under way.
\* Bound: one change of any kind.
Confirm(p) ==
    /\ dialog.kind # "none"
    /\ dialog.kind # "create" => p = dialog.who
    /\ sending = Nothing
    /\ sending' = [kind |-> dialog.kind, who |-> p, policy |-> dialog.policy, answer |-> "none"]
    /\ UNCHANGED <<admin, roster, address, reading, history, dialog>>

\* What the server makes of it, Nothing if it refuses.
Outcome(c) ==
    CASE c.kind = "create" ->
            IF roster[c.who] = "absent" THEN [roster EXCEPT ![c.who] = "active"] ELSE Nothing
      [] c.kind = "restore" ->
            IF roster[c.who] = "absent" THEN Nothing ELSE [roster EXCEPT ![c.who] = "active"]
      [] c.kind = "delete" ->
            IF roster[c.who] # "active" THEN Nothing
            ELSE [p \in Person |->
                    IF p = c.who \/ (c.policy = "cascade" /\ p \in Under[c.who]
                                     /\ roster[p] = "active")
                    THEN "deleted" ELSE roster[p]]

Serve ==
    /\ sending # Nothing /\ sending.answer = "none"
    /\ IF Outcome(sending) = Nothing
       THEN /\ sending' = [sending EXCEPT !.answer = "error"]
            /\ UNCHANGED <<roster, history, asked, away>>
       ELSE /\ sending' = [sending EXCEPT !.answer = "ok"]
            /\ Become(Outcome(sending))
    /\ UNCHANGED <<admin, address, shown, last, dialog>>

\* A request in flight for the address that is shown, when it has no rows of its
\* own yet, or none but those kept of another.
FirstRead == asked # {} /\ shown.held # "answer"

\* MUTANT of Invalidated: the list is not read again.
InvalidatedNot == fresh' = {roster} /\ missed' = {} /\ UNCHANGED <<asked, away, shown>>

\* invalidateEmployeeViews: what is shown is read again at once, in place of a
\* request in flight; but a first one is left to finish, and so are those for
\* other addresses.
Invalidated ==
    /\ fresh' = {roster}
    /\ missed' = (away \cup (IF FirstRead THEN asked ELSE {})) \ {roster}
    /\ asked' = IF FirstRead THEN asked ELSE {roster}
    /\ UNCHANGED <<away, shown>>

\* Done: the dialog of its kind is closed, whoever it is about by now.
Succeeds ==
    /\ sending # Nothing /\ sending.answer = "ok"
    /\ sending' = Nothing
    /\ dialog' = IF dialog.kind = sending.kind THEN Closed(dialog) ELSE dialog
    /\ Invalidated
    /\ UNCHANGED <<admin, roster, address, last, seen>>

\* Refused, or the answer is lost: the dialog stays.
SendingFails ==
    /\ sending # Nothing
    /\ sending' = Nothing
    /\ UNCHANGED <<admin, roster, address, reading, history, dialog>>

-----------------------------------------------------------------------------
AddressStep ==
    \/ \E t \in Query : Type(t)
    \/ Pause
    \/ \E paid \in BOOLEAN : Filter(paid)
    \/ RemoveChip \/ ClearAll \/ SetDeleted \/ Navigate
    \/ \E field \in {"last_name", "salary"} : SetSort(field)
    \/ \E n \in 1 .. Staff + 1 : SetPage(n)

DialogStep ==
    \/ \E p \in Person : Ask(p) \/ Confirm(p)
    \/ AskCreate \/ Close
    \/ \E policy \in Choice : Pick(policy)

Next ==
    \/ AddressStep \/ DialogStep
    \/ Arrives \/ OthersArrive \/ Refused \/ Fails
    \/ Serve \/ Succeeds \/ SendingFails
    \/ \E p \in Person : OthersChange(p)

Spec == Init /\ [][Next]_vars

-----------------------------------------------------------------------------
(* Properties. *)

\* When nobody types, the box says what the list was searched for, whatever
\* cleared the search in between; save that a search which is cleared and typed
\* again within the pause stays in the box and is not applied.
BoxIsTheSearch == typed = box => url.q = box \/ crossed

\* Once the page has read what it shows, the rows are the answer to its address
\* and know of the page's own changes; save when the request that was answered
\* was left alone at the last of them, as a first one, or one of an address that
\* was not shown: such rows may be older than the change until the next one.
OwnChangesShow ==
    asked = {} /\ shown = [held |-> "answer", failed |-> "no"] =>
        \E r \in fresh \cup missed : last = Answer(url, r)

\* Nobody is deleted with another policy than reparent but the one that was
\* picked for them.
PolicyIsPicked ==
    [][\A p \in Person : Confirm(p) /\ dialog.kind = "delete" =>
        dialog.policy \in {"reparent", dialog.picked}]_vars

=============================================================================
