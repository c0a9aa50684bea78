--------------------------- MODULE WebClientProofs ---------------------------
(***************************************************************************)
(* Proofs about the pages of the client, for any number of people and of   *)
(* requests at once: the employee list, which this module extends, and the *)
(* edit sheet and the sessions, of which it takes an instance each, since  *)
(* every one has its own Init and Next.                                    *)
(***************************************************************************)
EXTENDS EmployeeList, TLAPS

\* Of the edit sheet.
CONSTANTS
    Employee, NoManager, Email, Slot, Host, MaxVersion

VARIABLES
    host, row, listed, sheet, save, left

Edit == INSTANCE EmployeeEditor

\* Of the sessions.
CONSTANTS
    Page, Call, Home, MaxIssued

VARIABLES
    stored, issued, live, login, at, call, refresh, offered, granted, ended

Auth == INSTANCE Sessions

USE SizeAssumption

-----------------------------------------------------------------------------
(* The search box. *)

\* The address holds the search the box applied last, and BoxIsTheSearch.
BoxInv ==
    /\ url \in Address
    /\ applied = url.q /\ box \in Query
    /\ BoxIsTheSearch

\* A change of the address that the box did not make.
LEMMA ChangesKeepBox ==
    ASSUME BoxInv, NEW u \in Address, Changes(u)
    PROVE  BoxInv'
<1>1. /\ url' = u /\ applied' = u.q /\ typed' = typed /\ crossed' = crossed
      /\ box' = IF u.q = applied THEN box ELSE u.q
  BY DEF Changes, Go, Synced
<1>2. u.q \in Query
  BY DEF Address
<1> QED BY <1>1, <1>2 DEF BoxInv, BoxIsTheSearch

\* Every step keeps it.
LEMMA BoxInductive ==
    ASSUME BoxInv, [Next]_vars
    PROVE  BoxInv'
<1>1. url \in Address /\ applied = url.q /\ 1 \in 1 .. Staff + 1
  BY DEF BoxInv
<1>2. /\ \A q \in Query : [url EXCEPT !.q = q, !.page = 1] \in Address
      /\ \A paid \in BOOLEAN : [url EXCEPT !.paid = paid, !.page = 1] \in Address
  BY <1>1 DEF Address
<1>3. /\ \A field \in {"last_name", "salary"} : [url EXCEPT !.sort = field, !.page = 1] \in Address
      /\ \A n \in 1 .. Staff + 1 : [url EXCEPT !.page = n] \in Address
  BY <1>1 DEF Address
<1>4. /\ [url EXCEPT !.deleted = ~@, !.page = 1] \in Address
      /\ [url EXCEPT !.q = NoTerm, !.paid = FALSE, !.page = 1] \in Address
      /\ [q |-> NoTerm, paid |-> FALSE, sort |-> "last_name", page |-> 1, deleted |-> FALSE]
             \in Address
  BY <1>1 DEF Address, Query
<1>5. ASSUME NEW t \in Query, Type(t) PROVE BoxInv'
  BY <1>1, <1>5 DEF Type, BoxInv, BoxIsTheSearch
<1>6. CASE Pause
  <2> DEFINE u == [url EXCEPT !.q = box, !.page = 1]
  <2>1. url' = u /\ applied' = box /\ box' = box
    BY <1>6 DEF Pause, Go
  <2>2. u \in Address /\ u.q = box
    BY <1>1 DEF BoxInv, Address
  <2> QED BY <2>1, <2>2 DEF BoxInv, BoxIsTheSearch
<1>7. CASE \E paid \in BOOLEAN : Filter(paid)
  BY <1>2, <1>7, ChangesKeepBox DEF Filter
<1>8. CASE RemoveChip \/ ClearAll \/ SetDeleted \/ Navigate
  BY <1>2, <1>4, <1>8, ChangesKeepBox DEF RemoveChip, ClearAll, SetDeleted, Navigate
<1>9. CASE \E field \in {"last_name", "salary"} : SetSort(field)
  BY <1>3, <1>9, ChangesKeepBox DEF SetSort
<1>10. CASE \E n \in 1 .. Staff + 1 : SetPage(n)
  BY <1>3, <1>10, ChangesKeepBox DEF SetPage
<1>11. CASE Refused
  <2>1. url' = url \/ url' = [url EXCEPT !.paid = FALSE, !.page = 1]
    BY <1>11 DEF Refused, Go
  <2>2. url' \in Address /\ url'.q = url.q
    BY <1>1, <2>1 DEF Address
  <2> QED BY <1>11, <2>2 DEF Refused, BoxInv, BoxIsTheSearch
<1>12. CASE UNCHANGED <<url, box, typed, applied, crossed>>
  BY <1>12 DEF BoxInv, BoxIsTheSearch
<1> QED BY <1>5, <1>6, <1>7, <1>8, <1>9, <1>10, <1>11, <1>12
        DEF Next, AddressStep, DialogStep, Ask, Confirm, AskCreate,
            Close, Pick, Arrives, OthersArrive, Fails, Serve, Succeeds,
            SendingFails, OthersChange, vars, address

\* BoxIsTheSearch: whatever writes the address and the box, and in whatever
\* order, the box says what was searched unless a search was typed back.
THEOREM BoxStaysTheSearch == Spec => []BoxIsTheSearch
<1>1. Init => BoxInv
  <2> SUFFICES ASSUME Init PROVE BoxInv
    OBVIOUS
  <2>1. url \in Address /\ url.q \in Query
    <3>1. url \in [q : Query, paid : BOOLEAN, sort : {"last_name", "salary"},
                   page : {1}, deleted : {FALSE}]
      BY DEF Init
    <3>2. 1 \in 1 .. Staff + 1 /\ FALSE \in BOOLEAN
      OBVIOUS
    <3> QED BY <3>1, <3>2 DEF Address
  <2> QED BY <2>1 DEF Init, BoxInv, BoxIsTheSearch
<1>2. BoxInv /\ [Next]_vars => BoxInv'
  BY BoxInductive
<1>3. BoxInv => BoxIsTheSearch
  BY DEF BoxInv
<1> QED BY <1>1, <1>2, <1>3, PTL DEF Spec

-----------------------------------------------------------------------------
(* The rows. *)

\* What is on its way will be answered with a roster since the page's last
\* change, or was left alone at it; and OwnChangesShow.
FreshInv ==
    /\ asked \cup away \subseteq fresh \cup missed
    /\ roster \in fresh
    /\ OwnChangesShow

\* An address that is gone to.
LEMMA GoKeepsFresh ==
    ASSUME FreshInv, NEW u, NEW others, others \subseteq fresh \cup missed, Go(u, others),
           UNCHANGED <<roster, fresh, missed>>
    PROVE  FreshInv'
<1>1. CASE u = url
  BY <1>1 DEF FreshInv, Go, reading, OwnChangesShow
<1>2. CASE u # url
  <2>1. url' = u /\ Visit(u, others)
    BY <1>2 DEF Go
  <2>2. away' = others /\ (asked' = {roster} \/ asked' = others \/ asked' = {})
    BY <2>1 DEF Visit
  <2>3. asked' = {} => \E r \in fresh \cup missed : last' = Answer(u, r)
    BY <2>1 DEF Visit
  <2>4. (asked \cup away)' \subseteq (fresh \cup missed)' /\ (roster \in fresh)'
    BY <2>2 DEF FreshInv
  <2>5. OwnChangesShow'
    BY <2>1, <2>3 DEF OwnChangesShow
  <2> QED BY <2>4, <2>5 DEF FreshInv
<1> QED BY <1>1, <1>2

\* Every step keeps it.
LEMMA FreshInductive ==
    ASSUME FreshInv, [Next]_vars
    PROVE  FreshInv'
<1>1. ASSUME NEW u, Changes(u) PROVE FreshInv'
  BY <1>1, GoKeepsFresh DEF Changes, history, FreshInv
<1>2. CASE AddressStep
  <2>1. CASE \E t \in Query : Type(t)
    BY <2>1 DEF Type, FreshInv, OwnChangesShow, reading, history
  <2>2. CASE Pause
    BY <2>2, GoKeepsFresh DEF Pause, history, FreshInv
  <2> QED BY <1>1, <1>2, <2>1, <2>2
          DEF AddressStep, Filter, RemoveChip, ClearAll, SetDeleted,
              Navigate, SetSort, SetPage
<1>3. CASE Refused
  <2> DEFINE u == [url EXCEPT !.paid = FALSE, !.page = 1]
  <2>1. CASE u = url
    <3>1. shown'.held = "error" /\ asked' = {} /\ UNCHANGED <<roster, fresh, missed, away>>
      BY <1>3, <2>1 DEF Refused, history
    <3> QED BY <3>1 DEF FreshInv, OwnChangesShow
  <2>2. CASE u # url
    BY <1>3, <2>2, GoKeepsFresh DEF Refused, history, FreshInv
  <2> QED BY <2>1, <2>2
<1>4. CASE Arrives
  <2>1. /\ \E r \in asked : last' = Answer(url, r)
        /\ asked' = {} /\ UNCHANGED <<roster, fresh, missed, away, url>>
    BY <1>4 DEF Arrives, address, history
  <2> QED BY <2>1 DEF FreshInv, OwnChangesShow
<1>5. CASE Fails
  <2>1. asked' = {} /\ shown'.failed = "lost" /\ UNCHANGED <<roster, fresh, missed, away>>
    BY <1>5 DEF Fails, history
  <2> QED BY <2>1 DEF FreshInv, OwnChangesShow
<1>6. ASSUME NEW r, Become(r), UNCHANGED <<url, shown, last>> PROVE FreshInv'
  <2>1. /\ roster' = r /\ fresh' = fresh \cup {r}
        /\ asked' = {} => asked = {}
        /\ asked' \subseteq asked \cup {r} /\ away' \subseteq away \cup {r}
        /\ missed' = missed \ {r}
    BY <1>6 DEF Become
  <2> QED BY <1>6, <2>1 DEF FreshInv, OwnChangesShow
<1>7. CASE UNCHANGED <<roster, fresh, missed, asked, shown, last, url>> /\ away' \in {away, {}}
  BY <1>7 DEF FreshInv, OwnChangesShow
<1>8. CASE Serve
  BY <1>6, <1>7, <1>8 DEF Serve, address, history
<1>9. CASE \E p \in Person : OthersChange(p)
  BY <1>6, <1>9 DEF OthersChange, address
<1>10. CASE Succeeds
  <2>1. /\ fresh' = {roster} /\ roster' = roster /\ UNCHANGED <<away, shown, last, url>>
        /\ missed' = (away \cup (IF FirstRead THEN asked ELSE {})) \ {roster}
        /\ asked' = IF FirstRead THEN asked ELSE {roster}
    BY <1>10 DEF Succeeds, Invalidated, address
  <2> QED BY <2>1 DEF FirstRead, FreshInv, OwnChangesShow
<1>11. CASE DialogStep \/ SendingFails \/ OthersArrive \/ UNCHANGED vars
  BY <1>7, <1>11 DEF DialogStep, Ask, Confirm, AskCreate, Close, Pick,
     SendingFails, OthersArrive, vars, address, reading, history
<1> QED BY <1>2, <1>3, <1>4, <1>5, <1>8, <1>9, <1>10, <1>11 DEF Next

\* OwnChangesShow: rows that have been read know of the page's own changes,
\* whatever was in the cache or on its way when they were made; unless they
\* answer a request that was left alone at the last one.
THEOREM OwnChangesAlwaysShow == Spec => []OwnChangesShow
<1>1. Init => FreshInv
  BY DEF Init, FreshInv, OwnChangesShow
<1>2. FreshInv /\ [Next]_vars => FreshInv'
  BY FreshInductive
<1>3. FreshInv => OwnChangesShow
  BY DEF FreshInv
<1> QED BY <1>1, <1>2, <1>3, PTL DEF Spec

-----------------------------------------------------------------------------
(* The deletion dialog. *)

\* A deletion dialog that is open holds reparent or what was picked in it.
PolicyInv ==
    /\ dialog \in [kind : {"none", "create", "delete", "restore"}, who : Nat,
                   policy : Choice, picked : Choice]
    /\ dialog.kind = "delete" => dialog.policy \in {"reparent", dialog.picked}

\* Every step keeps it.
LEMMA PolicyInductive ==
    ASSUME PolicyInv, [Next]_vars
    PROVE  PolicyInv'
<1> DEFINE Dialogs == [kind : {"none", "create", "delete", "restore"}, who : Nat,
                       policy : Choice, picked : Choice]
<1>1. ASSUME NEW kind \in {"create", "delete", "restore"}, NEW p \in Nat, Opens(kind, p)
      PROVE  PolicyInv'
  BY <1>1 DEF Opens, NoDialog, PolicyInv, Choice
<1>2. Person \subseteq Nat /\ 1 \in Nat /\ dialog \in Dialogs
  BY DEF Person, PolicyInv
<1>3. CASE dialog' = Closed(dialog)
  BY <1>2, <1>3 DEF Closed, PolicyInv, Choice
<1>4. CASE UNCHANGED dialog
  BY <1>4 DEF PolicyInv
<1>5. CASE \E policy \in Choice : Pick(policy)
  <2>1. PICK policy \in Choice : dialog' = [dialog EXCEPT !.policy = policy, !.picked = policy]
    BY <1>5 DEF Pick
  <2> QED BY <1>2, <2>1 DEF PolicyInv
<1>6. CASE \E p \in Person : Ask(p)
  BY <1>1, <1>2, <1>6 DEF Ask
<1>7. CASE AskCreate
  BY <1>1, <1>2, <1>7 DEF AskCreate
<1>8. CASE AddressStep \/ Refused
  BY <1>4, <1>8
     DEF AddressStep, Type, Pause, Filter, RemoveChip, ClearAll,
         SetDeleted, Navigate, SetSort, SetPage, Changes, Refused
<1> QED BY <1>3, <1>4, <1>5, <1>6, <1>7, <1>8
        DEF Next, DialogStep, Close, Confirm, Arrives, OthersArrive, Fails,
            Serve, Succeeds, SendingFails, OthersChange, vars

\* PolicyIsPicked: nobody is deleted by a policy that was picked for somebody
\* else, however dialogs are opened, closed and answered.
THEOREM PolicyStaysPicked == Spec => PolicyIsPicked
<1>1. Init => PolicyInv
  BY DEF Init, PolicyInv, NoDialog, Choice, Person
<1>2. PolicyInv /\ [Next]_vars => PolicyInv'
  BY PolicyInductive
<1>3. PolicyInv /\ [Next]_vars =>
          [\A p \in Person : Confirm(p) /\ dialog.kind = "delete" =>
              dialog.policy \in {"reparent", dialog.picked}]_vars
  BY DEF PolicyInv
<1> QED BY <1>1, <1>2, <1>3, PTL DEF Spec, PolicyIsPicked

-----------------------------------------------------------------------------
(* The edit sheet. *)

\* Types that do not bound the versions.
Records == [version : Nat, email : Email \cup {Nothing}, manager : Edit!ManagerOrNone]

Sheets ==
    [who : Employee \cup {Nothing}, open : BOOLEAN, read : Records \cup {Nothing},
     version : Nat, of : Employee \cup {Nothing}, manager : Edit!ManagerOrNone,
     picked : BOOLEAN, email : Email \cup {Nothing},
     values : (Employee \X (Email \cup {Nothing})) \cup {Nothing},
     conflict : [of : Employee, version : Nat, email : Email \cup {Nothing}] \cup {Nothing}]

Saves ==
    [step : {"none", "patch", "reread", "put"}, who : Employee \cup {Nothing},
     version : Nat, of : Employee \cup {Nothing}, email : Email \cup {Nothing},
     manager : Edit!ManagerOrNone, picked : BOOLEAN, moves : BOOLEAN]

\* A sheet with somebody in it has their record, and another manager than the
\* record's only if one was picked.
Filled(h) ==
    (h.open \/ h.who # Nothing) =>
        /\ h.who \in Employee
        /\ h.read \in Records
        /\ ~h.picked => h.manager = h.read.manager

\* A save under way is of somebody, and goes on to a move only if one was picked.
Filed(r) ==
    r.step # "none" =>
        /\ r.who \in Employee
        /\ r.moves => r.picked
        /\ r.step = "put" => r.moves

\* Everything under way is of whom the open sheet shows.
InHand ==
    /\ \A s \in Slot : save[s].step # "none" =>
           save[s].of = save[s].who /\ save[s].who = sheet.who /\ sheet.open
    /\ sheet.conflict # Nothing => sheet.conflict.of = sheet.who /\ sheet.open
    /\ sheet.open => sheet.of = sheet.who

EditTypes ==
    /\ row \in [Employee -> Records]
    /\ listed \in [Employee -> Records]
    /\ sheet \in Sheets
    /\ save \in [Slot -> Saves]
    /\ left \in BOOLEAN

EditInv ==
    /\ EditTypes
    /\ Filled(sheet)
    /\ \A s \in Slot : Filed(save[s])
    /\ ~left => InHand

\* A sheet h that was given the record r of e.
Shows(h, e, r) ==
    /\ h \in Sheets /\ h.who = e /\ h.open = sheet.open /\ h.read = r
    /\ h.of = e /\ h.manager = r.manager /\ h.picked = FALSE /\ h.conflict = Nothing

\* What the sheet's effect makes of the record of somebody.
LEMMA GivenSheet ==
    ASSUME EditInv
    PROVE  \A e \in Employee, r \in Records : Shows(Edit!Given(e, r), e, r)
<1> SUFFICES ASSUME NEW e \in Employee, NEW r \in Records
             PROVE  Shows(Edit!Given(e, r), e, r)
  OBVIOUS
<1> DEFINE v == <<e, r.email>>
           m == IF sheet.values = v THEN sheet.email ELSE r.email
<1>1. /\ sheet \in Sheets /\ r.version \in Nat /\ r.manager \in Edit!ManagerOrNone
      /\ r.email \in Email \cup {Nothing}
  BY DEF EditInv, EditTypes, Records
<1>2. v \in Employee \X (Email \cup {Nothing}) /\ m \in Email \cup {Nothing}
  BY <1>1 DEF Sheets
<1> HIDE DEF v, m
<1>3. Edit!Given(e, r) =
          [sheet EXCEPT !.who = e, !.read = r, !.version = r.version, !.of = e,
                        !.manager = r.manager, !.picked = FALSE, !.conflict = Nothing,
                        !.email = m, !.values = v]
  BY DEF Edit!Given, m, v
<1> QED BY <1>1, <1>2, <1>3 DEF Sheets, Shows

\* What is left of the sheet once it is closed.
LEMMA ClosedSheet ==
    ASSUME EditInv
    PROVE  LET h == Edit!Closed
           IN  /\ h \in Sheets /\ Filled(h) /\ h.open = FALSE
               /\ h.conflict = sheet.conflict \/ h.conflict = Nothing
<1>1. CASE host = "list" \/ sheet.who = Nothing
  <2> DEFINE h == [Edit!NoSheet EXCEPT !.email = sheet.email, !.values = sheet.values,
                                       !.conflict = sheet.conflict]
  <2>1. Edit!Closed = h
    BY <1>1 DEF Edit!Closed
  <2>2. /\ h \in Sheets /\ h.open = FALSE /\ h.who = Nothing
        /\ h.conflict = sheet.conflict
    BY DEF Edit!NoSheet, EditInv, EditTypes, Sheets, Edit!ManagerOrNone
  <2> HIDE DEF h
  <2> QED BY <2>1, <2>2 DEF Filled
<1>2. CASE ~(host = "list" \/ sheet.who = Nothing)
  <2>1. sheet.who \in Employee /\ listed[sheet.who] \in Records
    BY <1>2 DEF EditInv, EditTypes, Sheets
  <2> DEFINE e == sheet.who
             r == listed[sheet.who]
             g == Edit!Given(e, r)
             h == [g EXCEPT !.open = FALSE]
  <2> HIDE DEF e, r
  <2>2. /\ g \in Sheets /\ g.who = e /\ g.read = r
        /\ g.manager = r.manager /\ g.conflict = Nothing
    <3>1. e \in Employee /\ r \in Records
      BY <2>1 DEF e, r
    <3>2. Shows(Edit!Given(e, r), e, r)
      BY <3>1, GivenSheet
    <3> QED BY <3>2 DEF Shows
  <2>3. Edit!Closed = h
    BY <1>2 DEF Edit!Closed, e, r
  <2> HIDE DEF g
  <2>4. /\ h \in Sheets /\ h.open = FALSE /\ h.who = e
        /\ h.read = r /\ h.manager = r.manager /\ h.conflict = Nothing
    BY <2>2 DEF Sheets
  <2> HIDE DEF h
  <2>5. e \in Employee /\ r \in Records
    BY <2>1 DEF e, r
  <2> QED BY <2>3, <2>4, <2>5 DEF Filled
<1> QED BY <1>1, <1>2

\* A save that is over.
LEMMA SaveOver ==
    ASSUME EditInv, NEW s \in Slot, save' = [save EXCEPT ![s] = Edit!Idle]
    PROVE  /\ save' \in [Slot -> Saves]
           /\ \A t \in Slot : Filed(save'[t])
           /\ save'[s].step = "none"
           /\ \A t \in Slot \ {s} : save'[t] = save[t]
<1>1. Edit!Idle.step = "none"
  BY DEF Edit!Idle
<1>2. 1 \in Nat /\ Edit!Idle \in Saves
  BY DEF Edit!Idle, Saves, Edit!ManagerOrNone
<1>3. save \in [Slot -> Saves] /\ \A t \in Slot : Filed(save[t])
  BY DEF EditInv, EditTypes
<1> QED BY <1>1, <1>2, <1>3 DEF Filed

\* One that is sent takes what the sheet holds.
LEMMA SendsFiled ==
    ASSUME EditInv, sheet.open \/ sheet.who # Nothing, NEW s \in Slot, NEW version \in Nat,
           NEW of \in Employee \cup {Nothing}, Edit!Sends(s, version, of)
    PROVE  /\ save' \in [Slot -> Saves]
           /\ \A t \in Slot : Filed(save'[t])
           /\ save'[s].of = of /\ save'[s].who = sheet.who
           /\ \A t \in Slot \ {s} : save'[t] = save[t]
<1> DEFINE r == [step |-> "patch", who |-> sheet.who, version |-> version, of |-> of,
                 email |-> sheet.email, manager |-> sheet.manager, picked |-> sheet.picked,
                 moves |-> sheet.manager # sheet.read.manager]
<1>1. sheet \in Sheets /\ Filled(sheet)
  BY DEF EditInv, EditTypes
<1>2. r \in Saves /\ r.of = of /\ r.who = sheet.who
  BY <1>1 DEF Saves, Sheets
<1>3. Filed(r)
  BY <1>1 DEF Filed, Filled, Sheets
<1>4. save' = [save EXCEPT ![s] = r]
  BY DEF Edit!Sends
<1>5. save \in [Slot -> Saves] /\ \A t \in Slot : Filed(save[t])
  BY DEF EditInv, EditTypes
<1> HIDE DEF r
<1> QED BY <1>2, <1>3, <1>4, <1>5

\* A save that finishes closes the sheet.
LEMMA FinishesKeeps ==
    ASSUME EditInv, NEW s \in Slot, save[s].step # "none", Edit!Finishes(s)
    PROVE  /\ save' \in [Slot -> Saves] /\ \A t \in Slot : Filed(save'[t])
           /\ sheet' \in Sheets /\ Filled(sheet')
           /\ left' \in BOOLEAN
           /\ ~left' => InHand'
<1> DEFINE h == [Edit!Closed EXCEPT !.conflict = Nothing]
<1>1. h \in Sheets /\ Filled(h) /\ h.open = FALSE /\ h.conflict = Nothing
  <2> DEFINE g == Edit!Closed
  <2>1. g \in Sheets /\ Filled(g) /\ g.open = FALSE
    BY ClosedSheet
  <2> HIDE DEF g
  <2>2. h = [g EXCEPT !.conflict = Nothing]
    BY DEF g
  <2>3. [g EXCEPT !.conflict = Nothing] \in Sheets
    BY <2>1 DEF Sheets
  <2>4. LET k == [g EXCEPT !.conflict = Nothing]
        IN  /\ k.conflict = Nothing /\ k.open = g.open /\ k.who = g.who /\ k.read = g.read
            /\ k.picked = g.picked /\ k.manager = g.manager
    BY <2>1 DEF Sheets
  <2> HIDE DEF h
  <2> QED BY <2>1, <2>2, <2>3, <2>4 DEF Filled
<1>2. sheet' = h /\ save' = [save EXCEPT ![s] = Edit!Idle]
  BY DEF Edit!Finishes
<1> HIDE DEF h
<1>3. left' \in BOOLEAN /\ (~left' => \A t \in Slot : save'[t].step = "none")
  BY DEF Edit!Finishes, Edit!Leaves, EditInv, EditTypes
<1>4. ~left' => InHand'
  BY <1>1, <1>2, <1>3 DEF InHand
<1> QED BY <1>1, <1>2, <1>3, <1>4, SaveOver

\* The records of the server, and the page's, stay records.
LEMMA RowsTyped ==
    ASSUME EditInv, [Edit!Next]_Edit!vars
    PROVE  row' \in [Employee -> Records] /\ listed' \in [Employee -> Records]
<1>1. /\ row \in [Employee -> Records] /\ listed \in [Employee -> Records]
      /\ save \in [Slot -> Saves] /\ \A s \in Slot : Filed(save[s])
  BY DEF EditInv, EditTypes
<1>2. ASSUME NEW e \in Employee, NEW email \in Email \cup {Nothing}
      PROVE  Edit!Patched(e, email) \in [Employee -> Records]
  <2> DEFINE k == [row[e] EXCEPT !.email = email, !.version = @ + 1]
  <2>1. k \in Records
    <3>1. row[e] \in Records
      BY <1>1
    <3>2. row[e].version + 1 \in Nat
      BY <3>1 DEF Records
    <3> QED BY <3>1, <3>2 DEF Records
  <2>2. Edit!Patched(e, email) = [row EXCEPT ![e] = k]
    BY <1>1 DEF Edit!Patched, Records
  <2> HIDE DEF k
  <2> QED BY <1>1, <2>1, <2>2
<1>3. ASSUME NEW e \in Employee, NEW m \in Edit!ManagerOrNone
      PROVE  Edit!Moved(e, m) \in [Employee -> Records]
  <2> DEFINE k == [row[e] EXCEPT !.manager = m, !.version = @ + 1]
  <2>1. k \in Records
    <3>1. row[e] \in Records
      BY <1>1
    <3>2. row[e].version + 1 \in Nat
      BY <3>1 DEF Records
    <3> QED BY <3>1, <3>2 DEF Records
  <2>2. Edit!Moved(e, m) = [row EXCEPT ![e] = k]
    BY <1>1 DEF Edit!Moved, Records
  <2> HIDE DEF k
  <2> QED BY <1>1, <2>1, <2>2
<1>4. ASSUME UNCHANGED row, listed' = row \/ listed' = listed
      PROVE  row' \in [Employee -> Records] /\ listed' \in [Employee -> Records]
  BY <1>1, <1>4
<1>5. ASSUME NEW s \in Slot, Edit!PatchAccepted(s)
      PROVE  row' \in [Employee -> Records] /\ listed' \in [Employee -> Records]
  <2>1. row' = Edit!Patched(save[s].who, save[s].email) /\ listed' = listed
    BY <1>5 DEF Edit!PatchAccepted
  <2>2. save[s].email \in Email \cup {Nothing} /\ save[s].who \in Employee
    BY <1>1, <1>5 DEF Saves, Filed, Edit!PatchAccepted
  <2> QED BY <1>1, <1>2, <2>1, <2>2
<1>6. ASSUME NEW s \in Slot, Edit!Put(s)
      PROVE  row' \in [Employee -> Records] /\ listed' \in [Employee -> Records]
  <2>1. row' = row \/ row' = Edit!Moved(save[s].who, save[s].manager)
    BY <1>6 DEF Edit!Put
  <2>2. /\ save[s].manager \in Edit!ManagerOrNone /\ save[s].who \in Employee
        /\ listed' = listed
    BY <1>1, <1>6 DEF Saves, Filed, Edit!Put
  <2> QED BY <1>1, <1>3, <2>1, <2>2
<1>7. ASSUME NEW s \in Slot, Edit!SaveStep(s)
      PROVE  row' \in [Employee -> Records] /\ listed' \in [Employee -> Records]
  BY <1>4, <1>5, <1>6, <1>7
     DEF Edit!SaveStep, Edit!PatchRefused, Edit!SaveLost, Edit!ShowConflict
<1>8. ASSUME NEW e \in Employee, NEW v \in Email, Edit!OthersEdit(e, v)
      PROVE  row' \in [Employee -> Records] /\ listed' \in [Employee -> Records]
  <2>1. row' = Edit!Patched(e, v) /\ listed' = listed
    BY <1>8 DEF Edit!OthersEdit
  <2> QED BY <1>1, <1>2, <2>1
<1>9. ASSUME NEW e \in Employee, NEW m \in Edit!ManagerOrNone, Edit!OthersMove(e, m)
      PROVE  row' \in [Employee -> Records] /\ listed' \in [Employee -> Records]
  <2>1. row' = Edit!Moved(e, m) /\ listed' = listed
    BY <1>9 DEF Edit!OthersMove
  <2> QED BY <1>1, <1>3, <2>1
<1>10. CASE Edit!UserStep \/ Edit!Refresh \/ UNCHANGED Edit!vars
  BY <1>4, <1>10
     DEF Edit!UserStep, Edit!Open, Edit!Cancel, Edit!Type, Edit!Pick, Edit!Submit, Edit!KeepMine,
         Edit!UseTheirs, Edit!DismissConflict, Edit!Refresh, Edit!vars
<1> QED BY <1>7, <1>8, <1>9, <1>10 DEF Edit!Next

\* What the user does keeps the sheet and the saves.
LEMMA UserStepKeeps ==
    ASSUME EditInv, Edit!UserStep, row' \in [Employee -> Records],
           listed' \in [Employee -> Records]
    PROVE  EditInv'
<1>1. /\ listed \in [Employee -> Records] /\ sheet \in Sheets /\ Filled(sheet)
      /\ save \in [Slot -> Saves] /\ (\A s \in Slot : Filed(save[s]))
      /\ left \in BOOLEAN /\ (~left => InHand)
  BY DEF EditInv, EditTypes
\* The sheet changes, and no save.
<1>2. ASSUME sheet' \in Sheets, Filled(sheet'), UNCHANGED save, left' \in BOOLEAN,
             ~left' => InHand'
      PROVE  EditInv'
  BY <1>1, <1>2 DEF EditInv, EditTypes
\* It is the same person's, in all that counts.
<1>3. ASSUME sheet' \in Sheets, Filled(sheet'), UNCHANGED <<save, left>>,
             sheet'.who = sheet.who, sheet'.open = sheet.open,
             sheet'.of = sheet.of \/ (sheet'.of = sheet.conflict.of /\ sheet.conflict # Nothing),
             sheet'.conflict \in {sheet.conflict, Nothing}
      PROVE  EditInv'
  <2>1. ~left' => InHand'
    BY <1>1, <1>3 DEF InHand
  <2> QED BY <1>1, <1>2, <1>3, <2>1
<1>4. ASSUME NEW s \in Slot, NEW version \in Nat, NEW of \in Employee \cup {Nothing},
             Edit!Sends(s, version, of), UNCHANGED <<sheet, left>>,
             sheet.open \/ sheet.who # Nothing,
             ~left => sheet.open /\ of = sheet.who
      PROVE  EditInv'
  <2>1. /\ save' \in [Slot -> Saves] /\ (\A t \in Slot : Filed(save'[t]))
        /\ save'[s].of = of /\ save'[s].who = sheet.who
        /\ \A t \in Slot \ {s} : save'[t] = save[t]
    BY <1>4, SendsFiled
  <2>2. ~left' => InHand'
    BY <1>1, <1>4, <2>1 DEF InHand
  <2> QED BY <1>1, <1>4, <2>1, <2>2 DEF EditInv, EditTypes
<1>5. ASSUME NEW e \in Employee, Edit!Open(e) PROVE EditInv'
  <2> DEFINE r == listed[e]
             g == Edit!Given(e, r)
             h == [g EXCEPT !.open = TRUE]
  <2> HIDE DEF r
  <2>1. r \in Records
    BY <1>1 DEF r
  <2>2. Shows(Edit!Given(e, r), e, r)
    BY <2>1, GivenSheet
  <2>3. sheet' = h /\ UNCHANGED <<save, left>> /\ ~sheet.open /\ sheet.conflict = Nothing
    BY <1>5 DEF Edit!Open, r
  <2> HIDE DEF g
  <2>4. /\ h \in Sheets /\ h.open = TRUE /\ h.who = e /\ h.of = e
        /\ h.read = r /\ h.manager = r.manager /\ h.conflict = Nothing
    BY <2>2 DEF Sheets, Shows, g
  <2> HIDE DEF h
  <2>5. Filled(sheet')
    BY <2>1, <2>3, <2>4 DEF Filled
  <2>6. ~left' => InHand'
    BY <1>1, <2>3, <2>4 DEF InHand
  <2> QED BY <1>1, <1>2, <2>3, <2>4, <2>5, <2>6
<1>6. CASE Edit!Cancel
  <2> DEFINE h == Edit!Closed
  <2>1. h \in Sheets /\ Filled(h) /\ h.open = FALSE /\ h.conflict \in {sheet.conflict, Nothing}
    BY ClosedSheet
  <2>2. sheet' = h /\ sheet.conflict = Nothing /\ UNCHANGED save
    BY <1>6 DEF Edit!Cancel
  <2> HIDE DEF h
  <2>3. left' \in BOOLEAN /\ (~left' => \A t \in Slot : save[t].step = "none")
    BY <1>1, <1>6 DEF Edit!Cancel, Edit!Leaves
  <2>4. ~left' => InHand'
    BY <2>1, <2>2, <2>3 DEF InHand
  <2> QED BY <1>2, <2>1, <2>2, <2>3, <2>4
<1>7. ASSUME NEW v \in Email, Edit!Type(v) PROVE EditInv'
  <2> DEFINE h == [sheet EXCEPT !.email = v]
  <2>1. h \in Sheets
    BY <1>1 DEF Sheets
  <2>2. /\ h.who = sheet.who /\ h.open = sheet.open /\ h.of = sheet.of
        /\ h.conflict = sheet.conflict /\ h.read = sheet.read /\ h.manager = sheet.manager
        /\ h.picked = sheet.picked
    BY <1>1 DEF Sheets
  <2>3. sheet' = h /\ UNCHANGED <<save, left>>
    BY <1>7 DEF Edit!Type
  <2> HIDE DEF h
  <2>4. Filled(h)
    BY <1>1, <2>2 DEF Filled
  <2> QED BY <1>3, <2>1, <2>2, <2>3, <2>4
<1>8. ASSUME NEW m \in Edit!ManagerOrNone, Edit!Pick(m) PROVE EditInv'
  <2> DEFINE h == [sheet EXCEPT !.manager = m, !.picked = TRUE]
  <2>1. h \in Sheets
    BY <1>1 DEF Sheets
  <2>2. /\ h.who = sheet.who /\ h.open = sheet.open /\ h.of = sheet.of
        /\ h.conflict = sheet.conflict /\ h.read = sheet.read /\ h.picked = TRUE
    BY <1>1 DEF Sheets
  <2>3. sheet' = h /\ UNCHANGED <<save, left>>
    BY <1>8 DEF Edit!Pick
  <2> HIDE DEF h
  <2>4. Filled(h)
    BY <1>1, <2>2 DEF Filled
  <2> QED BY <1>3, <2>1, <2>2, <2>3, <2>4
<1>9. ASSUME NEW s \in Slot, Edit!Submit(s) PROVE EditInv'
  <2>1. /\ sheet.version \in Nat /\ sheet.of \in Employee \cup {Nothing}
        /\ (~left => sheet.of = sheet.who)
    BY <1>1, <1>9 DEF Sheets, InHand, Edit!Submit
  <2> QED BY <1>4, <1>9, <2>1 DEF Edit!Submit
<1>10. ASSUME NEW s \in Slot, Edit!KeepMine(s) PROVE EditInv'
  <2>1. sheet.conflict # Nothing /\ sheet.who # Nothing
    BY <1>10 DEF Edit!KeepMine
  <2>2. /\ sheet.conflict.version \in Nat /\ sheet.conflict.of \in Employee \cup {Nothing}
        /\ (~left => sheet.open /\ sheet.conflict.of = sheet.who)
    BY <1>1, <2>1 DEF Sheets, InHand
  <2> QED BY <1>4, <1>10, <2>1, <2>2 DEF Edit!KeepMine
<1>11. CASE Edit!UseTheirs
  <2> DEFINE c == sheet.conflict
             h == [sheet EXCEPT !.email = c.email, !.version = c.version, !.of = c.of,
                                !.conflict = Nothing]
  <2>1. c # Nothing /\ sheet' = h /\ UNCHANGED <<save, left>>
    BY <1>11 DEF Edit!UseTheirs
  <2>2. c \in [of : Employee, version : Nat, email : Email \cup {Nothing}]
    BY <1>1, <2>1 DEF Sheets
  <2> HIDE DEF c
  <2>3. h \in Sheets
    BY <1>1, <2>2 DEF Sheets
  <2>4. /\ h.who = sheet.who /\ h.open = sheet.open /\ h.of = c.of
        /\ h.conflict = Nothing /\ h.read = sheet.read /\ h.manager = sheet.manager
        /\ h.picked = sheet.picked
    BY <1>1 DEF Sheets
  <2> HIDE DEF h
  <2>5. Filled(h)
    BY <1>1, <2>4 DEF Filled
  <2> QED BY <1>3, <2>1, <2>3, <2>4, <2>5 DEF c
<1>12. CASE Edit!DismissConflict
  <2> DEFINE h == [sheet EXCEPT !.conflict = Nothing]
  <2>1. h \in Sheets
    BY <1>1 DEF Sheets
  <2>2. /\ h.who = sheet.who /\ h.open = sheet.open /\ h.of = sheet.of
        /\ h.conflict = Nothing /\ h.read = sheet.read /\ h.manager = sheet.manager
        /\ h.picked = sheet.picked
    BY <1>1 DEF Sheets
  <2>3. sheet' = h /\ UNCHANGED <<save, left>>
    BY <1>12 DEF Edit!DismissConflict
  <2> HIDE DEF h
  <2>4. Filled(h)
    BY <1>1, <2>2 DEF Filled
  <2> QED BY <1>3, <2>1, <2>2, <2>3, <2>4
<1> QED BY <1>5, <1>6, <1>7, <1>8, <1>9, <1>10, <1>11, <1>12 DEF Edit!UserStep

\* So does what the server answers to a save.
LEMMA SaveStepKeeps ==
    ASSUME EditInv, NEW s \in Slot, Edit!SaveStep(s), row' \in [Employee -> Records],
           listed' \in [Employee -> Records]
    PROVE  EditInv'
<1>1. /\ row \in [Employee -> Records] /\ sheet \in Sheets /\ Filled(sheet)
      /\ save \in [Slot -> Saves] /\ (\A t \in Slot : Filed(save[t]))
      /\ left \in BOOLEAN /\ (~left => InHand)
  BY DEF EditInv, EditTypes
<1>2. ASSUME save[s].step # "none", Edit!Finishes(s) PROVE EditInv'
  BY <1>2, FinishesKeeps DEF EditInv, EditTypes
<1>3. ASSUME Edit!Ends(s) PROVE EditInv'
  <2>1. /\ save' \in [Slot -> Saves] /\ (\A t \in Slot : Filed(save'[t]))
        /\ save'[s].step = "none" /\ (\A t \in Slot \ {s} : save'[t] = save[t])
        /\ UNCHANGED <<sheet, left>>
    BY <1>3, SaveOver DEF Edit!Ends
  <2>2. ~left' => InHand'
    BY <1>1, <2>1 DEF InHand
  <2> QED BY <1>1, <2>1, <2>2 DEF EditInv, EditTypes
\* A save goes on to another step, or to another version of it.
<1>4. ASSUME NEW k \in {"reread", "put"}, NEW n \in Nat, save[s].step = "patch",
             k = "put" => save[s].moves, UNCHANGED <<sheet, left>>,
             save' = [save EXCEPT ![s].step = k, ![s].version = n]
      PROVE  EditInv'
  <2> DEFINE r == [save[s] EXCEPT !.step = k, !.version = n]
  <2>1. r \in Saves /\ Filed(r) /\ r.of = save[s].of /\ r.who = save[s].who
    BY <1>1, <1>4 DEF Saves, Filed
  <2>2. save' = [save EXCEPT ![s] = r]
    BY <1>1, <1>4 DEF Saves
  <2> HIDE DEF r
  <2>3. ~left' => InHand'
    BY <1>1, <1>4, <2>1, <2>2 DEF InHand
  <2> QED BY <1>1, <1>4, <2>1, <2>2, <2>3 DEF EditInv, EditTypes
<1>5. CASE Edit!PatchAccepted(s)
  <2>1. CASE /\ save[s].moves
             /\ save' = [save EXCEPT ![s].step = "put", ![s].version = row'[save[s].who].version]
             /\ UNCHANGED <<sheet, left>>
    <3>1. save[s].step = "patch" /\ save[s].who \in Employee
      BY <1>1, <1>5 DEF Edit!PatchAccepted, Filed
    <3>2. row'[save[s].who].version \in Nat
      BY <3>1 DEF Records
    <3> QED BY <1>4, <2>1, <3>1, <3>2
  <2> QED BY <1>2, <1>3, <1>5, <2>1 DEF Edit!PatchAccepted
<1>6. CASE Edit!PatchRefused(s)
  <2>1. save[s] \in Saves /\ save[s].version \in Nat
    BY <1>1 DEF Saves
  <2>2. save' = [save EXCEPT ![s].step = "reread", ![s].version = save[s].version]
    BY <1>1, <1>6, <2>1 DEF Edit!PatchRefused, Saves
  <2> QED BY <1>4, <1>6, <2>1, <2>2 DEF Edit!PatchRefused
<1>7. CASE Edit!SaveLost(s)
  BY <1>3, <1>7 DEF Edit!SaveLost
<1>8. CASE Edit!ShowConflict(s)
  <2> DEFINE e == save[s].who
             c == [of |-> e, version |-> row[e].version, email |-> row[e].email]
             h == [sheet EXCEPT !.conflict = c]
  <2>1. /\ save' \in [Slot -> Saves] /\ (\A t \in Slot : Filed(save'[t]))
        /\ save'[s].step = "none" /\ (\A t \in Slot \ {s} : save'[t] = save[t])
    BY <1>8, SaveOver DEF Edit!ShowConflict
  <2>2. sheet' = h /\ UNCHANGED left /\ save[s].step = "reread"
    BY <1>8 DEF Edit!ShowConflict
  <2>3. e \in Employee /\ (~left => e = sheet.who /\ sheet.open)
    BY <1>1, <2>2 DEF Filed, InHand
  <2>4. row[e].version \in Nat /\ row[e].email \in Email \cup {Nothing}
    BY <1>1, <2>3 DEF Records
  <2> HIDE DEF e
  <2>5. c \in [of : Employee, version : Nat, email : Email \cup {Nothing}] /\ c.of = e
    BY <2>3, <2>4
  <2> HIDE DEF c
  <2>6. h \in Sheets
    BY <1>1, <2>5 DEF Sheets
  <2>7. /\ h.who = sheet.who /\ h.open = sheet.open /\ h.of = sheet.of
        /\ h.conflict = c /\ h.read = sheet.read /\ h.manager = sheet.manager
        /\ h.picked = sheet.picked
    BY <1>1 DEF Sheets
  <2> HIDE DEF h
  <2>8. Filled(h)
    BY <1>1, <2>7 DEF Filled
  <2>9. ~left' => InHand'
    BY <1>1, <2>1, <2>2, <2>3, <2>5, <2>7 DEF InHand
  <2> QED BY <1>1, <2>1, <2>2, <2>6, <2>8, <2>9 DEF EditInv, EditTypes
<1>9. CASE Edit!Put(s)
  BY <1>2, <1>9 DEF Edit!Put
<1> QED BY <1>5, <1>6, <1>7, <1>8, <1>9 DEF Edit!SaveStep

\* Every step keeps it.
LEMMA EditInductive ==
    ASSUME EditInv, [Edit!Next]_Edit!vars
    PROVE  EditInv'
<1>1. row' \in [Employee -> Records] /\ listed' \in [Employee -> Records]
  BY RowsTyped
<1>2. /\ row \in [Employee -> Records] /\ sheet \in Sheets /\ Filled(sheet)
      /\ save \in [Slot -> Saves] /\ (\A t \in Slot : Filed(save[t]))
      /\ left \in BOOLEAN /\ (~left => InHand)
  BY DEF EditInv, EditTypes
<1>3. ASSUME UNCHANGED <<sheet, save, left>> PROVE EditInv'
  BY <1>1, <1>2, <1>3 DEF EditInv, EditTypes, InHand
<1>4. CASE Edit!UserStep
  BY <1>1, <1>4, UserStepKeeps
<1>5. CASE \E s \in Slot : Edit!SaveStep(s)
  BY <1>1, <1>5, SaveStepKeeps
<1>6. CASE Edit!Refresh /\ host = "drawer" /\ sheet.who # Nothing
  <2> DEFINE e == sheet.who
             r == row[e]
             h == Edit!Given(e, r)
  <2>1. e \in Employee /\ r \in Records
    BY <1>2, <1>6 DEF Sheets
  <2>2. sheet' = h /\ UNCHANGED <<save, left>>
    BY <1>6 DEF Edit!Refresh
  <2> HIDE DEF r
  <2>3. Shows(Edit!Given(e, r), e, r)
    BY <2>1, GivenSheet
  <2> HIDE DEF h
  <2>4. /\ h \in Sheets /\ h.who = sheet.who /\ h.of = sheet.who /\ h.open = sheet.open
        /\ h.read = r /\ h.manager = r.manager /\ h.conflict = Nothing
    BY <2>3 DEF Shows, h
  <2>5. Filled(h)
    BY <2>1, <2>4 DEF Filled
  <2>6. ~left' => InHand'
    BY <1>2, <2>2, <2>4 DEF InHand
  <2> QED BY <1>1, <1>2, <2>2, <2>4, <2>5, <2>6 DEF EditInv, EditTypes
<1> QED BY <1>3, <1>4, <1>5, <1>6
        DEF Edit!Next, Edit!Refresh, Edit!OthersEdit, Edit!OthersMove, Edit!vars

\* The sheet starts closed, and no save is under way.
LEMMA EditStarts == Edit!Init => EditInv
<1> SUFFICES ASSUME Edit!Init PROVE EditInv
  OBVIOUS
<1>1. row \in [Employee -> Records] /\ listed = row
  <2>1. PICK g \in {f \in Edit!Structure : Edit!Acyclic(f)}, m \in [Employee -> Email] :
            row = [e \in Employee |-> [version |-> 1, email |-> m[e], manager |-> g[e]]]
    BY DEF Edit!Init
  <2>2. g \in [Employee -> Edit!ManagerOrNone]
    BY DEF Edit!Structure
  <2> QED BY <2>1, <2>2 DEF Records, Edit!Init
<1>2. /\ Edit!NoSheet \in Sheets /\ Edit!NoSheet.conflict = Nothing
      /\ Edit!NoSheet.open = FALSE /\ Edit!NoSheet.who = Nothing
  BY DEF Edit!NoSheet, Sheets, Edit!ManagerOrNone
<1>3. Edit!Idle \in Saves /\ Edit!Idle.step = "none"
  BY DEF Edit!Idle, Saves, Edit!ManagerOrNone
<1>4. sheet = Edit!NoSheet /\ save = [s \in Slot |-> Edit!Idle] /\ left = FALSE
  BY DEF Edit!Init
<1>5. Filled(sheet)
  BY <1>2, <1>4 DEF Filled
<1> QED BY <1>1, <1>2, <1>3, <1>4, <1>5 DEF EditInv, EditTypes, Filed, InHand

\* SavedOverSeen: a save overwrites only a version of that very record that the
\* user was shown, unless a sheet was closed with its save under way.
THEOREM SavesOverWhatWasSeen == Edit!Spec => Edit!SavedOverSeen
<1>1. EditInv /\ [Edit!Next]_Edit!vars =>
          [\A s \in Slot : Edit!PatchAccepted(s) /\ ~left => save[s].of = save[s].who]_Edit!vars
  BY DEF EditInv, InHand, Edit!PatchAccepted
<1>2. EditInv /\ [Edit!Next]_Edit!vars => EditInv'
  BY EditInductive
<1> QED BY <1>1, <1>2, EditStarts, PTL DEF Edit!Spec, Edit!SavedOverSeen

\* MovesOnlyWhatWasPicked: however sheets, conflicts and answers are mixed up, a
\* save moves an employee only to a manager the user picked.
THEOREM MovesAreAlwaysPicked == Edit!Spec => Edit!MovesOnlyWhatWasPicked
<1>1. EditInv /\ [Edit!Next]_Edit!vars =>
          [\A s \in Slot : Edit!Put(s) => save[s].picked]_Edit!vars
  BY DEF EditInv, Filed, Edit!Put
<1>2. EditInv /\ [Edit!Next]_Edit!vars => EditInv'
  BY EditInductive
<1> QED BY <1>1, <1>2, EditStarts, PTL DEF Edit!Spec, Edit!MovesOnlyWhatWasPicked

-----------------------------------------------------------------------------
(* The sessions: the invariant. *)

USE DEF Auth!Token, Auth!Nothing, Auth!MaxIssuedAssumption, Auth!HomeAssumption

\* Nobody knows a token that is not issued, and no token is older than the
\* sign-in it descends from.
Known ==
    /\ stored <= issued
    /\ \A n \in live : n <= issued
    /\ \A p \in Page : offered[p] <= issued /\ \A n \in granted[p] : n <= issued
    /\ \A n \in Auth!Token : n <= issued => login[n] \in Auth!Token /\ login[n] <= n

HoldsRow(p) == refresh[p] \in {"rotating", "revoking"}

LocksExclude == \A p, q \in Page : p # q /\ HoldsRow(p) /\ HoldsRow(q) => offered[p] # offered[q]

\* What a refresh found live stays so until it commits.
RotatesLive == \A p \in Page : refresh[p] = "rotating" => offered[p] \in live

\* No token issued so far is newer than n in its sign-in.
Latest(n) == \A m \in Auth!Token : m <= issued /\ login[m] = login[n] => m <= n

LiveIsLatest == \A n \in live : Latest(n)

\* A pair on its way to p is the newest of its sign-in, and nobody else has it.
GrantIsNews ==
    \A p \in Page : refresh[p] = "granted" =>
        \E n \in Auth!Token :
            /\ granted[p] = {n}
            /\ Latest(n) /\ n # stored
            /\ \A q \in Page : offered[q] # n
            /\ \A q \in Page \ {p} : refresh[q] = "granted" => n \notin granted[q]

\* With what Sessions assumes of its constants, which every step needs.
AuthInv ==
    /\ Auth!HomeAssumption /\ Auth!MaxIssuedAssumption
    /\ Auth!TypeOK
    /\ Known
    /\ LocksExclude
    /\ RotatesLive
    /\ LiveIsLatest
    /\ GrantIsNews

\* It holds at the start: there are no tokens.
LEMMA AuthStarts ==
    ASSUME Auth!HomeAssumption, Auth!MaxIssuedAssumption
    PROVE  Auth!Init => AuthInv
BY DEF Auth!Init, AuthInv, Auth!TypeOK, Known, LocksExclude, HoldsRow, RotatesLive,
       LiveIsLatest, GrantIsNews

-----------------------------------------------------------------------------
(* The sessions: every step keeps it. *)

\* A step that issues nothing, locks nothing and offers nothing but what was
\* stored keeps the invariant, if it keeps the types.
LEMMA QuietKeeps ==
    ASSUME AuthInv, Auth!TypeOK', UNCHANGED <<issued, login>>,
           stored' \in {stored, Auth!Nothing}, live' \subseteq live,
           \A p \in Page :
               /\ refresh'[p] = refresh[p] \/ refresh'[p] \in {"none", "posted", "refused"}
               /\ granted'[p] \in {granted[p], {}}
               /\ refresh'[p] = "granted" => granted'[p] = granted[p]
               /\ offered'[p] \in {offered[p], stored, Auth!Nothing}
               /\ HoldsRow(p)' => offered'[p] = offered[p]
               /\ refresh'[p] = "rotating" => offered[p] \in live'
    PROVE  AuthInv'
<1>1. Known'
  <2>1. stored' <= issued' /\ \A n \in live' : n <= issued'
    BY DEF AuthInv, Auth!TypeOK, Known
  <2>2. \A p \in Page : offered'[p] <= issued'
    BY DEF AuthInv, Auth!TypeOK, Known
  <2>3. \A p \in Page : \A n \in granted'[p] : n <= issued'
    BY DEF AuthInv, Known
  <2>4. \A n \in Auth!Token : n <= issued' => login'[n] \in Auth!Token /\ login'[n] <= n
    BY DEF AuthInv, Known
  <2> QED BY <2>1, <2>2, <2>3, <2>4 DEF Known
<1>2. LocksExclude' /\ RotatesLive'
  BY DEF AuthInv, LocksExclude, RotatesLive, HoldsRow
<1>3. \A n \in Auth!Token : Latest(n)' <=> Latest(n)
  BY DEF Latest
<1>4. LiveIsLatest'
  BY <1>3 DEF AuthInv, Auth!TypeOK, LiveIsLatest
<1>5. GrantIsNews'
  <2> SUFFICES ASSUME NEW p \in Page, refresh'[p] = "granted"
               PROVE  \E n \in Auth!Token :
                        /\ granted'[p] = {n}
                        /\ Latest(n)' /\ n # stored'
                        /\ \A q \in Page : offered'[q] # n
                        /\ \A q \in Page \ {p} : refresh'[q] = "granted" => n \notin granted'[q]
    BY DEF GrantIsNews
  <2>1. refresh[p] = "granted" /\ granted'[p] = granted[p]
    OBVIOUS
  <2>2. PICK n \in Auth!Token :
          /\ granted[p] = {n}
          /\ Latest(n) /\ n # stored
          /\ \A q \in Page : offered[q] # n
          /\ \A q \in Page \ {p} : refresh[q] = "granted" => n \notin granted[q]
    BY <2>1 DEF AuthInv, GrantIsNews
  <2>3. \A q \in Page : offered'[q] # n
    BY <2>2
  <2>4. \A q \in Page \ {p} : refresh'[q] = "granted" => n \notin granted'[q]
    BY <2>2
  <2> QED BY <1>3, <2>1, <2>2, <2>3, <2>4
<1> QED BY <1>1, <1>2, <1>4, <1>5 DEF AuthInv

\* What the actions of a page's memory leave for QuietKeeps to ask.
Quiet ==
    /\ Auth!TypeOK' /\ UNCHANGED <<issued, login>>
    /\ stored' \in {stored, Auth!Nothing} /\ live' \subseteq live
    /\ \A p \in Page :
        /\ refresh'[p] = refresh[p] \/ refresh'[p] \in {"none", "posted", "refused"}
        /\ granted'[p] \in {granted[p], {}}
        /\ refresh'[p] = "granted" => granted'[p] = granted[p]
        /\ offered'[p] \in {offered[p], stored, Auth!Nothing}
        /\ HoldsRow(p)' => offered'[p] = offered[p]
        /\ refresh'[p] = "rotating" => offered[p] \in live'

\* A page that is left, or whose calls are told that there is no new pair.
LEMMA PageForgets ==
    ASSUME Auth!HomeAssumption, Auth!TypeOK, NEW p \in Page,
           Auth!Unload(p) \/ (Auth!DropWaiting(p) /\ ~HoldsRow(p))
    PROVE  /\ call' \in [Call -> {"idle", "sent", "waiting"}]
           /\ refresh' \in [Page -> {"none", "posted", "rotating", "revoking", "granted", "refused"}]
           /\ offered' \in [Page -> Auth!Token \cup {Auth!Nothing}]
           /\ granted' \in [Page -> SUBSET Auth!Token]
           /\ ended' \in [Page -> Auth!Token \cup {Auth!Nothing}]
           /\ \A q \in Page :
                /\ refresh'[q] \in {refresh[q], "none"} /\ granted'[q] \in {granted[q], {}}
                /\ refresh'[q] = "granted" => granted'[q] = granted[q]
                /\ offered'[q] \in {offered[q], Auth!Nothing}
                /\ refresh'[q] # "none" => offered'[q] = offered[q]
                /\ HoldsRow(q) => refresh'[q] = refresh[q]
<1> USE DEF Auth!TypeOK, Auth!Unload, Auth!DropWaiting, Auth!ForgetRefresh
<1>1. call' \in [Call -> {"idle", "sent", "waiting"}]
  OBVIOUS
<1>2. /\ refresh' \in [Page -> {"none", "posted", "rotating", "revoking", "granted", "refused"}]
      /\ offered' \in [Page -> Auth!Token \cup {Auth!Nothing}]
      /\ granted' \in [Page -> SUBSET Auth!Token]
      /\ ended' \in [Page -> Auth!Token \cup {Auth!Nothing}]
  OBVIOUS
<1>3. ~HoldsRow(p)
  BY DEF HoldsRow
<1>4. refresh' = [refresh EXCEPT ![p] = "none"] /\ granted' = [granted EXCEPT ![p] = {}]
  OBVIOUS
<1>5. offered' = offered \/ offered' = [offered EXCEPT ![p] = Auth!Nothing]
  OBVIOUS
<1> QED BY <1>1, <1>2, <1>3, <1>4, <1>5 DEF HoldsRow

\* The steps that neither lock a row nor issue or store a pair.
LEMMA QuietSteps ==
    ASSUME AuthInv,
           \/ \E c \in Call : Auth!Send(c) \/ Auth!CallStep(c)
           \/ \E p \in Page :
                \/ Auth!RevokeAllForUser(p) \/ Auth!RefreshFails(p) \/ Auth!NotGranted(p)
                \/ Auth!Enter(p) \/ Auth!SendToLogin(p) \/ Auth!Reload(p)
                \/ Auth!StartLogout(p) \/ Auth!FinishLogout(p)
    PROVE  Quiet
<1> USE DEF AuthInv, Auth!TypeOK, HoldsRow, RotatesLive
<1>1. ASSUME NEW c \in Call, Auth!Send(c) PROVE Quiet
  BY <1>1 DEF Auth!Send, Quiet, Auth!server, Auth!rotation
<1>2. ASSUME NEW c \in Call, Auth!Answer(c) PROVE Quiet
  BY <1>2 DEF Auth!Answer, Quiet, Auth!server, Auth!rotation
<1>3. ASSUME NEW c \in Call, Auth!Unauthorized(c) PROVE Quiet
  <2> DEFINE p == Home[c]
  <2>1. p \in Page
    OBVIOUS
  <2>2. CASE refresh[p] = "none"
    <3>1. Auth!IsLoggedIn /\ UNCHANGED <<stored, issued, live, login, at, granted, ended>>
      BY <1>3, <2>2 DEF Auth!Unauthorized, Auth!server
    <3>2. /\ refresh' = [refresh EXCEPT ![p] = "posted"]
          /\ offered' = [offered EXCEPT ![p] = stored]
          /\ call' = [call EXCEPT ![c] = "waiting"]
      BY <1>3, <2>2 DEF Auth!Unauthorized, Auth!StartRefresh
    <3> QED BY <2>1, <2>2, <3>1, <3>2 DEF Auth!IsLoggedIn, Quiet
  <2>3. CASE refresh[p] # "none"
    <3>1. /\ UNCHANGED <<stored, issued, live, login, at, refresh, offered, granted, ended>>
          /\ call' = [call EXCEPT ![c] = "waiting"]
      BY <1>3, <2>3 DEF Auth!Unauthorized, Auth!server
    <3> QED BY <3>1 DEF Quiet
  <2> QED BY <2>2, <2>3
<1>4. ASSUME NEW p \in Page, Auth!Unload(p) \/ (Auth!DropWaiting(p) /\ ~HoldsRow(p)),
             UNCHANGED <<issued, login>>, stored' \in {stored, Auth!Nothing},
             at' \in [Page -> {"login", "app"}], live' \subseteq live,
             \A q \in Page : refresh[q] = "rotating" => offered[q] \in live'
      PROVE  Quiet
  <2>1. Auth!TypeOK'
    BY <1>4, PageForgets
  <2>2. \A q \in Page :
          /\ refresh'[q] = refresh[q] \/ refresh'[q] \in {"none", "posted", "refused"}
          /\ granted'[q] \in {granted[q], {}}
          /\ refresh'[q] = "granted" => granted'[q] = granted[q]
          /\ offered'[q] \in {offered[q], stored, Auth!Nothing}
          /\ HoldsRow(q)' => offered'[q] = offered[q]
          /\ refresh'[q] = "rotating" => offered[q] \in live'
    BY <1>4, PageForgets
  <2> QED BY <1>4, <2>1, <2>2 DEF Quiet
<1>5. \A q \in Page : refresh[q] = "rotating" => offered[q] \in live
  OBVIOUS
<1>6. ASSUME NEW c \in Call, Auth!NothingToRefresh(c) PROVE Quiet
  <2>1. CASE at[Home[c]] = "login"
    BY <1>6, <2>1 DEF Auth!NothingToRefresh, Auth!ClearTokens, Quiet, Auth!server, Auth!rotation
  <2>2. CASE at[Home[c]] # "login"
    <3>1. /\ UNCHANGED <<issued, live, login>> /\ stored' = Auth!Nothing
          /\ at' = [at EXCEPT ![Home[c]] = "login"] /\ Auth!Unload(Home[c])
      BY <1>6, <2>2 DEF Auth!NothingToRefresh, Auth!ClearTokens, Auth!server
    <3> QED BY <1>4, <1>5, <3>1
  <2> QED BY <2>1, <2>2
<1>7. ASSUME NEW p \in Page, Auth!RevokeAllForUser(p) PROVE Quiet
  <2>1. \A q \in Page \ {p} : refresh[q] = "rotating" => offered[q] \notin granted[p]
    BY <1>7 DEF Auth!RevokeAllForUser, Auth!LockedBy
  <2> QED BY <1>7, <2>1 DEF Auth!RevokeAllForUser, Quiet
<1>8. ASSUME NEW p \in Page, Auth!RefreshFails(p) PROVE Quiet
  BY <1>8 DEF Auth!RefreshFails, Quiet, Auth!server
<1>9. ASSUME NEW p \in Page, Auth!NotGranted(p) PROVE Quiet
  <2>1. /\ UNCHANGED <<issued, live, login>> /\ stored' = Auth!Nothing
        /\ at' = [at EXCEPT ![p] = "login"]
        /\ Auth!Unload(p) \/ (Auth!DropWaiting(p) /\ ~HoldsRow(p))
    BY <1>9 DEF Auth!NotGranted, Auth!RedirectToLogin, Auth!ClearTokens, Auth!server
  <2> QED BY <1>4, <1>5, <2>1
<1>10. ASSUME NEW p \in Page, Auth!Enter(p) \/ Auth!Reload(p) PROVE Quiet
  <2>1. UNCHANGED <<stored, issued, live, login>> /\ Auth!Unload(p)
    BY <1>10 DEF Auth!Enter, Auth!Reload, Auth!server
  <2>2. at' \in [Page -> {"login", "app"}]
    BY <1>10 DEF Auth!Enter, Auth!Reload
  <2> QED BY <1>4, <1>5, <2>1, <2>2
<1>11. ASSUME NEW p \in Page, Auth!SendToLogin(p) \/ Auth!StartLogout(p) PROVE Quiet
  BY <1>11 DEF Auth!SendToLogin, Auth!StartLogout, Quiet, Auth!server, Auth!rotation
<1>12. ASSUME NEW p \in Page, Auth!FinishLogout(p) PROVE Quiet
  <2>1. \A q \in Page : refresh[q] = "rotating" => offered[q] \in live'
    BY <1>12 DEF Auth!FinishLogout, Auth!LockedBy
  <2>2. /\ UNCHANGED <<issued, login>> /\ stored' = Auth!Nothing /\ live' \subseteq live
        /\ at' = [at EXCEPT ![p] = "login"] /\ Auth!Unload(p)
    BY <1>12 DEF Auth!FinishLogout, Auth!ClearTokens
  <2> QED BY <1>4, <2>1, <2>2
<1> QED BY <1>1, <1>2, <1>3, <1>6, <1>7, <1>8, <1>9, <1>10, <1>11, <1>12 DEF Auth!CallStep

-----------------------------------------------------------------------------
(* The sessions: the steps that lock, issue or store. *)

\* A token is read under the lock of its row, which nobody else has.
LEMMA ReadTokenKeeps == ASSUME AuthInv, NEW p \in Page, Auth!ReadToken(p) PROVE AuthInv'
<1>1. /\ UNCHANGED <<stored, issued, live, login, offered>> /\ refresh[p] = "posted"
      /\ offered[p] \in live \/ refresh'[p] # "rotating"
  BY DEF Auth!ReadToken, Auth!server, AuthInv, Auth!TypeOK
<1>2. /\ refresh'[p] \in {"rotating", "revoking", "refused"}
      /\ \A q \in Page \ {p} : refresh'[q] = refresh[q] /\ granted'[q] = granted[q]
      /\ granted'[p] \in {granted[p], live}
  BY DEF Auth!ReadToken, AuthInv, Auth!TypeOK
<1>3. Auth!TypeOK'
  <2>1. /\ UNCHANGED <<stored, issued, live, login, at, call, offered, ended>>
        /\ \E answer \in {"rotating", "revoking", "refused"} :
                refresh' = [refresh EXCEPT ![p] = answer]
        /\ granted' = granted \/ granted' = [granted EXCEPT ![p] = live]
    BY DEF Auth!ReadToken, Auth!server
  <2>2. \A q \in Page : refresh'[q] # "none" => offered'[q] \in Auth!Token
    BY <1>1, <2>1 DEF AuthInv, Auth!TypeOK
  <2>3. refresh' \in [Page -> {"none", "posted", "rotating", "revoking", "granted", "refused"}]
    BY <2>1 DEF AuthInv, Auth!TypeOK
  <2>4. granted' \in [Page -> SUBSET Auth!Token]
    BY <2>1 DEF AuthInv, Auth!TypeOK
  <2> QED BY <2>1, <2>2, <2>3, <2>4 DEF AuthInv, Auth!TypeOK
<1>4. Known' /\ RotatesLive'
  BY <1>1, <1>2 DEF AuthInv, Known, RotatesLive
<1>5. LocksExclude'
  BY <1>1, <1>2 DEF Auth!ReadToken, Auth!LockedBy, AuthInv, LocksExclude, HoldsRow
<1>6. \A n \in Auth!Token : Latest(n)' <=> Latest(n)
  BY <1>1 DEF Latest
<1>7. LiveIsLatest'
  BY <1>1, <1>6 DEF AuthInv, Auth!TypeOK, LiveIsLatest
<1>8. GrantIsNews'
  BY <1>1, <1>2, <1>6 DEF AuthInv, GrantIsNews
<1> QED BY <1>3, <1>4, <1>5, <1>7, <1>8 DEF AuthInv

\* A new token is the newest of its sign-in, whether it begins one or succeeds
\* the newest; of another sign-in the newest stays so.
LEMMA IssueOrders ==
    ASSUME AuthInv, NEW n \in Auth!Token, n = issued + 1, issued' = n,
           NEW first \in Auth!Token, first <= n, login' = [login EXCEPT ![n] = first]
    PROVE  /\ Latest(n)'
           /\ \A m \in Auth!Token : Latest(m) /\ m <= issued /\ login[m] # first => Latest(m)'
           /\ \A m \in Auth!Token : m <= issued => login'[m] = login[m] /\ login[m] # n
BY DEF AuthInv, Auth!TypeOK, Known, Latest

\* Signing in.
LEMMA LoginKeeps == ASSUME AuthInv, NEW p \in Page, Auth!Login(p) PROVE AuthInv'
<1>1. PICK n \in Auth!Token : Auth!Issue(n, n) /\ Auth!SetTokens(n)
  BY DEF Auth!Login
<1>2. /\ UNCHANGED <<call, refresh, offered, granted, ended>>
      /\ at' = [at EXCEPT ![p] = "app"] /\ stored' = n
      /\ n = issued + 1 /\ issued' = n /\ live' = live \cup {n}
      /\ login' = [login EXCEPT ![n] = n]
  BY <1>1 DEF Auth!Login, Auth!rotation, Auth!Issue, Auth!SetTokens
<1> HIDE DEF Auth!Token
<1>3. Auth!TypeOK'
  BY <1>1, <1>2 DEF AuthInv, Auth!TypeOK, Auth!Issue, Auth!Token
<1>4. Known'
  BY <1>2 DEF AuthInv, Auth!TypeOK, Known, Auth!Token
<1>5. LocksExclude' /\ RotatesLive'
  BY <1>2 DEF AuthInv, LocksExclude, RotatesLive, HoldsRow
<1>6. Latest(n)' /\ \A m \in Auth!Token : Latest(m) /\ m <= issued => Latest(m)'
  <2>1. n <= n
    BY DEF Auth!Token
  <2> QED BY <1>2, <2>1, IssueOrders
<1>7. LiveIsLatest'
  BY <1>2, <1>6 DEF AuthInv, Auth!TypeOK, Known, LiveIsLatest
<1>8. GrantIsNews'
  <2>1. \A q \in Page : \A m \in granted[q] : m <= issued /\ m # n
    BY <1>2 DEF AuthInv, Auth!TypeOK, Known, Auth!Token
  <2> QED BY <1>2, <1>6, <2>1 DEF AuthInv, GrantIsNews
<1> QED BY <1>3, <1>4, <1>5, <1>7, <1>8 DEF AuthInv

\* The successor of the newest token of a sign-in is the newest; the answers on
\* their way are of other sign-ins.
LEMMA RotateKeeps == ASSUME AuthInv, NEW p \in Page, Auth!Rotate(p) PROVE AuthInv'
<1>1. PICK n \in Auth!Token, t \in Auth!Token :
      /\ UNCHANGED <<stored, at, call, offered, ended>>
      /\ refresh[p] = "rotating" /\ refresh' = [refresh EXCEPT ![p] = "granted"]
      /\ n = issued + 1 /\ issued' = n
      /\ t = offered[p] /\ live' = (live \ {t}) \cup {n}
      /\ login' = [login EXCEPT ![n] = login[t]]
      /\ granted' = [granted EXCEPT ![p] = {n}]
  <2>1. issued + 1 \in Auth!Token /\ offered[p] \in Auth!Token
    BY DEF Auth!Rotate, AuthInv, Auth!TypeOK
  <2> QED BY <2>1 DEF Auth!Rotate
<1>2. t \in live /\ t <= issued /\ login[t] \in Auth!Token /\ login[t] <= n
  BY <1>1 DEF AuthInv, Auth!TypeOK, Known, RotatesLive
<1>3. Latest(t)
  BY <1>2 DEF AuthInv, LiveIsLatest
<1>4. /\ Latest(n)'
      /\ \A m \in Auth!Token : Latest(m) /\ m <= issued /\ login[m] # login[t] => Latest(m)'
  BY <1>1, <1>2, IssueOrders
<1>5. \A m \in Auth!Token : Latest(m) /\ m <= issued /\ m # t => login[m] # login[t]
  BY <1>2, <1>3 DEF Latest
<1>6. Auth!TypeOK'
  <2>1. live' \subseteq Auth!Token /\ login' \in [Auth!Token -> Auth!Token \cup {Auth!Nothing}]
    BY <1>1, <1>2 DEF AuthInv, Auth!TypeOK
  <2>2. granted' \in [Page -> SUBSET Auth!Token]
    BY <1>1 DEF AuthInv, Auth!TypeOK
  <2>3. issued' \in 0 .. MaxIssued
    BY <1>1
  <2>4. /\ refresh' \in [Page -> {"none", "posted", "rotating", "revoking", "granted", "refused"}]
        /\ \A q \in Page : refresh'[q] # "none" => offered'[q] \in Auth!Token
    BY <1>1 DEF AuthInv, Auth!TypeOK
  <2> QED BY <1>1, <2>1, <2>2, <2>3, <2>4 DEF AuthInv, Auth!TypeOK
<1>7. Known'
  <2>1. stored' <= issued' /\ \A m \in live' : m <= issued'
    BY <1>1 DEF AuthInv, Auth!TypeOK, Known
  <2>2. \A q \in Page : offered'[q] <= issued'
    BY <1>1 DEF AuthInv, Auth!TypeOK, Known
  <2>3. \A q \in Page : \A m \in granted'[q] : m <= issued'
    BY <1>1 DEF AuthInv, Auth!TypeOK, Known
  <2>4. \A m \in Auth!Token : m <= issued' => login'[m] \in Auth!Token /\ login'[m] <= m
    BY <1>1, <1>2 DEF AuthInv, Auth!TypeOK, Known
  <2> QED BY <2>1, <2>2, <2>3, <2>4 DEF Known
<1>8. LocksExclude'
  BY <1>1 DEF AuthInv, Auth!TypeOK, LocksExclude, HoldsRow
<1>9. RotatesLive'
  BY <1>1 DEF AuthInv, Auth!TypeOK, LocksExclude, HoldsRow, RotatesLive
<1>10. LiveIsLatest'
  <2>1. \A m \in live \ {t} : m \in Auth!Token /\ m <= issued /\ Latest(m)
    BY DEF AuthInv, Auth!TypeOK, Known, LiveIsLatest
  <2>2. \A m \in live \ {t} : Latest(m)'
    BY <1>4, <1>5, <2>1
  <2> QED BY <1>1, <1>4, <2>2 DEF LiveIsLatest
<1>11. GrantIsNews'
  <2>1. stored # n /\ \A q \in Page : offered[q] # n /\ \A m \in granted[q] : m # n
    BY <1>1 DEF AuthInv, Auth!TypeOK, Known
  <2> SUFFICES ASSUME NEW q \in Page, refresh'[q] = "granted"
               PROVE  \E m \in Auth!Token :
                        /\ granted'[q] = {m}
                        /\ Latest(m)' /\ m # stored'
                        /\ \A r \in Page : offered'[r] # m
                        /\ \A r \in Page \ {q} : refresh'[r] = "granted" => m \notin granted'[r]
    BY DEF GrantIsNews
  <2>2. CASE q = p
    <3>1. granted'[p] = {n} /\ \A r \in Page \ {p} : granted'[r] = granted[r]
      BY <1>1 DEF AuthInv, Auth!TypeOK
    <3>2. \A r \in Page : \A m \in granted[r] : m # n
      BY <2>1
    <3>3. \A r \in Page \ {p} : n \notin granted'[r]
      BY <3>1, <3>2
    <3> QED BY <1>1, <1>4, <2>1, <2>2, <3>1, <3>3
  <2>3. CASE q # p
    <3>1. refresh[q] = "granted" /\ granted'[q] = granted[q]
      BY <1>1, <2>3 DEF AuthInv, Auth!TypeOK
    <3>2. PICK m \in Auth!Token :
            /\ granted[q] = {m}
            /\ Latest(m) /\ m # stored
            /\ \A r \in Page : offered[r] # m
            /\ \A r \in Page \ {q} : refresh[r] = "granted" => m \notin granted[r]
      BY <3>1 DEF AuthInv, GrantIsNews
    <3>3. m <= issued /\ m # t
      BY <1>1, <3>2 DEF AuthInv, Known
    <3>4. Latest(m)'
      BY <1>4, <1>5, <3>2, <3>3
    <3>5. \A r \in Page \ {q} : refresh'[r] = "granted" => m \notin granted'[r]
      BY <1>1, <2>1, <3>2 DEF AuthInv, Auth!TypeOK
    <3> QED BY <1>1, <3>1, <3>2, <3>4, <3>5
  <2> QED BY <2>2, <2>3
<1> QED BY <1>6, <1>7, <1>8, <1>9, <1>10, <1>11 DEF AuthInv

\* An answer is stored: nobody else has its pair.
LEMMA GrantedKeeps == ASSUME AuthInv, NEW p \in Page, Auth!Granted(p) PROVE AuthInv'
<1>1. PICK n \in Auth!Token :
        /\ granted[p] = {n}
        /\ \A q \in Page \ {p} : refresh[q] = "granted" => n \notin granted[q]
  BY DEF Auth!Granted, AuthInv, GrantIsNews
<1>2. /\ UNCHANGED <<issued, live, login, at, offered, ended>>
      /\ stored' = n
      /\ refresh[p] = "granted" /\ refresh' = [refresh EXCEPT ![p] = "none"]
      /\ granted' = [granted EXCEPT ![p] = {}]
  BY <1>1 DEF Auth!Granted, Auth!SetTokens, Auth!ForgetRefresh, Auth!server
<1>3. Auth!TypeOK'
  <2>1. call' \in [Call -> {"idle", "sent", "waiting"}]
    BY DEF Auth!Granted, Auth!SendAgain, AuthInv, Auth!TypeOK
  <2> QED BY <1>2, <2>1 DEF AuthInv, Auth!TypeOK
<1>4. Known'
  BY <1>1, <1>2 DEF AuthInv, Auth!TypeOK, Known
<1>5. LocksExclude' /\ RotatesLive'
  BY <1>2 DEF AuthInv, Auth!TypeOK, LocksExclude, RotatesLive, HoldsRow
<1>6. \A m \in Auth!Token : Latest(m)' <=> Latest(m)
  BY <1>2 DEF Latest
<1>7. LiveIsLatest'
  BY <1>2, <1>6 DEF AuthInv, Auth!TypeOK, LiveIsLatest
<1>8. GrantIsNews'
  <2>1. \A q \in Page : refresh'[q] = "granted" =>
            q # p /\ refresh[q] = "granted" /\ granted'[q] = granted[q]
    BY <1>2 DEF AuthInv, Auth!TypeOK
  <2> QED BY <1>1, <1>2, <1>6, <2>1 DEF AuthInv, GrantIsNews
<1> QED BY <1>3, <1>4, <1>5, <1>7, <1>8 DEF AuthInv

\* Every step keeps the invariant.
LEMMA AuthInductive == AuthInv /\ [Auth!Next]_Auth!vars => AuthInv'
<1> SUFFICES ASSUME AuthInv, [Auth!Next]_Auth!vars PROVE AuthInv'
  OBVIOUS
<1>1. ASSUME \/ \E c \in Call : Auth!Send(c) \/ Auth!CallStep(c)
             \/ \E p \in Page :
                  \/ Auth!RevokeAllForUser(p) \/ Auth!RefreshFails(p) \/ Auth!NotGranted(p)
                  \/ Auth!Enter(p) \/ Auth!SendToLogin(p) \/ Auth!Reload(p)
                  \/ Auth!StartLogout(p) \/ Auth!FinishLogout(p)
      PROVE  AuthInv'
  <2>1. Quiet
    BY <1>1, QuietSteps
  <2> QED BY <2>1, QuietKeeps DEF Quiet
<1>2. ASSUME NEW p \in Page,
             Auth!ReadToken(p) \/ Auth!Rotate(p) \/ Auth!Granted(p) \/ Auth!Login(p)
      PROVE  AuthInv'
  BY <1>2, ReadTokenKeeps, RotateKeeps, GrantedKeeps, LoginKeeps
<1>3. CASE UNCHANGED Auth!vars
  BY <1>3 DEF Auth!vars, Auth!server, Auth!rotation, AuthInv, Auth!TypeOK, Known, LocksExclude,
              HoldsRow, RotatesLive, LiveIsLatest, Latest, GrantIsNews
<1> QED BY <1>1, <1>2, <1>3 DEF Auth!Next, Auth!RefreshStep, Auth!PageStep

\* The invariant holds throughout.
LEMMA AuthHolds ==
    ASSUME Auth!HomeAssumption, Auth!MaxIssuedAssumption
    PROVE  Auth!Spec => []AuthInv
BY AuthStarts, AuthInductive, PTL DEF Auth!Spec

-----------------------------------------------------------------------------
(* The sessions: what the invariant gives. *)

\* Every variable keeps its type, and a refresh always has a token to present.
THEOREM TokensAreTokens ==
    ASSUME Auth!HomeAssumption, Auth!MaxIssuedAssumption
    PROVE  Auth!Spec => []Auth!TypeOK
<1>1. AuthInv => Auth!TypeOK
  BY DEF AuthInv
<1> QED BY AuthHolds, <1>1, PTL

\* However many pages present tokens of one sign-in at the same time, at most
\* one refresh token of it works.
THEOREM OneTokenPerLogin ==
    ASSUME Auth!HomeAssumption, Auth!MaxIssuedAssumption
    PROVE  Auth!Spec => []Auth!OneLivePerLogin
<1>1. AuthInv => Auth!OneLivePerLogin
  BY DEF AuthInv, Auth!TypeOK, Known, LiveIsLatest, Latest, Auth!OneLivePerLogin
<1> QED BY AuthHolds, <1>1, PTL

\* In whatever order the answers to refreshes arrive, local storage never goes
\* back to an older pair of the same sign-in.
THEOREM PairsGoForward ==
    ASSUME Auth!HomeAssumption, Auth!MaxIssuedAssumption
    PROVE  Auth!Spec => Auth!PairNeverGoesBack
<1> DEFINE Forward == Auth!IsLoggedIn /\ stored' \in Auth!Token /\ login'[stored'] = login[stored]
                        => stored' >= stored
<1>1. ASSUME AuthInv, [Auth!Next]_Auth!vars PROVE [Forward]_Auth!vars
  <2>1. ASSUME NEW p \in Page, Auth!Granted(p) PROVE Forward
    <3>1. PICK n \in Auth!Token : granted[p] = {n} /\ Latest(n)
      BY <1>1, <2>1 DEF Auth!Granted, AuthInv, GrantIsNews
    <3>2. stored' = n /\ login' = login
      BY <2>1, <3>1 DEF Auth!Granted, Auth!SetTokens, Auth!server
    <3> QED BY <1>1, <3>1, <3>2 DEF AuthInv, Auth!TypeOK, Known, Latest, Auth!IsLoggedIn
  <2>2. ASSUME NEW p \in Page, Auth!Login(p) PROVE Forward
    BY <1>1, <2>2 DEF Auth!Login, Auth!Issue, Auth!SetTokens, AuthInv, Auth!TypeOK, Known
  <2>3. CASE stored' \in {stored, Auth!Nothing}
    BY <1>1, <2>3 DEF AuthInv, Auth!TypeOK
  <2>4. ASSUME NEW p \in Page, Auth!ReadToken(p) \/ Auth!Rotate(p) PROVE stored' = stored
    BY <2>4 DEF Auth!ReadToken, Auth!Rotate
  <2>5. ASSUME \/ \E c \in Call : Auth!Send(c) \/ Auth!CallStep(c)
               \/ \E p \in Page :
                    \/ Auth!RevokeAllForUser(p) \/ Auth!RefreshFails(p) \/ Auth!NotGranted(p)
                    \/ Auth!Enter(p) \/ Auth!SendToLogin(p) \/ Auth!Reload(p)
                    \/ Auth!StartLogout(p) \/ Auth!FinishLogout(p)
        PROVE  stored' \in {stored, Auth!Nothing}
    BY <1>1, <2>5, QuietSteps DEF Quiet
  <2>6. CASE UNCHANGED Auth!vars
    BY <2>6 DEF Auth!vars
  <2> QED BY <1>1, <2>1, <2>2, <2>3, <2>4, <2>5, <2>6 DEF Auth!Next, Auth!RefreshStep, Auth!PageStep
<1> QED BY <1>1, AuthHolds, PTL DEF Auth!Spec, Auth!PairNeverGoesBack
=============================================================================
