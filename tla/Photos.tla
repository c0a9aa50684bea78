------------------------------- MODULE Photos -------------------------------
(***************************************************************************)
(* Photos of employees and of the account, from the pages that change them *)
(* to the table they are stored in.  A record holds no picture, an address *)
(* on the web, or the path of a stored photo.  A photo is stored and set   *)
(* in one transaction, which deletes the photo it replaces when no record  *)
(* refers to it; the row is locked when it is written, after the version   *)
(* was compared.  A PATCH may set the address to anything, a stored path   *)
(* included, and deletes nothing.                                          *)
(***************************************************************************)
EXTENDS Integers, FiniteSets

CONSTANTS
    Employee,
    Account,      \* the signed-in account, whose photo the profile shows
    Image,        \* photos
    Web,          \* an http address
    None,         \* no address
    Slot,         \* transactions that can be under way at once
    Nothing,      \* no sheet
    MaxHistory    \* bound: changes of an employee

ASSUME HistoryAssumption == MaxHistory \in Nat

ASSUME NamesAssumption ==
    Account \notin Employee /\ Image \cap {Web, None} = {} /\ Web # None

Holder == Employee \cup {Account}
Url == Image \cup {Web, None}

VARIABLES
    ref,         \* avatar_override_url
    version,     \* of the employees
    history,     \* changes there were of them, and one
    images,      \* avatar_image
    tx,          \* the transactions under way
    page,        \* the page of an employee
    sheet,       \* the address in the edit form
    profile,     \* the address the profile page was last given
    raced,       \* ghost: photos a PATCH took up while they were deleted
    abandoned    \* ghost: photos a PATCH dropped, or overlapping uploads did

server == <<ref, version, history, images>>
pages == <<page, sheet, profile>>
ghosts == <<raced, abandoned>>
vars == <<server, tx, pages, ghosts>>

Idle == [step |-> "none", kind |-> "photo", who |-> Account, expects |-> 1,
         new |-> None, prev |-> None, dooms |-> FALSE, here |-> FALSE]

Tx == [step : {"none", "read", "wrote", "done", "refused"},
       kind : {"photo", "patch"}, who : Holder, expects : 1 .. MaxHistory,
       new : Url, prev : Url, dooms : BOOLEAN, here : BOOLEAN]

Page == [who : Employee, version : 1 .. MaxHistory + 1, ref : Url,
         behind : BOOLEAN,    \* its own change is not read back yet
         foreign : BOOLEAN]   \* ghost: others changed the employee since it was read

TypeOK ==
    /\ ref \in [Holder -> Url]
    /\ version \in [Employee -> 1 .. MaxHistory + 1]
    /\ history \in [Employee -> 1 .. MaxHistory + 1]
    /\ images \subseteq Image
    /\ tx \in [Slot -> Tx]
    /\ page \in Page
    /\ sheet \in [who : Employee, version : 1 .. MaxHistory + 1, url : Url, touched : BOOLEAN]
                    \cup {Nothing}
    /\ profile \in Url
    /\ raced \subseteq Image /\ abandoned \subseteq Image

FreshPage(e) ==
    [who |-> e, version |-> version[e], ref |-> ref[e], behind |-> FALSE,
     foreign |-> FALSE]

Init ==
    /\ ref = [h \in Holder |-> None]
    /\ version = [e \in Employee |-> 1]
    /\ history = [e \in Employee |-> 1]
    /\ images = {}
    /\ tx = [s \in Slot |-> Idle]
    /\ page \in {FreshPage(e) : e \in Employee}
    /\ sheet = Nothing
    /\ profile = None
    /\ raced = {} /\ abandoned = {}

-----------------------------------------------------------------------------
(* Transactions. *)

Known ==
    images \cup {ref[h] : h \in Holder} \cup {tx[s].new : s \in Slot}
        \cup {tx[s].prev : s \in Slot} \cup {page.ref, profile} \cup raced \cup abandoned

Upload == CHOOSE i \in Image : i \notin Known

Settled(s) == [tx EXCEPT ![s] = Idle]

\* A request reaches the server, which compares the version and reads the record.
\* Bound: the changes of an employee are counted.
Begin(kind, h, expects, new, here) ==
    /\ sheet = Nothing \/ kind = "patch"
    /\ h \in Employee =>
        history[h] + Cardinality({s \in Slot : tx[s].who = h /\ tx[s].step # "none"}) <= MaxHistory
    /\ \E s \in Slot :
        /\ tx[s].step = "none"
        /\ tx' = [tx EXCEPT ![s] =
                [step |-> IF h \in Employee /\ version[h] # expects THEN "refused" ELSE "read",
                 kind |-> kind, who |-> h, expects |-> expects, new |-> new,
                 prev |-> ref[h], dooms |-> FALSE, here |-> here]]

Locked(h) == \E s \in Slot : tx[s].step = "wrote" /\ tx[s].who = h

\* MUTANT of Referred: nobody else is asked.
ReferredByNobody(url, h) == FALSE

\* discard_if_unused counts committed records, and its own row as written.
Referred(url, h) == \E g \in Holder \ {h} : ref[g] = url

\* The row is written, under its lock, and the photo it held looked up.
Write(s) ==
    LET t == tx[s] IN
    /\ t.step = "read"
    /\ ~Locked(t.who)
    /\ tx' = [tx EXCEPT ![s] =
                [t EXCEPT !.step = "wrote",
                          !.dooms = t.kind = "photo" /\ t.prev \in Image /\ t.prev # t.new
                                        /\ ~Referred(t.prev, t.who)]]
    /\ UNCHANGED <<server, pages, ghosts>>

\* What the row becomes: a value that was read and is set again is not written.
Row(t) == IF t.new = t.prev THEN ref[t.who] ELSE t.new

\* MUTANT of Stored: the photo that is replaced stays.
StoredBesides(t) ==
    images \cup (IF t.kind = "photo" /\ t.new \in Image THEN {t.new} ELSE {})

Stored(t) ==
    (images \cup (IF t.kind = "photo" /\ t.new \in Image THEN {t.new} ELSE {}))
        \ (IF t.dooms THEN {t.prev} ELSE {})

Doomed == {tx[s].prev : s \in {r \in Slot : tx[r].step = "wrote" /\ tx[r].dooms}}

Commit(s) ==
    LET t == tx[s] IN
    /\ t.step = "wrote"
    /\ tx' = IF t.here THEN [tx EXCEPT ![s].step = "done"] ELSE Settled(s)
    /\ ref' = [ref EXCEPT ![t.who] = Row(t)]
    /\ images' = Stored(t)
    /\ IF t.who \in Employee
       THEN /\ version' = [version EXCEPT ![t.who] = t.expects + 1]
            /\ history' = [history EXCEPT ![t.who] = @ + 1]
            /\ page' = [page EXCEPT !.foreign = @ \/ (t.who = page.who /\ ~t.here)]
       ELSE UNCHANGED <<version, history, page>>
    /\ raced' = raced \cup
            (IF t.kind = "patch" /\ t.new \in Image
                /\ (t.new \in Doomed \/ t.new \notin images)
             THEN {t.new} ELSE {})
    /\ abandoned' = abandoned \cup
            {i \in Image : /\ ref[t.who] = i /\ Row(t) # i
                           /\ (t.kind = "patch" \/ t.prev # i)}
            \cup (IF t.dooms \/ t.prev \notin Image \/ Row(t) = t.prev THEN {} ELSE
                    {i \in {t.prev} : \E r \in Slot \ {s} : tx[r].step \in {"read", "wrote"}})
    /\ UNCHANGED <<sheet, profile>>

-----------------------------------------------------------------------------
(* The page of an employee. *)

Busy == \E s \in Slot : tx[s].here /\ tx[s].who \in Employee /\ tx[s].kind = "photo"

BusyProfile == \E s \in Slot : tx[s].here /\ tx[s].who = Account

Show(e) ==
    /\ page' = FreshPage(e)
    /\ UNCHANGED <<server, tx, sheet, profile, ghosts>>

\* MUTANT of Reread: the version of the first reading is kept.
RereadOnlyPhoto ==
    /\ page' = [FreshPage(page.who) EXCEPT !.version = page.version]
    /\ UNCHANGED <<server, tx, sheet, profile, ghosts>>

Reread ==
    /\ page' = FreshPage(page.who)
    /\ UNCHANGED <<server, tx, sheet, profile, ghosts>>

\* AvatarEditor: a photo is picked, or the one there is removed.
ChangePhoto(url) ==
    /\ ~Busy
    /\ url = None => page.ref \in Image
    /\ Begin("photo", page.who, page.version, url, TRUE)
    /\ UNCHANGED <<server, pages, ghosts>>

ChangeProfilePhoto(url) ==
    /\ ~BusyProfile
    /\ url = None => profile \in Image
    /\ Begin("photo", Account, 1, url, TRUE)
    /\ UNCHANGED <<server, pages, ghosts>>

\* The same from another window, or by another client.
OthersChangePhoto(h, url) ==
    /\ Begin("photo", h, IF h = Account THEN 1 ELSE version[h], url, FALSE)
    /\ UNCHANGED <<server, pages, ghosts>>

\* A client that read a record writes its address back, to it or to another.
OthersPatch(e, url) ==
    /\ sheet = Nothing
    /\ url \in {ref[h] : h \in Holder} \cup {None}
    /\ Begin("patch", e, version[e], url, FALSE)
    /\ UNCHANGED <<server, pages, ghosts>>

\* The page is told, and reads the employee again; the profile is given the
\* answer itself.
Answered(s) ==
    LET t == tx[s] IN
    /\ t.step = "done"
    /\ tx' = Settled(s)
    /\ page' = [page EXCEPT !.behind = @ \/ (t.here /\ t.who = page.who)]
    /\ profile' = IF t.here /\ t.who = Account THEN t.new ELSE profile
    /\ UNCHANGED <<server, sheet, ghosts>>

\* The answer to a change that was made is lost.
Unanswered(s) ==
    /\ tx[s].step = "done"
    /\ tx' = Settled(s)
    /\ page' = [page EXCEPT !.foreign = @ \/ tx[s].who = page.who]
    /\ UNCHANGED <<server, sheet, profile, ghosts>>

\* VersionConflict: "this employee changed since it was loaded".
Conflicts(s) ==
    /\ tx[s].step = "refused"
    /\ tx' = Settled(s)
    /\ UNCHANGED <<server, pages, ghosts>>

\* The request is lost, or the transaction rolled back.
Lost(s) ==
    /\ tx[s].step \in {"read", "wrote"}
    /\ tx' = Settled(s)
    /\ UNCHANGED <<server, pages, ghosts>>

ReadProfile ==
    /\ profile' = ref[Account]
    /\ UNCHANGED <<server, tx, page, sheet, ghosts>>

-----------------------------------------------------------------------------
(* The edit sheet, as far as the address goes. *)

\* optionalUrl in the schema of the form.
Valid(url) == url \in {None, Web}

\* Bound: while nothing is under way.
OpenSheet(e) ==
    /\ sheet = Nothing
    /\ \A s \in Slot : tx[s].step = "none"
    /\ sheet' = [who |-> e, version |-> version[e], url |-> ref[e], touched |-> FALSE]
    /\ UNCHANGED <<server, tx, page, profile, ghosts>>

TypeUrl(url) ==
    /\ sheet # Nothing
    /\ url # sheet.url
    /\ sheet' = [sheet EXCEPT !.url = url, !.touched = TRUE]
    /\ UNCHANGED <<server, tx, page, profile, ghosts>>

CloseSheet ==
    /\ sheet # Nothing
    /\ sheet' = Nothing
    /\ UNCHANGED <<server, tx, page, profile, ghosts>>

\* A form that is not valid is not sent.  Here the sheet closes with the request.
SubmitSheet ==
    /\ sheet # Nothing
    /\ Valid(sheet.url)
    /\ Begin("patch", sheet.who, sheet.version, sheet.url, FALSE)
    /\ sheet' = Nothing
    /\ UNCHANGED <<server, page, profile, ghosts>>

-----------------------------------------------------------------------------
(* What a place that shows a picture shows. *)

\* EmployeeAvatar: a picture that does not load gives way to initials.
Displayed(url, gravatar) ==
    IF url = Web THEN "web"
    ELSE IF url \in images THEN "uploaded"
    ELSE IF url = None /\ gravatar = "found" THEN "gravatar"
    ELSE "initials"

\* MUTANT of InUse: a Gravatar comes first.
InUseGravatarFirst(url, gravatar) ==
    IF gravatar = "found" THEN "gravatar" ELSE IF url # None THEN "uploaded" ELSE "initials"

\* PictureCard, once it is known whether there is a Gravatar.
InUse(url, gravatar) ==
    IF url # None THEN "uploaded" ELSE IF gravatar = "found" THEN "gravatar" ELSE "initials"

-----------------------------------------------------------------------------
New == IF Image \subseteq Known THEN {None} ELSE {None, Upload}

ServerStep(s) == Write(s) \/ Commit(s)

ClientStep ==
    \/ \E url \in New : ChangePhoto(url) \/ ChangeProfilePhoto(url)
    \/ \E e \in Employee : Show(e) \/ OpenSheet(e)
    \/ Reread \/ ReadProfile
    \/ \E url \in {None, Web} : TypeUrl(url)
    \/ CloseSheet \/ SubmitSheet

Next ==
    \/ ClientStep
    \/ \E h \in Holder, url \in New : OthersChangePhoto(h, url)
    \/ \E e \in Employee, url \in Url : OthersPatch(e, url)
    \/ \E s \in Slot :
        ServerStep(s) \/ Answered(s) \/ Unanswered(s) \/ Conflicts(s) \/ Lost(s)

Spec == Init /\ [][Next]_vars

-----------------------------------------------------------------------------
(* Properties. *)

\* A photo that a record refers to is there, unless a PATCH took its path up
\* while it was being deleted.
PhotosAreThere ==
    \A h \in Holder : ref[h] \in Image => ref[h] \in images \cup raced

\* A photo that nobody refers to any more is deleted, unless a PATCH dropped
\* it, or two changes of a record overlapped.
NoPhotoIsLeft ==
    \A i \in images : (\E h \in Holder : ref[h] = i) \/ i \in abandoned

\* A change the page asks for is refused as a conflict only if somebody else
\* changed the employee since the page was read, or the page has not read its own
\* last change back.
ConflictIsReal ==
    [][\A s \in Slot :
        /\ tx[s].step = "none" /\ tx'[s].step = "refused"
        /\ tx'[s].here /\ tx'[s].who = page.who
        => page.foreign \/ page.behind]_vars

\* What the profile says is in use is what is shown, of a profile that is up to
\* date and whose photo nobody deleted while it was taken up.
CardTellsTheTruth ==
    \A gravatar \in {"found", "missing"} :
        profile = ref[Account] /\ profile \notin raced =>
            InUse(profile, gravatar) = Displayed(profile, gravatar)

\* "Uploaded avatar path survives a patch round trip": the form of an employee
\* can be sent as it opens.
FormOpensValid == sheet # Nothing /\ ~sheet.touched => Valid(sheet.url)
=============================================================================
