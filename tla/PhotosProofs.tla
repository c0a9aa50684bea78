---------------------------- MODULE PhotosProofs ----------------------------
(***************************************************************************)
(* Proofs about Photos, for any employees, photos and number of            *)
(* transactions under way.                                                 *)
(***************************************************************************)
EXTENDS Photos, TLAPS

USE NamesAssumption DEF Holder, Url

-----------------------------------------------------------------------------
(* The invariant. *)

Request == [step : {"none", "read", "wrote", "done", "refused"},
            kind : {"photo", "patch"}, who : Holder, expects : Int,
            new : Url, prev : Url, dooms : BOOLEAN, here : BOOLEAN]

\* The shape of what the server keeps; the bound on versions is not needed.
ServerShape ==
    /\ ref \in [Holder -> Url]
    /\ version \in [Employee -> Int]
    /\ images \subseteq Image
    /\ tx \in [Slot -> Request]

Uncommitted(s) == tx[s].step \in {"read", "wrote"}

\* Nobody refers to a photo that is not stored yet.
UploadsAreNew ==
    \A s \in Slot : tx[s].kind = "photo" /\ Uncommitted(s) /\ tx[s].new \in Image =>
        /\ tx[s].new \notin images
        /\ \A h \in Holder : ref[h] # tx[s].new
        /\ \A r \in Slot : tx[r].prev # tx[s].new /\ (r # s => tx[r].new # tx[s].new)

\* An account has a stored photo or none: a PATCH is about an employee.
AccountsTakePhotos ==
    /\ ref[Account] \in Image \cup {None}
    /\ \A s \in Slot : tx[s].who = Account =>
            tx[s].kind = "photo" /\ tx[s].new \in Image \cup {None}

OneWriter ==
    \A r, s \in Slot :
        r # s /\ tx[r].step = "wrote" /\ tx[s].step = "wrote" => tx[r].who # tx[s].who

Replaces(s) ==
    /\ tx[s].step = "wrote" /\ tx[s].kind = "photo"
    /\ tx[s].prev \in Image /\ tx[s].prev # tx[s].new

\* Whoever refers to a photo about to be deleted took it up meanwhile.
DoomedIsUnused ==
    \A s \in Slot : tx[s].step = "wrote" /\ tx[s].dooms =>
        /\ Replaces(s)
        /\ \A h \in Holder \ {tx[s].who} : ref[h] = tx[s].prev => tx[s].prev \in raced

\* A photo is replaced and not deleted because somebody else refers to it, or
\* did until a change that overlapped.
SparedIsUsed ==
    \A s \in Slot : Replaces(s) /\ ~tx[s].dooms =>
        \/ \E h \in Holder \ {tx[s].who} : ref[h] = tx[s].prev
        \/ tx[s].prev \notin images \/ tx[s].prev \in abandoned

Server ==
    /\ ServerShape /\ UploadsAreNew /\ AccountsTakePhotos /\ OneWriter
    /\ DoomedIsUnused /\ SparedIsUsed /\ PhotosAreThere /\ NoPhotoIsLeft

PageShape ==
    /\ page \in [who : Employee, version : Int, ref : Url, behind : BOOLEAN, foreign : BOOLEAN]
    /\ sheet \in [who : Employee, version : Int, url : Url, touched : BOOLEAN] \cup {Nothing}
    /\ \A s \in Slot : tx[s].here => tx[s].kind = "photo"

\* The page has the employee's version, unless somebody else changed it or its
\* own change is still to be read back.
PageKnows ==
    \/ page.foreign \/ page.behind \/ page.version = version[page.who]
    \/ \E s \in Slot : tx[s].here /\ tx[s].who = page.who /\ tx[s].step = "done"

IInv == Server /\ PageShape /\ PageKnows

\* It holds at the start: there are no photos.
LEMMA InitialHolds == Init => IInv
<1> SUFFICES ASSUME Init PROVE IInv
  OBVIOUS
<1>1. ServerShape
  BY DEF Init, ServerShape, Idle, Request
<1>2. UploadsAreNew /\ AccountsTakePhotos /\ OneWriter /\ DoomedIsUnused /\ SparedIsUsed
  BY DEF Init, UploadsAreNew, Uncommitted, AccountsTakePhotos, OneWriter, DoomedIsUnused,
         SparedIsUsed, Replaces, Idle
<1>3. PhotosAreThere /\ NoPhotoIsLeft
  BY DEF Init, PhotosAreThere, NoPhotoIsLeft
<1>4. PICK e \in Employee : page = FreshPage(e)
  BY DEF Init
<1>5. page.who = e /\ page.version = version[e] /\ version[e] \in Int /\ ref[e] \in Url
  BY <1>4 DEF Init, FreshPage
<1>6. PageShape
  BY <1>4, <1>5 DEF Init, PageShape, FreshPage, Idle
<1>7. PageKnows
  BY <1>5 DEF PageKnows
<1> QED BY <1>1, <1>2, <1>3, <1>6, <1>7 DEF IInv, Server

-----------------------------------------------------------------------------
(* The server. *)

\* A transaction that ends without committing.
LEMMA SettledKeeps ==
    ASSUME Server, NEW s \in Slot, tx' = Settled(s), UNCHANGED <<ref, version, images, ghosts>>
    PROVE  Server'
<1>1. tx'[s] = Idle /\ \A r \in Slot \ {s} : tx'[r] = tx[r]
  BY DEF Settled, Server, ServerShape
<1>2. ServerShape'
  BY DEF Settled, Idle, Server, ServerShape, Request
<1>3. UploadsAreNew'
  BY <1>1 DEF Idle, Server, UploadsAreNew, Uncommitted
<1>4. AccountsTakePhotos' /\ OneWriter'
  BY <1>1 DEF Idle, Server, AccountsTakePhotos, OneWriter
<1>5. DoomedIsUnused' /\ SparedIsUsed'
  BY <1>1 DEF Idle, Server, DoomedIsUnused, SparedIsUsed, Replaces, ghosts
<1>6. PhotosAreThere' /\ NoPhotoIsLeft'
  BY DEF Server, PhotosAreThere, NoPhotoIsLeft, ghosts
<1> QED BY <1>2, <1>3, <1>4, <1>5, <1>6 DEF Server

\* A request reaches the server.
LEMMA BeginKeeps ==
    ASSUME Server, UNCHANGED <<ref, version, images, ghosts>>,
           NEW kind \in {"photo", "patch"}, NEW h \in Holder, NEW expects \in Int,
           NEW new \in Url, NEW here \in BOOLEAN,
           h = Account => kind = "photo" /\ new \in Image \cup {None},
           kind = "photo" => new = None \/ new \notin Known,
           kind = "patch" => new \in {Web, None} \cup {ref[g] : g \in Holder},
           Begin(kind, h, expects, new, here)
    PROVE  Server'
<1>1. PICK s \in Slot, step \in {"read", "refused"} :
        /\ tx[s].step = "none"
        /\ tx' = [tx EXCEPT ![s] =
                    [step |-> step, kind |-> kind, who |-> h, expects |-> expects, new |-> new,
                     prev |-> ref[h], dooms |-> FALSE, here |-> here]]
  BY DEF Begin
<1>2. /\ \A r \in Slot \ {s} : tx'[r] = tx[r]
      /\ tx'[s] = [step |-> step, kind |-> kind, who |-> h, expects |-> expects, new |-> new,
                   prev |-> ref[h], dooms |-> FALSE, here |-> here]
  BY <1>1 DEF Server, ServerShape
<1>3. ServerShape'
  BY <1>1 DEF Server, ServerShape, Request
<1>4. UploadsAreNew'
  <2> SUFFICES ASSUME NEW r \in Slot, tx'[r].kind = "photo", Uncommitted(r)', tx'[r].new \in Image
               PROVE  /\ tx'[r].new \notin images
                      /\ \A g \in Holder : ref[g] # tx'[r].new
                      /\ \A q \in Slot : tx'[q].prev # tx'[r].new /\ (q # r => tx'[q].new # tx'[r].new)
    BY DEF UploadsAreNew
  <2>1. CASE r = s
    <3>1. new \notin Known
      BY <1>2, <2>1
    <3>2. /\ new \notin images /\ \A g \in Holder : ref[g] # new
          /\ \A q \in Slot : tx[q].prev # new /\ tx[q].new # new
      BY <3>1 DEF Known
    <3> QED BY <1>2, <2>1, <3>2
  <2>2. CASE r # s
    <3>1. /\ tx[r].new \notin images /\ \A g \in Holder : ref[g] # tx[r].new
          /\ \A q \in Slot : tx[q].prev # tx[r].new /\ (q # r => tx[q].new # tx[r].new)
      BY <1>2, <2>2 DEF Server, UploadsAreNew, Uncommitted
    <3>2. new # tx[r].new
      <4>1. CASE kind = "photo"
        <5>1. new \in Image => new \notin {tx[q].new : q \in Slot}
          BY <4>1 DEF Known
        <5> QED BY <1>2, <2>2, <5>1
      <4>2. CASE kind = "patch"
        BY <1>2, <2>2, <3>1, <4>2
      <4> QED BY <4>1, <4>2
    <3> QED BY <1>2, <2>2, <3>1, <3>2
  <2> QED BY <2>1, <2>2
<1>5. AccountsTakePhotos' /\ OneWriter'
  BY <1>2 DEF Server, AccountsTakePhotos, OneWriter
<1>6. DoomedIsUnused' /\ SparedIsUsed'
  BY <1>2 DEF Server, DoomedIsUnused, SparedIsUsed, Replaces, ghosts
<1>7. PhotosAreThere' /\ NoPhotoIsLeft'
  BY DEF Server, PhotosAreThere, NoPhotoIsLeft, ghosts
<1> QED BY <1>3, <1>4, <1>5, <1>6, <1>7 DEF Server

\* The row is written: from here on its lock is held.
LEMMA WriteKeeps == ASSUME Server, NEW s \in Slot, Write(s) PROVE Server'
<1> DEFINE Doom == /\ tx[s].kind = "photo" /\ tx[s].prev \in Image
                   /\ tx[s].prev # tx[s].new
                   /\ ~Referred(tx[s].prev, tx[s].who)
<1>1. PICK dooms \in BOOLEAN : dooms = Doom
  OBVIOUS
<1>2. /\ UNCHANGED <<ref, version, images, raced, abandoned>>
      /\ tx[s].step = "read" /\ ~Locked(tx[s].who)
      /\ tx' = [tx EXCEPT ![s] = [tx[s] EXCEPT !.step = "wrote", !.dooms = dooms]]
  BY <1>1 DEF Write, server, ghosts
<1>3. \A r \in Slot \ {s} : tx'[r] = tx[r]
  BY <1>2 DEF Server, ServerShape
<1>4. /\ tx'[s].step = "wrote" /\ tx'[s].kind = tx[s].kind /\ tx'[s].who = tx[s].who
      /\ tx'[s].new = tx[s].new /\ tx'[s].prev = tx[s].prev /\ tx'[s].dooms = dooms
  BY <1>2 DEF Server, ServerShape, Request
<1>5. ServerShape'
  <2>1. tx[s] \in Request
    BY DEF Server, ServerShape
  <2>2. [tx[s] EXCEPT !.step = "wrote", !.dooms = dooms] \in Request
    BY <2>1 DEF Request
  <2> QED BY <1>2, <2>2 DEF Server, ServerShape
<1>6. UploadsAreNew'
  BY <1>2, <1>3, <1>4 DEF Server, UploadsAreNew, Uncommitted
<1>7. AccountsTakePhotos' /\ OneWriter'
  BY <1>2, <1>3, <1>4 DEF Server, AccountsTakePhotos, OneWriter, Locked
<1>8. DoomedIsUnused'
  BY <1>1, <1>2, <1>3, <1>4 DEF Server, DoomedIsUnused, Replaces, Referred
<1>9. SparedIsUsed'
  BY <1>1, <1>2, <1>3, <1>4 DEF Server, SparedIsUsed, Replaces, Referred
<1>10. PhotosAreThere' /\ NoPhotoIsLeft'
  BY <1>2 DEF Server, PhotosAreThere, NoPhotoIsLeft
<1> QED BY <1>5, <1>6, <1>7, <1>8, <1>9, <1>10 DEF Server

\* A transaction commits.
LEMMA CommitKeeps == ASSUME Server, NEW s \in Slot, Commit(s) PROVE Server'
<1> DEFINE who == tx[s].who
           Dropped == ref[who] \in Image /\ Row(tx[s]) # ref[who]
<1> USE DEF Server
<1>1. /\ tx[s].step = "wrote"
      /\ ref' = [ref EXCEPT ![tx[s].who] = Row(tx[s])]
      /\ images' = Stored(tx[s])
      /\ tx' = [tx EXCEPT ![s].step = "done"] \/ tx' = Settled(s)
  BY DEF Commit
<1>2. /\ \A r \in Slot \ {s} : tx'[r] = tx[r]
      /\ tx'[s] \in {Idle, [tx[s] EXCEPT !.step = "done"]}
  BY <1>1 DEF ServerShape, Settled
<1>3. /\ tx'[s].step \in {"none", "done"}
      /\ tx'[s] = Idle \/ (/\ tx'[s].kind = tx[s].kind /\ tx'[s].who = tx[s].who
                            /\ tx'[s].new = tx[s].new /\ tx'[s].prev = tx[s].prev)
  <2>1. tx[s] \in Request
    BY DEF ServerShape
  <2>2. CASE tx'[s] = Idle
    BY <2>2 DEF Idle
  <2>3. CASE tx'[s] = [tx[s] EXCEPT !.step = "done"]
    BY <2>1, <2>3 DEF Request
  <2> QED BY <1>2, <2>2, <2>3
<1>4. /\ who \in Holder /\ tx[s].new \in Url /\ tx[s].prev \in Url /\ tx[s].kind \in {"photo", "patch"}
      /\ ref[who] \in Url /\ Row(tx[s]) \in Url /\ tx[s].expects \in Int
  BY DEF ServerShape, Request, Row
<1>5. ref'[who] = Row(tx[s]) /\ \A h \in Holder \ {who} : ref'[h] = ref[h]
  BY <1>1, <1>4 DEF ServerShape
\* Ghosts.
<1>6. raced \subseteq raced' /\ abandoned \subseteq abandoned'
  BY DEF Commit
<1>7. tx[s].kind = "patch" /\ tx[s].new \in Image /\ (tx[s].new \in Doomed \/ tx[s].new \notin images)
        => tx[s].new \in raced'
  BY DEF Commit
<1>8. Dropped /\ (tx[s].kind = "patch" \/ tx[s].prev # ref[who]) => ref[who] \in abandoned'
  BY DEF Commit
<1>9. /\ ~tx[s].dooms /\ tx[s].prev \in Image /\ Row(tx[s]) # tx[s].prev
      /\ \E r \in Slot \ {s} : Uncommitted(r)
      => tx[s].prev \in abandoned'
  BY DEF Commit, Uncommitted
<1>10. tx[s].kind = "photo" /\ tx[s].new \in Image =>
        /\ tx[s].new \notin images /\ tx[s].prev # tx[s].new
        /\ \A h \in Holder : ref[h] # tx[s].new
        /\ \A r \in Slot \ {s} : tx[r].prev # tx[s].new /\ tx[r].new # tx[s].new
  BY <1>1 DEF UploadsAreNew, Uncommitted
<1>11. tx[s].dooms => Replaces(s) /\ \A h \in Holder \ {who} : ref[h] = tx[s].prev => tx[s].prev \in raced
  BY <1>1 DEF DoomedIsUnused
<1>12. /\ \A i \in images' : i \in images \/ (i = tx[s].new /\ tx[s].kind = "photo" /\ i \in Image)
       /\ \A i \in images : i \in images' \/ (tx[s].dooms /\ i = tx[s].prev)
       /\ tx[s].dooms => tx[s].prev \notin images'
       /\ tx[s].kind = "photo" /\ tx[s].new \in Image => tx[s].new \in images'
  BY <1>1, <1>10 DEF Stored
<1>13. \A r \in Slot \ {s} : tx[r].step = "wrote" => tx[r].who # who
  BY <1>1 DEF OneWriter
\* A photo whom the committed row no longer names is deleted, abandoned, or spared.
<1>14. Dropped => \/ ref[who] \in abandoned' \/ ref[who] \notin images'
               \/ /\ Replaces(s) /\ ~tx[s].dooms /\ tx[s].prev = ref[who]
                  /\ \A r \in Slot \ {s} : ~Uncommitted(r)
  BY <1>1, <1>4, <1>8, <1>9, <1>12 DEF Replaces, Row
<1>15. ServerShape'
  <2>1. version' \in [Employee -> Int]
    BY <1>4 DEF Commit, ServerShape
  <2>2. ref' \in [Holder -> Url]
    BY <1>1, <1>4 DEF ServerShape
  <2>3. tx' \in [Slot -> Request]
    <3>1. tx[s] \in Request
      BY DEF ServerShape
    <3>2. [tx[s] EXCEPT !.step = "done"] \in Request
      BY <3>1 DEF Request
    <3>3. Idle \in Request
      BY DEF Idle, Request
    <3> QED BY <1>1, <3>2, <3>3 DEF ServerShape, Settled
  <2>4. images' \subseteq Image
    BY <1>12 DEF ServerShape
  <2> QED BY <2>1, <2>2, <2>3, <2>4 DEF ServerShape
<1>16. UploadsAreNew'
  <2> SUFFICES ASSUME NEW r \in Slot, tx'[r].kind = "photo", Uncommitted(r)', tx'[r].new \in Image
               PROVE  /\ tx'[r].new \notin images'
                      /\ \A h \in Holder : ref'[h] # tx'[r].new
                      /\ \A q \in Slot : tx'[q].prev # tx'[r].new /\ (q # r => tx'[q].new # tx'[r].new)
    BY DEF UploadsAreNew
  <2>1. r # s /\ tx'[r] = tx[r]
    BY <1>2, <1>3 DEF Uncommitted
  <2>2. /\ tx[r].new \notin images /\ \A h \in Holder : ref[h] # tx[r].new
        /\ \A q \in Slot : tx[q].prev # tx[r].new /\ (q # r => tx[q].new # tx[r].new)
    BY <2>1 DEF UploadsAreNew, Uncommitted
  <2>3. tx'[s].prev # tx[r].new /\ tx'[s].new # tx[r].new
    BY <1>3, <2>1, <2>2 DEF Idle
  <2>4. \A h \in Holder : ref'[h] # tx[r].new
    BY <1>4, <1>5, <2>1, <2>2 DEF Row
  <2> QED BY <1>2, <1>12, <2>1, <2>2, <2>3, <2>4
<1>17. AccountsTakePhotos'
  BY <1>2, <1>3, <1>4, <1>5 DEF AccountsTakePhotos, Row, Idle
<1>18. OneWriter'
  BY <1>2, <1>3 DEF OneWriter
<1>19. DoomedIsUnused'
  <2> SUFFICES ASSUME NEW r \in Slot, tx'[r].step = "wrote", tx'[r].dooms
               PROVE  /\ Replaces(r)'
                      /\ \A h \in Holder \ {tx'[r].who} : ref'[h] = tx'[r].prev => tx'[r].prev \in raced'
    BY DEF DoomedIsUnused
  <2>1. r # s /\ tx'[r] = tx[r]
    BY <1>2, <1>3
  <2>2. Replaces(r) /\ \A h \in Holder \ {tx[r].who} : ref[h] = tx[r].prev => tx[r].prev \in raced
    BY <2>1 DEF DoomedIsUnused
  <2>3. Replaces(r)'
    BY <2>1, <2>2 DEF Replaces
  <2>4. tx[r].prev \in Doomed
    BY <2>1 DEF Doomed
  <2>5. Row(tx[s]) = tx[r].prev => Row(tx[s]) = ref[who] \/ tx[r].prev \in raced'
    BY <1>4, <1>7, <1>10, <2>1, <2>2, <2>4 DEF Row, Replaces
  <2>6. who # tx[r].who
    BY <1>13, <2>1
  <2> QED BY <1>4, <1>5, <1>6, <2>1, <2>2, <2>3, <2>5, <2>6
<1>20. SparedIsUsed'
  <2> SUFFICES ASSUME NEW r \in Slot, Replaces(r)', ~tx'[r].dooms
               PROVE  \/ \E h \in Holder \ {tx'[r].who} : ref'[h] = tx'[r].prev
                      \/ tx'[r].prev \notin images' \/ tx'[r].prev \in abandoned'
    BY DEF SparedIsUsed
  <2>1. r # s /\ tx'[r] = tx[r] /\ tx[r].step = "wrote" /\ tx[r].prev \in Image
    BY <1>2, <1>3 DEF Replaces
  <2>2. \/ \E h \in Holder \ {tx[r].who} : ref[h] = tx[r].prev
        \/ tx[r].prev \notin images \/ tx[r].prev \in abandoned
    BY <2>1 DEF SparedIsUsed, Replaces
  <2>3. tx[r].prev \notin images => tx[r].prev \notin images'
    BY <1>10, <1>12, <2>1
  <2>4. ref[who] = tx[r].prev => \/ Row(tx[s]) = tx[r].prev \/ tx[r].prev \notin images'
                                 \/ tx[r].prev \in abandoned'
    BY <1>14, <2>1 DEF Uncommitted
  <2>5. who # tx[r].who
    BY <1>13, <2>1
  <2> QED BY <1>4, <1>5, <1>6, <2>1, <2>2, <2>3, <2>4, <2>5
<1>21. PhotosAreThere'
  <2> SUFFICES ASSUME NEW h \in Holder, ref'[h] \in Image PROVE ref'[h] \in images' \cup raced'
    BY DEF PhotosAreThere
  <2>1. CASE h # who \/ Row(tx[s]) = ref[who]
    <3>1. ref'[h] = ref[h] /\ ref[h] \in images \cup raced
      BY <1>4, <1>5, <2>1 DEF PhotosAreThere
    <3>2. tx[s].dooms /\ ref[h] = tx[s].prev => ref[h] \in raced
      BY <1>4, <1>5, <1>11, <2>1, <3>1 DEF Replaces, Row
    <3> QED BY <1>6, <1>12, <3>1, <3>2
  <2>2. CASE h = who /\ Row(tx[s]) # ref[who]
    <3>1. ref'[h] = tx[s].new /\ tx[s].new # tx[s].prev
      BY <1>5, <2>2 DEF Row
    <3>2. tx[s].kind = "patch" => ~tx[s].dooms
      BY <1>11 DEF Replaces
    <3> QED BY <1>4, <1>7, <1>12, <3>1, <3>2
  <2> QED BY <2>1, <2>2
<1>22. NoPhotoIsLeft'
  <2> SUFFICES ASSUME NEW i \in images'
               PROVE  (\E h \in Holder : ref'[h] = i) \/ i \in abandoned'
    BY DEF NoPhotoIsLeft
  <2>1. CASE i \notin images
    BY <1>4, <1>5, <1>10, <1>12, <2>1 DEF Row
  <2>2. CASE i \in images /\ i \in abandoned
    BY <1>6, <2>2
  <2>3. ASSUME i \in images, NEW h \in Holder, ref[h] = i
        PROVE  (\E g \in Holder : ref'[g] = i) \/ i \in abandoned'
    <3>1. CASE h # who \/ Row(tx[s]) = i
      BY <1>4, <1>5, <2>3, <3>1
    <3>2. CASE h = who /\ Row(tx[s]) # i
      <4>1. Dropped
        BY <2>3, <3>2 DEF ServerShape
      <4>2. CASE Replaces(s) /\ ~tx[s].dooms /\ tx[s].prev = i
        <5>1. \/ \E g \in Holder \ {who} : ref[g] = i
              \/ i \notin images \/ i \in abandoned
          BY <4>2 DEF SparedIsUsed
        <5> QED BY <1>5, <1>6, <2>3, <5>1
      <4> QED BY <1>14, <2>3, <3>2, <4>1, <4>2
    <3> QED BY <3>1, <3>2
  <2> QED BY <2>1, <2>2, <2>3 DEF NoPhotoIsLeft
<1> QED BY <1>15, <1>16, <1>17, <1>18, <1>19, <1>20, <1>21, <1>22

-----------------------------------------------------------------------------
(* The page. *)

\* A step that leaves the page alone, and what it shows of the server, keeps its
\* part.
LEMMA PageStays ==
    ASSUME PageShape, PageKnows, UNCHANGED <<page, sheet, version>>,
           \A s \in Slot : /\ tx'[s].here => tx'[s].kind = "photo"
                           /\ tx[s].step = "done" => tx'[s] = tx[s]
    PROVE  PageShape' /\ PageKnows'
<1>1. PageShape'
  BY DEF PageShape
<1>2. CASE page.foreign \/ page.behind \/ page.version = version[page.who]
  BY <1>1, <1>2 DEF PageKnows
<1>3. ASSUME NEW s \in Slot, tx[s].here, tx[s].who = page.who, tx[s].step = "done"
      PROVE  PageKnows'
  <2>1. tx'[s] = tx[s]
    BY <1>3
  <2> QED BY <1>3, <2>1 DEF PageKnows
<1> QED BY <1>1, <1>2, <1>3 DEF PageKnows

\* A request begins: the page's own are about photos.
LEMMA PageAtBegin ==
    ASSUME IInv, UNCHANGED <<page, version>>,
           sheet' \in [who : Employee, version : Int, url : Url, touched : BOOLEAN] \cup {Nothing},
           NEW kind, NEW h, NEW expects, NEW new, NEW here, here => kind = "photo",
           Begin(kind, h, expects, new, here)
    PROVE  PageShape' /\ PageKnows'
<1>1. PICK s \in Slot, step \in {"read", "refused"} :
        /\ tx[s].step = "none"
        /\ tx' = [tx EXCEPT ![s] =
                    [step |-> step, kind |-> kind, who |-> h, expects |-> expects, new |-> new,
                     prev |-> ref[h], dooms |-> FALSE, here |-> here]]
  BY DEF Begin
<1>2. /\ tx'[s].here = here /\ tx'[s].kind = kind
      /\ \A r \in Slot \ {s} : tx'[r] = tx[r]
  BY <1>1 DEF IInv, Server, ServerShape
<1>3. PageShape'
  BY <1>2 DEF IInv, PageShape
<1>4. PageKnows'
  BY <1>1, <1>2 DEF IInv, PageKnows
<1> QED BY <1>3, <1>4

\* The page is read, for this employee or another.
LEMMA PageAtRead ==
    ASSUME IInv, NEW e \in Employee, page' = FreshPage(e), UNCHANGED <<server, tx, sheet>>
    PROVE  PageShape' /\ PageKnows'
<1>1. page'.who = e /\ page'.version = version[e] /\ version[e] \in Int /\ ref[e] \in Url
  BY DEF FreshPage, IInv, Server, ServerShape
<1> QED BY <1>1 DEF FreshPage, PageShape, PageKnows, IInv, server

\* A commit: the page's own is answered later, any other makes it out of date.
LEMMA PageAtCommit == ASSUME IInv, NEW s \in Slot, Commit(s) PROVE PageShape' /\ PageKnows'
<1>1. tx[s] \in Request
  BY DEF IInv, Server, ServerShape
<1>2. /\ \A r \in Slot \ {s} : tx'[r] = tx[r]
      /\ tx[s].step = "wrote" /\ sheet' = sheet
      /\ tx[s].here => tx'[s] = [tx[s] EXCEPT !.step = "done"]
      /\ ~tx[s].here => tx'[s] = Idle
  BY DEF Commit, Settled, IInv, Server, ServerShape
<1>3. /\ tx'[s].here <=> tx[s].here
      /\ tx[s].here => /\ tx'[s].kind = tx[s].kind /\ tx'[s].who = tx[s].who
                       /\ tx'[s].step = "done"
  BY <1>1, <1>2 DEF Request, Idle
<1>4. \A r \in Slot : tx'[r].here => tx'[r].kind = "photo"
  BY <1>2, <1>3 DEF IInv, PageShape
<1>5. CASE tx[s].who \notin Employee
  <2>1. UNCHANGED <<page, sheet, version>> /\ page.who # tx[s].who
    BY <1>5 DEF Commit, IInv, PageShape
  <2>2. PageShape'
    BY <1>4, <2>1 DEF IInv, PageShape
  <2>3. CASE page.foreign \/ page.behind \/ page.version = version[page.who]
    BY <2>1, <2>2, <2>3 DEF PageKnows
  <2>4. ASSUME NEW r \in Slot, tx[r].here, tx[r].who = page.who, tx[r].step = "done"
        PROVE  PageKnows'
    <3>1. tx'[r] = tx[r]
      BY <1>2, <2>4
    <3> QED BY <2>1, <2>4, <3>1 DEF PageKnows
  <2> QED BY <2>2, <2>3, <2>4 DEF IInv, PageKnows
<1>6. CASE tx[s].who \in Employee
  <2> DEFINE Foreign == page.foreign \/ (tx[s].who = page.who /\ ~tx[s].here)
  <2>1. PICK foreign \in BOOLEAN : foreign = Foreign
    OBVIOUS
  <2>2. /\ page' = [page EXCEPT !.foreign = foreign]
        /\ version' = [version EXCEPT ![tx[s].who] = tx[s].expects + 1]
    BY <1>6, <2>1 DEF Commit
  <2>3. /\ page'.who = page.who /\ page'.version = page.version
        /\ page'.behind = page.behind /\ page'.foreign = foreign
        /\ page' \in [who : Employee, version : Int, ref : Url, behind : BOOLEAN, foreign : BOOLEAN]
    BY <2>2 DEF IInv, PageShape
  <2>4. PageShape'
    BY <1>2, <1>4, <2>3 DEF IInv, PageShape
  <2>5. CASE page.foreign \/ page.behind
    BY <2>1, <2>3, <2>4, <2>5 DEF PageKnows
  <2>6. CASE tx[s].who = page.who
    BY <1>3, <2>1, <2>3, <2>4, <2>6 DEF PageKnows
  <2>7. CASE tx[s].who # page.who /\ page.version = version[page.who]
    <3>1. version'[page.who] = version[page.who]
      BY <2>2, <2>7 DEF IInv, PageShape, Server, ServerShape
    <3> QED BY <2>3, <2>4, <2>7, <3>1 DEF PageKnows
  <2>8. ASSUME NEW r \in Slot, tx[r].here, tx[r].who = page.who, tx[r].step = "done"
        PROVE  PageKnows'
    <3>1. tx'[r] = tx[r]
      BY <1>2, <2>8
    <3> QED BY <2>3, <2>8, <3>1 DEF PageKnows
  <2> QED BY <2>4, <2>5, <2>6, <2>7, <2>8 DEF IInv, PageKnows
<1> QED BY <1>5, <1>6

\* An answer that arrives, or is lost, puts the page behind.
LEMMA PageAtEnd ==
    ASSUME IInv, NEW s \in Slot, Answered(s) \/ Unanswered(s) \/ Conflicts(s) \/ Lost(s)
    PROVE  PageShape' /\ PageKnows'
<1>1. /\ tx'[s] = Idle /\ \A r \in Slot \ {s} : tx'[r] = tx[r]
      /\ UNCHANGED <<version, sheet>>
  BY DEF Answered, Unanswered, Conflicts, Lost, Settled, server, pages, IInv, Server, ServerShape
<1>2. \A r \in Slot : tx'[r].here => tx'[r].kind = "photo"
  BY <1>1 DEF IInv, PageShape, Idle
<1>3. PICK behind \in BOOLEAN, foreign \in BOOLEAN :
        /\ page' = [page EXCEPT !.behind = behind, !.foreign = foreign]
        /\ page.foreign \/ page.behind => foreign \/ behind
        /\ tx[s].step = "done" /\ tx[s].here /\ tx[s].who = page.who => foreign \/ behind
  <2> DEFINE Behind == page.behind \/ (tx[s].here /\ tx[s].who = page.who)
             Foreign == page.foreign \/ tx[s].who = page.who
  <2>1. page \in [who : Employee, version : Int, ref : Url, behind : BOOLEAN, foreign : BOOLEAN]
    BY DEF IInv, PageShape
  <2>2. page = [page EXCEPT !.behind = page.behind, !.foreign = page.foreign]
    BY <2>1
  <2>3. CASE Answered(s)
    <3>1. PICK behind \in BOOLEAN : behind = Behind
      OBVIOUS
    <3>2. page' = [page EXCEPT !.behind = behind]
      BY <2>3, <3>1 DEF Answered
    <3>3. page' = [page EXCEPT !.behind = behind, !.foreign = page.foreign]
      BY <2>1, <3>2
    <3> QED BY <2>1, <3>1, <3>3
  <2>4. CASE Unanswered(s)
    <3>1. PICK foreign \in BOOLEAN : foreign = Foreign
      OBVIOUS
    <3>2. page' = [page EXCEPT !.foreign = foreign]
      BY <2>4, <3>1 DEF Unanswered
    <3>3. page' = [page EXCEPT !.behind = page.behind, !.foreign = foreign]
      BY <2>1, <3>2
    <3> QED BY <2>1, <3>1, <3>3
  <2>5. CASE Conflicts(s) \/ Lost(s)
    BY <2>1, <2>2, <2>5 DEF Conflicts, Lost, pages
  <2> QED BY <2>3, <2>4, <2>5
<1>4. /\ page'.who = page.who /\ page'.version = page.version
      /\ page'.behind = behind /\ page'.foreign = foreign
      /\ page' \in [who : Employee, version : Int, ref : Url, behind : BOOLEAN, foreign : BOOLEAN]
  BY <1>3 DEF IInv, PageShape
<1>5. PageShape'
  BY <1>1, <1>2, <1>4 DEF IInv, PageShape
<1>6. CASE page.foreign \/ page.behind \/ page.version = version[page.who]
  BY <1>1, <1>3, <1>4, <1>5, <1>6 DEF PageKnows
<1>7. ASSUME NEW r \in Slot, tx[r].here, tx[r].who = page.who, tx[r].step = "done"
      PROVE  PageKnows'
  <2>1. CASE r = s
    BY <1>3, <1>4, <1>7, <2>1 DEF PageKnows
  <2>2. CASE r # s
    <3>1. tx'[r] = tx[r]
      BY <1>1, <2>2
    <3> QED BY <1>4, <1>7, <3>1 DEF PageKnows
  <2> QED BY <2>1, <2>2
<1> QED BY <1>5, <1>6, <1>7 DEF IInv, PageKnows

-----------------------------------------------------------------------------
(* Every step. *)

\* The requests that begin.
LEMMA RequestKeeps ==
    ASSUME IInv,
           \/ \E url \in New : ChangePhoto(url) \/ ChangeProfilePhoto(url)
           \/ \E h \in Holder, url \in New : OthersChangePhoto(h, url)
           \/ \E e \in Employee, url \in Url : OthersPatch(e, url)
           \/ SubmitSheet
    PROVE  IInv'
<1> USE DEF IInv
<1>1. \A url \in New : url \in Url /\ (url = None \/ (url \in Image /\ url \notin Known))
  BY DEF New, Upload
<1>2. /\ page.who \in Employee /\ page.version \in Int /\ Account \notin Employee
      /\ \A e \in Employee : version[e] \in Int
  BY DEF PageShape, Server, ServerShape
<1>3. ASSUME NEW url \in New, ChangePhoto(url) PROVE IInv'
  <2>1. /\ Begin("photo", page.who, page.version, url, TRUE)
        /\ UNCHANGED <<ref, version, images, ghosts, page, sheet>>
    BY <1>3 DEF ChangePhoto, server, pages
  <2>2. Server'
    BY <1>1, <1>2, <2>1, BeginKeeps
  <2>3. PageShape' /\ PageKnows'
    BY <2>1, PageAtBegin DEF PageShape
  <2> QED BY <2>2, <2>3
<1>4. ASSUME NEW url \in New, ChangeProfilePhoto(url) PROVE IInv'
  <2>1. /\ Begin("photo", Account, 1, url, TRUE)
        /\ UNCHANGED <<ref, version, images, ghosts, page, sheet>>
    BY <1>4 DEF ChangeProfilePhoto, server, pages
  <2>2. Server'
    <3>1. 1 \in Int
      OBVIOUS
    <3>2. /\ Account \in Holder /\ url \in Url /\ url \in Image \cup {None}
          /\ url = None \/ url \notin Known
      BY <1>1
    <3> QED BY <2>1, <3>1, <3>2, BeginKeeps, Zenon
  <2>3. PageShape' /\ PageKnows'
    BY <2>1, PageAtBegin DEF PageShape
  <2> QED BY <2>2, <2>3
<1>5. ASSUME NEW h \in Holder, NEW url \in New, OthersChangePhoto(h, url) PROVE IInv'
  <2> DEFINE read == IF h = Account THEN 1 ELSE version[h]
  <2>1. /\ Begin("photo", h, read, url, FALSE) /\ read \in Int
        /\ UNCHANGED <<ref, version, images, ghosts, page, sheet>>
    <3>1. read \in Int
      BY <1>2
    <3>2. Begin("photo", h, read, url, FALSE)
      BY <1>5, Zenon DEF OthersChangePhoto
    <3> QED BY <1>5, <3>1, <3>2 DEF OthersChangePhoto, server, pages
  <2> HIDE DEF read
  <2>2. Server'
    BY <1>1, <2>1, BeginKeeps
  <2>3. PageShape' /\ PageKnows'
    BY <2>1, PageAtBegin DEF PageShape
  <2> QED BY <2>2, <2>3
<1>6. ASSUME NEW e \in Employee, NEW url \in Url, OthersPatch(e, url) PROVE IInv'
  <2>1. /\ Begin("patch", e, version[e], url, FALSE)
        /\ url \in {Web, None} \cup {ref[g] : g \in Holder}
        /\ UNCHANGED <<ref, version, images, ghosts, page, sheet>>
    BY <1>6 DEF OthersPatch, server, pages
  <2>2. Server'
    BY <1>2, <2>1, BeginKeeps
  <2>3. PageShape' /\ PageKnows'
    BY <2>1, PageAtBegin DEF PageShape
  <2> QED BY <2>2, <2>3
<1>7. ASSUME SubmitSheet PROVE IInv'
  <2>1. /\ Begin("patch", sheet.who, sheet.version, sheet.url, FALSE)
        /\ sheet # Nothing /\ sheet.url \in {Web, None} /\ sheet' = Nothing
        /\ UNCHANGED <<ref, version, images, ghosts, page>>
    BY <1>7 DEF SubmitSheet, Valid, server
  <2>2. sheet.who \in Employee /\ sheet.version \in Int
    BY <2>1 DEF PageShape
  <2>3. Server'
    BY <1>2, <2>1, <2>2, BeginKeeps
  <2>4. PageShape' /\ PageKnows'
    BY <2>1, PageAtBegin
  <2> QED BY <2>3, <2>4
<1> QED BY <1>3, <1>4, <1>5, <1>6, <1>7

\* Every step keeps the invariant.
LEMMA Inductive == IInv /\ [Next]_vars => IInv'
<1> SUFFICES ASSUME IInv, [Next]_vars PROVE IInv'
  OBVIOUS
<1> USE DEF IInv
<1>1. ASSUME UNCHANGED <<ref, version, images, tx, ghosts>> PROVE Server'
  BY <1>1 DEF Server, ServerShape, UploadsAreNew, Uncommitted, AccountsTakePhotos, OneWriter,
              DoomedIsUnused, SparedIsUsed, Replaces, PhotosAreThere, NoPhotoIsLeft, ghosts
<1>2. ASSUME UNCHANGED <<page, version, tx>>,
             sheet' \in [who : Employee, version : Int, url : Url, touched : BOOLEAN] \cup {Nothing}
      PROVE  PageShape' /\ PageKnows'
  BY <1>2 DEF PageShape, PageKnows
<1>3. ASSUME \/ \E e \in Employee : Show(e)
             \/ Reread
      PROVE  IInv'
  <2>1. \E e \in Employee : page' = FreshPage(e)
    BY <1>3 DEF Show, Reread, PageShape
  <2>2. UNCHANGED <<ref, version, images, tx, ghosts>> /\ UNCHANGED <<server, tx, sheet>>
    BY <1>3 DEF Show, Reread, server
  <2> QED BY <1>1, <2>1, <2>2, PageAtRead
<1>4. ASSUME \/ \E e \in Employee : OpenSheet(e)
             \/ \E url \in {None, Web} : TypeUrl(url)
             \/ CloseSheet \/ ReadProfile \/ UNCHANGED vars
      PROVE  IInv'
  <2>1. UNCHANGED <<ref, version, images, tx, ghosts, page>>
    BY <1>4 DEF OpenSheet, TypeUrl, CloseSheet, ReadProfile, vars, pages, server
  <2>2. sheet' \in [who : Employee, version : Int, url : Url, touched : BOOLEAN] \cup {Nothing}
    <3>1. ASSUME NEW e \in Employee, OpenSheet(e)
          PROVE  sheet' \in [who : Employee, version : Int, url : Url, touched : BOOLEAN]
      BY <3>1 DEF OpenSheet, Server, ServerShape
    <3>2. ASSUME NEW url \in {None, Web}, TypeUrl(url)
          PROVE  sheet' \in [who : Employee, version : Int, url : Url, touched : BOOLEAN]
      BY <3>2 DEF TypeUrl, PageShape
    <3>3. CASE CloseSheet \/ ReadProfile \/ UNCHANGED vars
      BY <3>3 DEF CloseSheet, ReadProfile, vars, pages, PageShape
    <3> QED BY <1>4, <3>1, <3>2, <3>3
  <2> QED BY <1>1, <1>2, <2>1, <2>2
<1>5. ASSUME NEW s \in Slot, Write(s) PROVE IInv'
  <2>1. Server'
    BY <1>5, WriteKeeps
  <2>2. tx[s].step = "read" /\ tx'[s].here = tx[s].here /\ tx'[s].kind = tx[s].kind
    BY <1>5 DEF Write, Server, ServerShape, Request
  <2>3. UNCHANGED <<page, sheet, version>> /\ \A r \in Slot \ {s} : tx'[r] = tx[r]
    BY <1>5 DEF Write, server, pages, Server, ServerShape
  <2> QED BY <2>1, <2>2, <2>3, PageStays DEF PageShape
<1>6. ASSUME NEW s \in Slot, Commit(s) PROVE IInv'
  BY <1>6, CommitKeeps, PageAtCommit
<1>7. ASSUME NEW s \in Slot, Answered(s) \/ Unanswered(s) \/ Conflicts(s) \/ Lost(s) PROVE IInv'
  <2>1. tx' = Settled(s) /\ UNCHANGED <<ref, version, images, ghosts>>
    BY <1>7 DEF Answered, Unanswered, Conflicts, Lost, server
  <2> QED BY <1>7, <2>1, SettledKeeps, PageAtEnd
<1> QED BY <1>3, <1>4, <1>5, <1>6, <1>7, RequestKeeps DEF Next, ClientStep, ServerStep

\* The invariant holds throughout.
LEMMA Invariant == Spec => []IInv
BY InitialHolds, Inductive, PTL DEF Spec

-----------------------------------------------------------------------------
(* What it gives. *)

\* No interleaving of uploads, removals and edits leaves a record with the path
\* of a photo that is not there, but for a PATCH that takes up a photo while it
\* is deleted.
THEOREM PhotosStayThere == Spec => []PhotosAreThere
<1>1. IInv => PhotosAreThere
  BY DEF IInv, Server
<1> QED BY Invariant, <1>1, PTL

\* Nor does one leave a photo nobody refers to, but for a PATCH that drops it or
\* for overlapping changes.
THEOREM PhotosAreCollected == Spec => []NoPhotoIsLeft
<1>1. IInv => NoPhotoIsLeft
  BY DEF IInv, Server
<1> QED BY Invariant, <1>1, PTL

\* The profile names the picture that is shown: an account has a stored photo,
\* a Gravatar or its initials, and never an address on the web.
THEOREM CardStaysTrue == Spec => []CardTellsTheTruth
<1>1. IInv => CardTellsTheTruth
  <2> SUFFICES ASSUME IInv, NEW gravatar \in {"found", "missing"},
                      profile = ref[Account], profile \notin raced
               PROVE  InUse(profile, gravatar) = Displayed(profile, gravatar)
    BY DEF CardTellsTheTruth
  <2>1. profile \in Image \cup {None}
    BY DEF IInv, Server, AccountsTakePhotos
  <2>2. profile \in Image => profile \in images
    BY DEF IInv, Server, PhotosAreThere
  <2>3. None \notin images
    BY DEF IInv, Server, ServerShape
  <2> QED BY <2>1, <2>2, <2>3 DEF InUse, Displayed
<1> QED BY Invariant, <1>1, PTL

\* The page's own change of a photo is refused as a conflict only for a reason.
THEOREM ConflictsAreReal == Spec => ConflictIsReal
<1> DEFINE Refused(s) == /\ tx[s].step = "none" /\ tx'[s].step = "refused"
                         /\ tx'[s].here /\ tx'[s].who = page.who
<1>1. ASSUME IInv, [Next]_vars, NEW s \in Slot, Refused(s) PROVE page.foreign \/ page.behind
  <2>1. page.who \in Employee /\ page.who # Account /\ tx \in [Slot -> Request]
    BY <1>1 DEF IInv, PageShape, Server, ServerShape
  <2>2. ASSUME NEW kind, NEW h, NEW expects, NEW new, NEW here, Begin(kind, h, expects, new, here)
        PROVE  here /\ h = page.who /\ (h \in Employee => version[h] # expects)
    <3>1. PICK r \in Slot :
            /\ tx[r].step = "none"
            /\ tx' = [tx EXCEPT ![r] =
                        [step |-> IF h \in Employee /\ version[h] # expects THEN "refused" ELSE "read",
                         kind |-> kind, who |-> h, expects |-> expects, new |-> new,
                         prev |-> ref[h], dooms |-> FALSE, here |-> here]]
      BY <2>2 DEF Begin
    <3>2. r = s
      BY <1>1, <2>1, <3>1
    <3> QED BY <1>1, <2>1, <3>1, <3>2
  <2>3. ASSUME NEW url \in New, ChangePhoto(url) PROVE page.foreign \/ page.behind
    <3>1. version[page.who] # page.version
      BY <2>1, <2>2, <2>3 DEF ChangePhoto
    <3>2. ~\E r \in Slot : tx[r].here /\ tx[r].who = page.who
      BY <1>1, <2>1, <2>3 DEF ChangePhoto, Busy, IInv, PageShape
    <3> QED BY <1>1, <3>1, <3>2 DEF IInv, PageKnows
  <2>4. ~\E url \in New : ChangeProfilePhoto(url)
    BY <2>1, <2>2 DEF ChangeProfilePhoto
  <2>5. /\ ~\E h \in Holder, url \in New : OthersChangePhoto(h, url)
        /\ ~\E e \in Employee, url \in Url : OthersPatch(e, url)
        /\ ~SubmitSheet
    BY <2>2 DEF OthersChangePhoto, OthersPatch, SubmitSheet
  <2>6. ASSUME NEW r \in Slot, ServerStep(r) \/ Answered(r) \/ Unanswered(r) \/ Conflicts(r) \/ Lost(r)
        PROVE  FALSE
    <3>1. tx[r].step # "none" /\ \A q \in Slot \ {r} : tx'[q] = tx[q]
      BY <2>1, <2>6 DEF ServerStep, Write, Commit, Answered, Unanswered, Conflicts, Lost, Settled
    <3> QED BY <1>1, <3>1
  <2>7. tx' # tx
    BY <1>1
  <2> QED BY <1>1, <2>3, <2>4, <2>5, <2>6, <2>7
          DEF Next, ClientStep, Show, OpenSheet, Reread, ReadProfile, TypeUrl, CloseSheet, vars
<1>2. IInv /\ [Next]_vars =>
        [\A s \in Slot :
            /\ tx[s].step = "none" /\ tx'[s].step = "refused"
            /\ tx'[s].here /\ tx'[s].who = page.who
            => page.foreign \/ page.behind]_vars
  BY <1>1
<1> QED BY <1>2, Invariant, PTL DEF Spec, ConflictIsReal
=============================================================================
