----------------------------- MODULE ChartClient -----------------------------
(***************************************************************************)
(* The org chart page against a server that others change too.  The page   *)
(* puts its chart together from several queries, each answered at a moment *)
(* of its own: the roots, the tree below each root, the branches that were *)
(* expanded, and records that were pinned to show the path to somebody.  A *)
(* move is shown before the server has answered it, and until everything   *)
(* the page shows has been read again.                                     *)
(*                                                                         *)
(* `past` is the server's history of structures in force today; a query    *)
(* keeps the index of the structure it was answered from.                  *)
(***************************************************************************)
EXTENDS Sequences, ChartView, QueryCache

CONSTANTS
    Initial,       \* structures the server may start with
    Expandable,    \* whose node the user may expand
    Focusable,     \* whom the user may look up
    InitialDepth,  \* levels a root's tree is read with
    ExpandDepth,   \* levels an expanded branch is read with
    MaxMoves       \* bound: moves the server commits

ASSUME InitialAssumption == Initial \subseteq {g \in Structure : Acyclic(g)}
ASSUME UserAssumption == Expandable \subseteq Employee /\ Focusable \subseteq Employee
ASSUME DepthAssumption == InitialDepth \in Nat /\ ExpandDepth \in Nat /\ MaxMoves \in Nat

Roots == <<"roots", NoManager>>
Tree(e) == <<"tree", e>>
Branch(e) == <<"branch", e>>
Record(e) == <<"record", e>>

Key == {Roots} \cup ({"tree", "branch", "record"} \X Employee)

VARIABLES
    past,      \* the server's structures, the present one last
    query,     \* the cache
    expanded,  \* pendingExpandIds
    extra,     \* extraIds
    failed,    \* whose pinned record could not be read again (query.isError)
    focus,     \* the look-up in flight: the employee and when it was sent
    move,      \* the move in the preview dialog, and its request
    awaited,   \* what its completion still waits to read again
    override,  \* managerOverrides, as pairs of an employee and a manager
    own        \* the moment of the page's last move

reads == <<query, expanded, extra, failed, focus>>
writes == <<move, awaited, override, own>>
vars == <<past, reads, writes>>

None == <<>>
Moment == 1 .. MaxMoves + 1
now == Len(past)
Current == past[now]

Idle == [step |-> "none", who |-> NoManager, to |-> NoManager, read |-> 0, today |-> TRUE]

Move == [step : {"none", "preview", "asked", "refused", "done", "settling"},
         who : ManagerOrNone, to : ManagerOrNone, read : Moment \cup {0}, today : BOOLEAN]

TypeOK ==
    /\ past \in UNION {[1 .. n -> Structure] : n \in Moment}
    /\ query \in [Key -> Entries(Moment)]
    /\ expanded \subseteq Expandable
    /\ extra \subseteq Employee
    /\ failed \subseteq extra
    /\ focus = None \/ focus \in Focusable \X Moment
    /\ move \in Move
    /\ awaited \subseteq Key
    /\ override \subseteq {<<move.who, move.to>>}
    /\ own \in Moment

-----------------------------------------------------------------------------
(* What the answers hold, and the chart put together from them. *)

RootsAt(i) == {e \in Employee : past[i][e] = NoManager}

\* An answer about the branch of e: its people down to a depth.
Subtree(i, e, depth) == Below(past[i], {e}, depth)

RootsShown == IF query[Roots].data = 0 THEN {} ELSE RootsAt(query[Roots].data)

\* The queries with a component that shows them.
Shown ==
    {Roots} \cup {Tree(e) : e \in RootsShown}
            \cup {Branch(e) : e \in expanded} \cup {Record(e) : e \in extra}

\* A pinned record is left out while its last request has failed.
Answered == {k \in Shown : query[k].data # 0 /\ k \notin {Record(e) : e \in failed}}

\* Whom an answer has a record of.
Covers(k) ==
    IF k = Roots THEN {}
    ELSE CASE k[1] = "tree"   -> Subtree(query[k].data, k[2], InitialDepth)
           [] k[1] = "branch" -> Subtree(query[k].data, k[2], ExpandDepth)
           [] k[1] = "record" -> {k[2]}

Rank(k) == CASE k[1] = "record" -> 1 [] k[1] = "tree" -> 2 [] k[1] = "branch" -> 3

\* employeesById: the moment of the record the page has of each employee it
\* knows.  Of the answers that have one, an expanded branch wins over a tree and
\* a tree over a pinned record.  Which of two trees or two branches wins is the
\* order they are listed in, here any.
Records ==
    LET covers == [k \in Answered |-> Covers(k)]
        from(e) == {k \in DOMAIN covers : e \in covers[k]}
        best(e) == CHOOSE k \in from(e) : \A l \in from(e) : Rank(l) <= Rank(k)
    IN  [e \in {x \in Employee : from(x) # {}} |-> query[best(e)].data]

Known == DOMAIN Records

\* MUTANT of Recorded: the manager on the chart, override included.
RecordedOnChart ==
    LET at == Records IN
    [e \in DOMAIN at |-> IF \E p \in override : p[1] = e
                         THEN (CHOOSE p \in override : p[1] = e)[2]
                         ELSE past[at[e]][e]]

\* employee.manager_id, and the same with the override.
Recorded == LET at == Records IN [e \in DOMAIN at |-> past[at[e]][e]]

Charting ==
    LET recorded == Recorded IN
    [e \in DOMAIN recorded |-> IF \E p \in override : p[1] = e
                               THEN (CHOOSE p \in override : p[1] = e)[2]
                               ELSE recorded[e]]

\* loadedIds: whose reports an answer has: those above the lowest level it
\* reached, and the one it was asked about.
LoadedBy(k, depth) ==
    {k[2]} \cup UNION {Subtree(query[k].data, k[2], n) :
        n \in {l \in 0 .. (depth - 1) : Subtree(query[k].data, k[2], l) # Covers(k)}}

Loaded ==
    UNION {LoadedBy(k, InitialDepth) : k \in {Tree(e) : e \in RootsShown} \cap Answered}
    \cup UNION {LoadedBy(k, ExpandDepth) : k \in {Branch(e) : e \in expanded} \cap Answered}

-----------------------------------------------------------------------------
Init ==
    /\ \E g \in Initial : past = <<g>>
    /\ query = [k \in Key |-> IF k = Roots THEN Fetch(NoEntry, 1) ELSE NoEntry]
    /\ expanded = {} /\ extra = {} /\ failed = {} /\ focus = None
    /\ move = Idle /\ awaited = {} /\ override = {}
    /\ own = 1

(* Queries. *)

\* What the cache becomes when q is the new state of the entries and `shown`
\* are the ones that have come into view.
Mounted(q, shown) == [k \in Key |-> IF k \in shown THEN Mount(q[k], now) ELSE q[k]]

\* An answer arrives; the trees of roots it brings are read in their turn.
Arrive(k) ==
    /\ query[k].asked # 0
    /\ \E a \in Arrivals(query[k], now) :
        query' = Mounted([query EXCEPT ![k] = a],
                         IF k = Roots THEN {Tree(e) : e \in RootsAt(a.data)} ELSE {})
    /\ failed' = {e \in failed : Record(e) # k}
    /\ awaited' = awaited \ {k}
    /\ UNCHANGED <<past, expanded, extra, focus, move, override, own>>

\* Bound: only what a move waits for fails, and one entry at a time.
FetchFails(k) ==
    /\ query[k].asked # 0 /\ k \in awaited
    /\ \A l \in Key : ~query[l].behind
    /\ query' = [query EXCEPT ![k] = Failure(@)]
    /\ failed' = failed \cup {e \in extra : Record(e) = k}
    /\ awaited' = awaited \ {k}
    /\ UNCHANGED <<past, expanded, extra, focus, move, override, own>>

\* Bound: what the user does at leisure, with nothing under way on the page.
Quiet == move.step = "none" /\ focus = None /\ \A k \in Key : query[k].asked = 0

\* Entries that are shown are read again when the window is focused.
Refocus ==
    /\ Quiet
    /\ query' = [k \in Key |-> IF k \in Shown THEN Fetch(query[k], now) ELSE query[k]]
    /\ UNCHANGED <<past, expanded, extra, failed, focus, writes>>

\* Whose node has a button to expand it: their reports are not known.
Unexpanded == Known \ (Loaded \cup expanded)

\* toggleExpanded.  Bound: a user who expands does not look anybody up as well.
Expand(e) ==
    /\ extra = {}
    /\ e \in Unexpanded
    /\ expanded' = expanded \cup {e}
    /\ query' = Mounted(query, {Branch(e)})
    /\ UNCHANGED <<past, extra, failed, focus, writes>>

\* selectEmployee: the record just found is pinned and its line asked for.
Selected(e) ==
    /\ query' = [query EXCEPT ![Record(e)] = SetData(@, now)]
    /\ extra' = extra \cup {e}
    /\ failed' = failed \ {e}
    /\ focus' = <<e, now>>

\* Somebody is searched for and chosen.
LookUp(e) ==
    /\ Quiet /\ expanded = {}
    /\ Selected(e)
    /\ UNCHANGED <<past, expanded, writes>>

\* The line arrives and is pinned from the root down.
LineArrives ==
    /\ focus # None
    /\ \E i \in focus[2] .. now :
        LET line == {m \in Employee : m # focus[1] /\ Reaches(past[i], focus[1], m)} IN
        /\ query' = [k \in Key |-> IF \E m \in line : k = Record(m)
                                   THEN SetData(query[k], i) ELSE query[k]]
        /\ extra' = extra \cup line
        /\ failed' = failed \ line
    /\ focus' = None
    /\ UNCHANGED <<past, expanded, writes>>

LineFails ==
    /\ focus # None
    /\ focus' = None
    /\ UNCHANGED <<past, query, expanded, extra, failed, writes>>

-----------------------------------------------------------------------------
(* The server. *)

Allowed(g, e, m) == Acyclic([g EXCEPT ![e] = m])

\* Somebody else moves an employee.
OtherMoves(e, m) ==
    /\ now <= MaxMoves
    /\ m # Current[e]
    /\ Allowed(Current, e, m)
    /\ past' = Append(past, [Current EXCEPT ![e] = m])
    /\ UNCHANGED <<reads, writes>>

\* If-Match: e was moved after the record was read.
Unread(e, i) == \E j \in i .. now : past[j][e] # past[i][e]

\* The request is over, and with it what it carried.
Over(outcome) == move' = [move EXCEPT !.step = outcome, !.read = 0, !.today = TRUE]

Serve ==
    /\ move.step = "asked"
    /\ \/ /\ Unread(move.who, move.read) \/ ~Allowed(Current, move.who, move.to)
          /\ Over("refused")
          /\ UNCHANGED <<past, own>>
       \/ \* nothing changes today
          /\ ~Unread(move.who, move.read)
          /\ ~move.today \/ move.to = Current[move.who]
          /\ Over("done")
          /\ own' = now
          /\ UNCHANGED past
       \/ /\ now <= MaxMoves
          /\ move.today
          /\ ~Unread(move.who, move.read)
          /\ move.to # Current[move.who] /\ Allowed(Current, move.who, move.to)
          /\ past' = Append(past, [Current EXCEPT ![move.who] = move.to])
          /\ own' = now + 1
          /\ Over("done")
       \/ \* the request is lost
          /\ Over("refused")
          /\ UNCHANGED <<past, own>>
    /\ UNCHANGED <<reads, awaited, override>>

-----------------------------------------------------------------------------
(* Moving somebody on the chart. *)

\* Whom the palette offers as a manager: a drag can reach no more.
Offered(e) ==
    {NoManager} \cup {m \in Employee : m \notin OwnBranch(Charting, e) /\ m # Recorded[e]}

\* A choice in the palette.  Bound: not while a request is in flight, and not
\* after a move was made.
Propose(e, m) ==
    /\ move.step = "none" /\ own = 1
    /\ e \in Known
    /\ m \in Offered(e)
    /\ move' = [Idle EXCEPT !.step = "preview", !.who = e, !.to = m]
    /\ UNCHANGED <<past, reads, awaited, override, own>>

CloseDialog ==
    /\ move.step = "preview"
    /\ move' = Idle
    /\ UNCHANGED <<past, reads, awaited, override, own>>

\* What the preview dialog shows of the structure at moment i; 0 is a preview
\* that could not be read.
PreviewShows(i) ==
    IF i = 0 THEN "failed"
    ELSE CASE ~Allowed(past[i], move.who, move.to) -> "blocked"
           [] past[i][move.who] = move.to          -> "unchanged"
           [] OTHER                                -> "ready"

\* onMutate: a move that is in force today is shown at once.
Overridden(today) ==
    override' = IF today
                THEN {p \in override : p[1] # move.who} \cup {<<move.who, move.to>>}
                ELSE override

\* The preview may have been read a while ago, and one that could not be read
\* does not disable the button.  The employee's record, with its version, is the
\* one the page has now.
Confirm(today) ==
    /\ move.step = "preview"
    /\ \E i \in 0 .. now : PreviewShows(i) \in {"failed", "ready"}
    /\ move.who \in Known
    /\ move' = [move EXCEPT !.step = "asked", !.read = Records[move.who], !.today = today]
    /\ Overridden(today)
    /\ UNCHANGED <<past, reads, awaited, own>>

Drop(e) == override' = {p \in override : p[1] # e}

\* MUTANT of Refused: the page goes on showing the move.
RefusedStays ==
    /\ move.step = "refused"
    /\ move' = [move EXCEPT !.step = "preview"]
    /\ UNCHANGED <<past, reads, awaited, own, override>>

\* The dialog stays open.
Refused ==
    /\ move.step = "refused"
    /\ Drop(move.who)
    /\ move' = [move EXCEPT !.step = "preview"]
    /\ UNCHANGED <<past, reads, awaited, own>>

\* MUTANT of Done: the trees and branches are not invalidated.
DoneRootsOnly ==
    /\ move.step = "done"
    /\ query' = [query EXCEPT ![Roots] = Invalidate(@, TRUE, now)]
    /\ awaited' = {Roots}
    /\ move' = [move EXCEPT !.step = "settling"]
    /\ UNCHANGED <<past, expanded, extra, failed, focus, override, own>>

\* The record of the answer is kept (it matters where it is shown: LookUp pins
\* another before it shows one), and everything is invalidated.
Done ==
    /\ move.step = "done"
    /\ LET kept == [query EXCEPT ![Record(move.who)] =
                        IF move.who \in extra THEN SetData(@, own) ELSE @] IN
        query' = [k \in Key |-> Invalidate(kept[k], k \in Shown, now)]
    /\ awaited' = {k \in Shown : query'[k].asked # 0}
    /\ failed' = failed \ {move.who}
    /\ move' = [move EXCEPT !.step = "settling"]
    /\ UNCHANGED <<past, expanded, extra, focus, override, own>>

\* What was awaited has been read: the chart no longer needs the override.
Settle ==
    /\ move.step = "settling"
    /\ awaited = {}
    /\ Drop(move.who)
    /\ move' = Idle
    /\ UNCHANGED <<past, reads, awaited, own>>

-----------------------------------------------------------------------------
ReadStep == \E k \in Key : Arrive(k) \/ FetchFails(k)

MoveStep == Serve \/ Refused \/ Done \/ Settle

UserStep ==
    \/ Refocus
    \/ \E e \in Expandable : Expand(e)
    \/ \E e \in Focusable : LookUp(e)
    \/ LineArrives \/ LineFails
    \/ \E e \in Employee, m \in ManagerOrNone : Propose(e, m)
    \/ CloseDialog
    \/ \E today \in BOOLEAN : Confirm(today)

Next ==
    \/ ReadStep
    \/ MoveStep
    \/ UserStep
    \/ \E e \in Employee, m \in ManagerOrNone : OtherMoves(e, m)

\* Requests are answered or fail.
Fairness ==
    /\ \A k \in Key : WF_vars(Arrive(k) \/ FetchFails(k))
    /\ WF_vars(MoveStep)

Spec == Init /\ [][Next]_vars /\ Fairness

-----------------------------------------------------------------------------
(* Properties. *)

\* Answers read at different moments can put a loop on the chart that the server
\* never had, and the walk up from an employee in it would not end.  It takes
\* answers two moves apart: one move between them is harmless.
LoopNeedsTwoMoves ==
    LET at == Records
        recorded == Recorded
    IN  (\A d, e \in DOMAIN at : at[d] - at[e] <= 1)
            => \A e \in DOMAIN at : WalkUpEnds(recorded, e)

\* When the page has read everything it shows and waits for nothing, no answer
\* about the structure is older than the page's own last move, unless its last
\* request failed or it was being read for the first time when the move was
\* answered.
OwnMoveShows ==
    move.step \in {"none", "preview"} =>
        \A k \in Shown :
            \/ query[k].data >= own
            \/ query[k].asked # 0 \/ query[k].behind
            \/ k[1] = "record"

\* A chart that is up to date draws the server's edges, puts everybody on the
\* level of their managers' number, and offers a drop where the server allows
\* the move.
ChartMatchesServer ==
    LET at == Records
        charting == Charting
        visible == Visible(charting, RootsShown, {}) \cap DOMAIN at
    IN  (override = {} /\ \A k \in Shown : query[k].data = now) =>
            /\ Edges(charting, visible) = {<<Current[e], e>> : e \in visible \ RootsAt(now)}
            /\ \A e \in visible : Depth(charting, RootsShown, e)
                    = Cardinality({m \in Employee \ {e} : Reaches(Current, e, m)})
            /\ \A e, m \in visible :
                m # Current[e] => (MayDrop(charting, Recorded, visible, e, m)
                                   <=> Allowed(Current, e, m))

\* The page does not go on showing a move that was refused, or whose chart has
\* been read again.
OverrideEnds == override # {} ~> override = {}
=============================================================================
