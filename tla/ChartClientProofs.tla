-------------------------- MODULE ChartClientProofs --------------------------
(***************************************************************************)
(* Proofs about ChartClient, for any number of people, moves and answers:  *)
(* where a loop on the chart comes from, that the page's own move is on    *)
(* it, and that a chart that is up to date is the server's.                *)
(***************************************************************************)
EXTENDS ChartClient, FiniteSetTheorems, WellFoundedInduction, TLAPS

USE InitialAssumption, UserAssumption

-----------------------------------------------------------------------------
(* What the page has of the server's history. *)

\* An entry of the cache, n being the last moment there was.
Entry(n) == [data : 0 .. n, asked : 0 .. n, stale : BOOLEAN, behind : BOOLEAN]

\* One move between two structures.
OneMove(g, h) == \E e : \A d \in Employee \ {e} : h[d] = g[d]

\* What the server had, and what the page can have of it.
History ==
    /\ past \in Seq(Structure) /\ past # <<>>
    /\ \A i \in 1 .. Len(past) : Acyclic(past[i])
    /\ \A i \in 1 .. Len(past) - 1 : OneMove(past[i], past[i + 1])

ChartTypes ==
    /\ History
    /\ query \in [Key -> Entry(Len(past))]
    /\ expanded \subseteq Employee
    /\ extra \subseteq Employee
    /\ focus # None => focus[2] \in 1 .. Len(past)
    /\ move \in [step : {"none", "preview", "asked", "refused", "done", "settling"},
                 who : ManagerOrNone, to : ManagerOrNone,
                 read : Nat, today : BOOLEAN]
    /\ own \in 1 .. Len(past)

\* Of the answers that have somebody there is one of the highest rank, and the
\* moment it was given is one the server had.
LEMMA RecordsTyped ==
    ASSUME ChartTypes
    PROVE  /\ DOMAIN Records \subseteq Employee
           /\ \A e \in DOMAIN Records : Records[e] \in 1 .. Len(past)
           /\ \A e \in DOMAIN Records : \E k \in Answered : Records[e] = query[k].data
           /\ \A k \in Answered : \A e \in Employee \cap Covers(k) : e \in DOMAIN Records
<1> DEFINE covers == [k \in Answered |-> Covers(k)]
           from(e) == {k \in DOMAIN covers : e \in covers[k]}
           best(e) == CHOOSE k \in from(e) :
                          \A l \in from(e) : Rank(l) <= Rank(k)
<1>1. Records = [e \in {x \in Employee : from(x) # {}} |-> query[best(e)].data]
  BY DEF Records
<1>2. ASSUME NEW k \in Answered
      PROVE  /\ query[k].data \in 1 .. Len(past)
             /\ Covers(k) # {} => Rank(k) \in {1, 2, 3}
  <2>1. k \in Shown /\ query[k].data # 0
    BY <1>2 DEF Answered
  <2>2. k \in Key
    <3>1. RootsShown \subseteq Employee
      BY DEF RootsShown, RootsAt
    <3> QED BY <2>1, <3>1 DEF Shown, Key, Roots, Tree, Branch,
               Record, ChartTypes
  <2>3. query[k].data \in 1 .. Len(past)
    BY <2>1, <2>2 DEF ChartTypes, Entry, History
  <2>4. Covers(k) # {} => k # Roots
    BY DEF Covers
  <2>5. k # Roots => k[1] \in {"tree", "branch", "record"}
    BY <2>2 DEF Key
  <2>6. k[1] \in {"tree", "branch", "record"} => Rank(k) \in {1, 2, 3}
    BY DEF Rank
  <2> QED BY <2>3, <2>4, <2>5, <2>6
<1>3. ASSUME NEW e \in Employee, from(e) # {}
      PROVE  best(e) \in Answered
  <2>1. \A k \in from(e) : k \in Answered /\ Rank(k) \in {1, 2, 3}
    BY <1>2
  <2> HIDE DEF from
  <2>2. \E k \in from(e) : \A l \in from(e) : Rank(l) <= Rank(k)
    <3>1. CASE \E k \in from(e) : Rank(k) = 3
      BY <2>1, <3>1
    <3>2. CASE /\ ~ \E k \in from(e) : Rank(k) = 3
               /\ \E k \in from(e) : Rank(k) = 2
      BY <2>1, <3>2
    <3>3. CASE \A k \in from(e) : Rank(k) = 1
      BY <1>3, <2>1, <3>3
    <3> QED BY <2>1, <3>1, <3>2, <3>3
  <2> QED BY <2>1, <2>2
<1>4. ASSUME NEW k \in Answered, NEW e \in Employee \cap Covers(k) PROVE from(e) # {}
  BY <1>4
<1> HIDE DEF from, best
<1> QED BY <1>1, <1>2, <1>3, <1>4

\* LoopNeedsTwoMoves, in a state.
LEMMA LoopNeedsTwo ==
    ASSUME ChartTypes
    PROVE  LoopNeedsTwoMoves
<1> DEFINE at == Records
           recorded == Recorded
<1>1. /\ DOMAIN at \subseteq Employee
      /\ \A e \in DOMAIN at : at[e] \in 1 .. Len(past)
  BY RecordsTyped
<1>2. DOMAIN recorded = DOMAIN at /\ \A e \in DOMAIN at : recorded[e] = past[at[e]][e]
  BY DEF Recorded
<1> SUFFICES ASSUME \A d, e \in DOMAIN at : at[d] - at[e] <= 1,
                    NEW x \in DOMAIN at
             PROVE  WalkUpEnds(recorded, x)
  BY DEF LoopNeedsTwoMoves
<1> HIDE DEF at, recorded
<1>3. ASSUME NEW T \in SUBSET DOMAIN at, T # {}, \A y \in T : recorded[y] \in T
      PROVE  FALSE
  \* Everybody in it is recorded as one structure had it.
  <2>1. ASSUME NEW i \in 1 .. Len(past), \A y \in T : recorded[y] = past[i][y]
        PROVE  FALSE
    <3>1. T \in SUBSET Employee /\ Acyclic(past[i])
      BY <1>1 DEF ChartTypes, History
    <3>2. PICK y \in T : past[i][y] \notin T
      BY <1>3, <3>1 DEF Acyclic
    <3> QED BY <1>3, <2>1, <3>2
  <2>2. PICK d \in T : TRUE
    BY <1>3
  <2>3. CASE \A y \in T : at[y] = at[d]
    <3>1. at[d] \in 1 .. Len(past)
      BY <1>1
    <3> QED BY <1>2, <2>1, <2>3, <3>1
  <2>4. ASSUME NEW b \in T, NEW c \in T, at[b] < at[c] PROVE FALSE
    <3> DEFINE i == at[b]
    <3>1. /\ i \in 1 .. Len(past) /\ i + 1 \in 1 .. Len(past) /\ i \in 1 .. Len(past) - 1
          /\ \A y \in T : at[y] = i \/ at[y] = i + 1
      <4>0. b \in DOMAIN at /\ c \in DOMAIN at
        OBVIOUS
      <4>1. /\ at[b] \in 1 .. Len(past) /\ at[c] \in 1 .. Len(past) /\ at[c] - at[b] <= 1
            /\ Len(past) \in Nat
        <5>1. Len(past) \in Nat
          BY DEF ChartTypes, History
        <5> QED BY <1>1, <4>0, <5>1
      <4>2. ASSUME NEW y \in T PROVE at[y] = i \/ at[y] = i + 1
        <5>1. at[y] \in 1 .. Len(past) /\ at[y] - at[b] <= 1 /\ at[c] - at[y] <= 1
          BY <1>1
        <5> QED BY <2>4, <4>1, <5>1
      <4> QED BY <2>4, <4>1, <4>2
    <3> HIDE DEF i
    <3>2. PICK e : \A y \in Employee \ {e} : past[i + 1][y] = past[i][y]
      BY <3>1 DEF ChartTypes, History, OneMove
    <3>3. CASE e \in T /\ at[e] = i + 1
      <4>1. \A y \in T : recorded[y] = past[i + 1][y]
        BY <1>1, <1>2, <3>1, <3>2, <3>3
      <4> QED BY <2>1, <3>1, <4>1
    <3>4. CASE ~(e \in T /\ at[e] = i + 1)
      <4>1. \A y \in T : recorded[y] = past[i][y]
        BY <1>1, <1>2, <3>1, <3>2, <3>4
      <4> QED BY <2>1, <3>1, <4>1
    <3> QED BY <3>3, <3>4
  <2>5. PICK y \in T : at[y] # at[d]
    BY <2>1, <2>3
  <2>6. at[y] < at[d] \/ at[d] < at[y]
    <3>1. at[y] \in 1 .. Len(past) /\ at[d] \in 1 .. Len(past)
      BY <1>1
    <3> QED BY <2>5, <3>1
  <2> QED BY <2>4, <2>6
<1>4. /\ DOMAIN at \in SUBSET DOMAIN recorded /\ x \in DOMAIN at
      /\ \A y \in DOMAIN at : recorded[y] \in DOMAIN recorded => recorded[y] \in DOMAIN at
      /\ \A T \in SUBSET DOMAIN at : T # {} => \E y \in T : recorded[y] \notin T
  BY <1>2, <1>3
<1> QED BY <1>4 DEF WalkUpEnds

-----------------------------------------------------------------------------
(* What the page holds stays of a moment the server had. *)

\* The server's structure changes by a move that closes no loop.
LEMMA HistoryGrows ==
    ASSUME History, NEW e, NEW m \in ManagerOrNone,
           past' = Append(past, [Current EXCEPT ![e] = m]),
           Allowed(Current, e, m)
    PROVE  History' /\ Len(past') = Len(past) + 1
<1> DEFINE g == [Current EXCEPT ![e] = m]
           n == Len(past)
<1>1. n \in Nat /\ n >= 1 /\ Current \in Structure
  BY DEF History, Current, now
<1>2. g \in Structure /\ Acyclic(g)
  BY <1>1 DEF Structure, Allowed
<1>3. /\ \A d \in Employee \ {e} : g[d] = Current[d]
      /\ e \notin Employee => g = Current
  BY <1>1 DEF Structure
<1>4. Current = past[n]
  BY DEF Current, now
<1> HIDE DEF g
<1>5. /\ past' \in Seq(Structure) /\ past' # <<>> /\ Len(past') = n + 1
      /\ past'[n + 1] = g /\ \A i \in 1 .. n : past'[i] = past[i]
  BY <1>2 DEF g, History
<1>6. \A i \in 1 .. Len(past') : Acyclic(past'[i])
  <2> SUFFICES ASSUME NEW i \in 1 .. n + 1 PROVE Acyclic(past'[i])
    BY <1>5
  <2>1. i \in 1 .. n \/ i = n + 1
    BY <1>1
  <2> QED BY <1>2, <1>5, <2>1 DEF History
<1>7. OneMove(past[n], g)
  BY <1>3, <1>4 DEF OneMove
<1>8. \A i \in 1 .. Len(past') - 1 : OneMove(past'[i], past'[i + 1])
  <2>0. Len(past') - 1 = n
    BY <1>1, <1>5
  <2> SUFFICES ASSUME NEW i \in 1 .. n PROVE OneMove(past'[i], past'[i + 1])
    BY <2>0
  <2>1. CASE i = n
    BY <1>1, <1>5, <1>7, <2>1
  <2>2. CASE i # n
    <3>1. i \in 1 .. n - 1 /\ i + 1 \in 1 .. n
      BY <1>1, <2>2
    <3> QED BY <1>5, <3>1 DEF History
  <2> QED BY <2>1, <2>2
<1> QED BY <1>5, <1>6, <1>8 DEF History

\* What an entry becomes, the last moment being n.
LEMMA EntryStays ==
    ASSUME NEW n \in Nat \ {0}, NEW q \in Entry(n), NEW i \in 1 .. n, NEW b \in BOOLEAN
    PROVE  /\ Fetch(q, n) \in Entry(n) /\ Mount(q, n) \in Entry(n)
           /\ Failure(q) \in Entry(n) /\ SetData(q, i) \in Entry(n)
           /\ Invalidate(q, b, n) \in Entry(n)
           /\ q.asked # 0 => Arrivals(q, n) \subseteq Entry(n)
<1> DEFINE D == 0 .. n
           E == [data : D, asked : D, stale : BOOLEAN, behind : BOOLEAN]
<1>0. q \in E /\ n \in D /\ i \in D /\ 0 \in D /\ E = Entry(n)
  BY DEF Entry
<1> HIDE DEF D
<1>1. Fetch(q, n) \in Entry(n)
  BY <1>0 DEF Fetch
<1>2. Mount(q, n) \in Entry(n)
  BY <1>1 DEF Mount
<1>3. Failure(q) \in Entry(n)
  BY <1>0 DEF Failure
<1>4. SetData(q, i) \in Entry(n)
  BY <1>0 DEF SetData
<1>5. Invalidate(q, b, n) \in Entry(n)
  <2>1. /\ (q.data # 0) \in BOOLEAN
        /\ (~b /\ (q.behind \/ q.asked # 0)) \in BOOLEAN
        /\ (IF b THEN n ELSE q.asked) \in D
    BY <1>0
  <2> QED BY <1>0, <2>1 DEF Invalidate
<1>6. q.asked # 0 => Arrivals(q, n) \subseteq Entry(n)
  <2> SUFFICES ASSUME q.asked # 0, NEW k \in q.asked .. n
               PROVE  [q EXCEPT !.data = k, !.asked = 0, !.stale = FALSE] \in Entry(n)
    BY DEF Arrivals
  <2>1. k \in D
    BY <1>0 DEF D
  <2> QED BY <1>0, <2>1
<1> QED BY <1>1, <1>2, <1>3, <1>4, <1>5, <1>6

\* The cache is typed after every step.
LEMMA QueryTyped ==
    ASSUME ChartTypes, [Next]_vars
    PROVE  query' \in [Key -> Entry(Len(past))]
<1> DEFINE n == Len(past)
           Cache == [Key -> Entry(n)]
<1>1. n \in Nat \ {0} /\ query \in Cache /\ own \in 1 .. n
  BY DEF ChartTypes, History
<1> SUFFICES query' \in Cache
  OBVIOUS
<1> HIDE DEF n
<1>2. now = n
  BY DEF now, n
<1>3. ASSUME NEW q \in Cache, NEW mounted PROVE Mounted(q, mounted) \in Cache
  BY <1>1, <1>2, <1>3, EntryStays DEF Mounted
<1>4. ASSUME NEW q \in Cache, NEW k, NEW i \in 1 .. n
      PROVE  [q EXCEPT ![k] = SetData(@, i)] \in Cache
  <2>1. CASE k \in Key
    BY <1>1, <2>1, EntryStays
  <2>2. CASE k \notin Key
    BY <2>2
  <2> QED BY <2>1, <2>2
<1>5. ASSUME NEW k \in Key, Arrive(k) PROVE query' \in Cache
  <2>1. PICK a \in Arrivals(query[k], n) :
            \E mounted : query' = Mounted([query EXCEPT ![k] = a], mounted)
    BY <1>2, <1>5 DEF Arrive
  <2>2. a \in Entry(n)
    BY <1>1, <1>5, <2>1, EntryStays DEF Arrive
  <2>3. [query EXCEPT ![k] = a] \in Cache
    BY <1>1, <2>2
  <2> QED BY <1>3, <2>1, <2>3
<1>6. ASSUME NEW k \in Key, FetchFails(k) PROVE query' \in Cache
  BY <1>1, <1>6, EntryStays DEF FetchFails
<1>7. CASE Refocus
  BY <1>1, <1>2, <1>7, EntryStays DEF Refocus
<1>8. ASSUME NEW e, Expand(e) PROVE query' \in Cache
  BY <1>1, <1>3, <1>8 DEF Expand
<1>9. ASSUME NEW e, LookUp(e) PROVE query' \in Cache
  BY <1>1, <1>2, <1>4, <1>9 DEF LookUp, Selected
<1>10. CASE LineArrives
  <2>1. PICK i \in focus[2] .. n :
            LET line == {m \in Employee : m # focus[1] /\ Reaches(past[i], focus[1], m)} IN
            query' = [k \in Key |-> IF \E m \in line : k = Record(m)
                                          THEN SetData(query[k], i) ELSE query[k]]
    BY <1>2, <1>10 DEF LineArrives
  <2>2. i \in 1 .. n
    BY <1>1, <1>10, <2>1 DEF LineArrives, ChartTypes, n
  <2> QED BY <1>1, <2>1, <2>2, EntryStays
<1>11. CASE Done
  <2> DEFINE kept == [query EXCEPT ![Record(move.who)] =
                         IF move.who \in extra THEN SetData(@, own) ELSE @]
  <2>1. kept \in Cache
    <3>1. CASE move.who \in extra
      BY <1>1, <1>4, <3>1
    <3>2. CASE move.who \notin extra
      BY <1>1, <3>2
    <3> QED BY <3>1, <3>2
  <2>2. query' = [k \in Key |-> Invalidate(kept[k], k \in Shown, n)]
    BY <1>2, <1>11 DEF Done
  <2> HIDE DEF kept
  <2>3. ASSUME NEW k \in Key
        PROVE  Invalidate(kept[k], k \in Shown, n) \in Entry(n)
    <3>1. (k \in Shown) \in BOOLEAN /\ kept[k] \in Entry(n)
      BY <2>1
    <3> QED BY <1>1, <3>1, EntryStays
  <2> QED BY <2>2, <2>3
<1>12. CASE UNCHANGED query
  BY <1>1, <1>12
<1>13. CASE MoveStep
  BY <1>11, <1>12, <1>13
     DEF MoveStep, Serve, Refused, Settle, reads
<1> QED BY <1>5, <1>6, <1>7, <1>8, <1>9, <1>10, <1>12, <1>13
        DEF Next, ReadStep, UserStep, LineFails, Propose,
            CloseDialog, Confirm, OtherMoves, vars, reads

\* What becomes of the server's history, and of the moments kept of it.
LEMMA HistoryStays ==
    ASSUME ChartTypes, [Next]_vars
    PROVE  /\ History' /\ Len(past') \in Nat /\ Len(past') >= Len(past)
           /\ own' \in 1 .. Len(past')
           /\ \A i \in 1 .. Len(past) : past'[i] = past[i]
<1>1. /\ History /\ past \in Seq(Structure) /\ Len(past) \in Nat /\ own \in 1 .. Len(past)
      /\ Len(past) \in 1 .. Len(past) /\ move.to \in ManagerOrNone
      /\ Current \in Structure
  BY DEF ChartTypes, History, Current, now
<1>2. CASE UNCHANGED past /\ own' \in {own, Len(past)}
  BY <1>1, <1>2 DEF History
<1>3. ASSUME NEW e, NEW m \in ManagerOrNone, Allowed(Current, e, m),
             past' = Append(past, [Current EXCEPT ![e] = m]),
             own' \in {own, Len(past) + 1}
      PROVE  /\ History' /\ Len(past') \in Nat /\ Len(past') >= Len(past)
             /\ own' \in 1 .. Len(past')
             /\ \A i \in 1 .. Len(past) : past'[i] = past[i]
  <2>1. History' /\ Len(past') = Len(past) + 1
    BY <1>1, <1>3, HistoryGrows
  <2>2. [Current EXCEPT ![e] = m] \in Structure
    BY <1>1, <1>3 DEF Structure
  <2>3. \A i \in 1 .. Len(past) : past'[i] = past[i]
    BY <1>1, <1>3, <2>2
  <2> QED BY <1>1, <1>3, <2>1, <2>3
<1>4. CASE Serve
  BY <1>1, <1>2, <1>3, <1>4 DEF Serve, now
<1>5. ASSUME NEW e \in Employee, NEW m \in ManagerOrNone, OtherMoves(e, m)
      PROVE  /\ History' /\ Len(past') \in Nat /\ Len(past') >= Len(past)
             /\ own' \in 1 .. Len(past')
             /\ \A i \in 1 .. Len(past) : past'[i] = past[i]
  BY <1>3, <1>5 DEF OtherMoves, writes
<1> QED BY <1>2, <1>4, <1>5
        DEF Next, ReadStep, Arrive, FetchFails, MoveStep,
            Refused, Done, Settle, UserStep, Refocus, Expand,
            LookUp, LineArrives, LineFails, Propose, CloseDialog,
            Confirm, vars, writes

\* The move in the dialog is one of somebody known to a manager or to none.
LEMMA MoveTyped ==
    ASSUME ChartTypes, [Next]_vars
    PROVE  move' \in [step : {"none", "preview", "asked", "refused", "done", "settling"},
                      who : ManagerOrNone, to : ManagerOrNone,
                      read : Nat, today : BOOLEAN]
<1> DEFINE Moves == [step : {"none", "preview", "asked", "refused", "done", "settling"},
                     who : ManagerOrNone, to : ManagerOrNone,
                     read : Nat, today : BOOLEAN]
<1>1. move \in Moves /\ Idle \in Moves
  BY DEF ChartTypes, Idle, ManagerOrNone
<1>2. ASSUME NEW e \in Employee, NEW m \in ManagerOrNone, Propose(e, m)
      PROVE  move' \in Moves
  BY <1>1, <1>2 DEF Propose, ManagerOrNone
<1>3. ASSUME NEW today \in BOOLEAN, Confirm(today) PROVE move' \in Moves
  <2> DEFINE i == Records[move.who]
  <2>1. i \in Nat
    BY <1>3, RecordsTyped DEF Confirm, Known
  <2>2. move' = [move EXCEPT !.step = "asked", !.read = i, !.today = today]
    BY <1>3 DEF Confirm
  <2> HIDE DEF i
  <2> QED BY <1>1, <2>1, <2>2
<1>4. CASE MoveStep
  <2>1. CASE Serve
    <3>1. PICK k \in {"refused", "done"} :
              move' = [move EXCEPT !.step = k, !.read = 0, !.today = TRUE]
      BY <2>1 DEF Serve, Over
    <3>2. k \in {"none", "preview", "asked", "refused", "done", "settling"}
      BY <3>1
    <3>3. 0 \in Nat /\ TRUE \in BOOLEAN
      OBVIOUS
    <3> QED BY <1>1, <3>1, <3>2, <3>3
  <2>2. CASE Refused \/ Done
    <3>1. \E k \in {"preview", "settling"} : move' = [move EXCEPT !.step = k]
      BY <2>2 DEF Refused, Done
    <3> QED BY <1>1, <3>1
  <2>3. CASE Settle
    BY <1>1, <2>3 DEF Settle
  <2> QED BY <1>4, <2>1, <2>2, <2>3 DEF MoveStep
<1>5. CASE CloseDialog
  BY <1>1, <1>5 DEF CloseDialog
<1>6. CASE UNCHANGED move
  BY <1>1, <1>6
<1> QED BY <1>2, <1>3, <1>4, <1>5, <1>6
        DEF Next, ReadStep, Arrive, FetchFails, UserStep,
            Refocus, Expand, LookUp, LineArrives, LineFails,
            OtherMoves, vars, reads, writes

\* Every step keeps the types.
LEMMA ChartStays ==
    ASSUME ChartTypes, [Next]_vars
    PROVE  ChartTypes'
<1>1. /\ History' /\ Len(past) \in Nat /\ Len(past') \in Nat /\ Len(past') >= Len(past)
      /\ own' \in 1 .. Len(past')
  BY HistoryStays DEF ChartTypes, History
<1>2. query' \in [Key -> Entry(Len(past'))]
  <2>1. Entry(Len(past)) \subseteq Entry(Len(past'))
    BY <1>1 DEF Entry
  <2> QED BY <2>1, QueryTyped
<1>3. expanded' \subseteq Employee /\ extra' \subseteq Employee
         /\ (focus' # None => focus'[2] \in 1 .. Len(past'))
  <2>1. /\ expanded \subseteq Employee /\ extra \subseteq Employee
        /\ (focus # None => focus[2] \in 1 .. Len(past))
        /\ Len(past) \in 1 .. Len(past')
    BY <1>1 DEF ChartTypes, History
  <2>2. ASSUME NEW e \in Expandable, Expand(e)
        PROVE  expanded' \subseteq Employee /\ UNCHANGED <<extra, focus>>
    BY <2>1, <2>2 DEF Expand
  <2>3. ASSUME NEW e \in Focusable, LookUp(e)
        PROVE  UNCHANGED expanded /\ extra' \subseteq Employee /\ focus' = <<e, Len(past)>>
    BY <2>1, <2>3 DEF LookUp, Selected, now
  <2>4. CASE LineArrives
    <3>1. UNCHANGED expanded /\ extra' \subseteq Employee /\ focus' = None
      BY <2>1, <2>4 DEF LineArrives
    <3> QED BY <2>1, <3>1
  <2>5. CASE LineFails
    BY <2>1, <2>5 DEF LineFails
  <2>6. CASE UNCHANGED <<expanded, extra, focus>>
    BY <1>1, <2>1, <2>6
  <2>7. CASE \E e \in Expandable : Expand(e)
    BY <1>1, <2>1, <2>2, <2>7
  <2>8. CASE \E e \in Focusable : LookUp(e)
    <3>1. /\ UNCHANGED expanded /\ extra' \subseteq Employee
          /\ \E e \in Focusable : focus' = <<e, Len(past)>>
      BY <2>3, <2>8
    <3> QED BY <1>1, <2>1, <3>1
  <2> QED BY <2>4, <2>5, <2>6, <2>7, <2>8
          DEF Next, ReadStep, Arrive, FetchFails, MoveStep,
              Serve, Refused, Done, Settle, UserStep,
              Refocus, Propose, CloseDialog, Confirm, OtherMoves,
              vars, reads
<1> QED BY <1>1, <1>2, <1>3, MoveTyped DEF ChartTypes

\* They hold at first.
LEMMA ChartStarts ==
    ASSUME Init
    PROVE  ChartTypes
<1>1. PICK g \in Initial : past = <<g>>
  BY DEF Init
<1>2. g \in Structure /\ Acyclic(g)
  BY <1>1
<1>3. History /\ Len(past) = 1
  BY <1>1, <1>2 DEF History
<1>4. NoEntry \in Entry(1) /\ Fetch(NoEntry, 1) \in Entry(1)
  <2>1. 0 \in 0 .. 1 /\ 1 \in 0 .. 1
    OBVIOUS
  <2> QED BY <2>1 DEF NoEntry, Fetch, Entry
<1>5. Idle \in [step : {"none", "preview", "asked", "refused", "done", "settling"},
                      who : ManagerOrNone, to : ManagerOrNone,
                      read : Nat, today : BOOLEAN]
  BY DEF Idle, ManagerOrNone
<1> QED BY <1>3, <1>4, <1>5 DEF ChartTypes, Init

\* LoopNeedsTwoMoves: on a chart put together from any number of answers, with
\* any number of people, a walk up ends unless two answers are two moves apart.
THEOREM LoopsNeedTwoMoves ==
    Spec => []LoopNeedsTwoMoves
<1>1. Init => ChartTypes
  BY ChartStarts
<1>2. ChartTypes /\ [Next]_vars => ChartTypes'
  BY ChartStays
<1>3. ChartTypes => LoopNeedsTwoMoves
  BY LoopNeedsTwo
<1> QED BY <1>1, <1>2, <1>3, PTL DEF Spec

-----------------------------------------------------------------------------
(* The page's own move on its chart. *)

\* An entry that knows of moment o, was read late for a reason, or is read again.
Abreast(q, o) ==
    \/ q.behind
    \/ q.asked # 0 /\ q.asked >= o
    \/ q.asked = 0 /\ q.data >= o /\ ~q.stale

\* The same of one that may not be mounted, and is then read again once it is.
Pending(q, o) ==
    \/ Abreast(q, o)
    \/ q.asked = 0 /\ (q.data = 0 \/ q.stale)

\* The structure's entries, unless the page has yet to invalidate them.
ChartInv ==
    /\ ChartTypes
    /\ move.step # "done" =>
        \A k \in Key : k[1] # "record" =>
            /\ Pending(query[k], own)
            /\ k \in Shown => Abreast(query[k], own)

\* What becomes of one entry.
LEMMA EntryAbreast ==
    ASSUME NEW n \in Nat \ {0}, NEW o \in 1 .. n, NEW q \in Entry(n)
    PROVE  /\ Pending(q, o) => Abreast(Mount(q, n), o) /\ Abreast(Fetch(q, n), o)
           /\ Pending(q, o) /\ q.asked # 0 =>
                  \A a \in Arrivals(q, n) : a.data # 0 /\ Abreast(a, o)
           /\ Abreast(Failure(q), o)
           /\ Pending(Invalidate(q, FALSE, n), o)
           /\ Abreast(Invalidate(q, TRUE, n), o)
<1> DEFINE D == 0 .. n
           E == [data : D, asked : D, stale : BOOLEAN, behind : BOOLEAN]
<1>1. q \in E /\ n \in D /\ 0 \in D /\ n >= o /\ n # 0
  BY DEF Entry
<1>2. q.asked \in Nat /\ q.data \in Nat
  BY <1>1
<1> HIDE DEF D
<1>3. Pending(q, o) => Abreast(Fetch(q, n), o)
  BY <1>1, <1>2 DEF Fetch, Pending, Abreast
<1>4. Pending(q, o) => Abreast(Mount(q, n), o)
  BY <1>1, <1>2, <1>3 DEF Mount, Pending, Abreast
<1>5. ASSUME Pending(q, o), q.asked # 0, NEW i \in q.asked .. n
      PROVE  LET a == [q EXCEPT !.data = i, !.asked = 0, !.stale = FALSE]
             IN  a.data # 0 /\ Abreast(a, o)
  BY <1>1, <1>2, <1>5 DEF Pending, Abreast
<1>6. Abreast(Failure(q), o)
  BY <1>1 DEF Failure, Abreast
<1>7. Pending(Invalidate(q, FALSE, n), o)
  BY <1>1, <1>2 DEF Invalidate, Abreast, Pending
<1>8. Abreast(Invalidate(q, TRUE, n), o)
  BY <1>1, <1>2 DEF Invalidate, Abreast
<1> QED BY <1>3, <1>4, <1>5, <1>6, <1>7, <1>8 DEF Arrivals

\* What is mounted of the structure depends on the answer about the roots and on
\* what was expanded.
LEMMA ShownStays ==
    ASSUME ChartTypes, [Next]_vars, UNCHANGED expanded,
           query'[Roots].data = query[Roots].data,
           NEW k, k[1] # "record"
    PROVE  k \in Shown' => k \in Shown
<1>1. query[Roots].data \in 0 .. Len(past)
  BY DEF ChartTypes, Entry, Key
<1>2. query[Roots].data # 0 =>
          RootsAt(query[Roots].data)' = RootsAt(query[Roots].data)
  <2>1. query[Roots].data # 0 =>
            past'[query[Roots].data] = past[query[Roots].data]
    BY <1>1, HistoryStays DEF ChartTypes, History
  <2> QED BY <2>1 DEF RootsAt
<1>3. RootsShown' = RootsShown
  BY <1>2 DEF RootsShown
<1> QED BY <1>3 DEF Shown, Record

\* The entries of the structure after a step.
InTouch(q) ==
    \A k \in Key : k[1] # "record" =>
        Pending(q[k], own) /\ (k \in Shown => Abreast(q[k], own))

\* An answer, of any query, and what the page reads because of it.
LEMMA ArriveKeeps ==
    ASSUME ChartTypes, InTouch(query), NEW k \in Key, Arrive(k)
    PROVE  InTouch(query)'
<1> DEFINE n == Len(past)
<1>1. n \in Nat \ {0} /\ query \in [Key -> Entry(n)] /\ own \in 1 .. n /\ own' = own
      /\ past' = past /\ expanded' = expanded
  BY DEF ChartTypes, History, Arrive
<1>2. PICK a \in Arrivals(query[k], n) :
          query' = Mounted([query EXCEPT ![k] = a],
                       IF k = Roots THEN {Tree(e) : e \in RootsAt(a.data)} ELSE {})
  BY DEF Arrive, now
<1> DEFINE q == [query EXCEPT ![k] = a]
           mounted == IF k = Roots THEN {Tree(e) : e \in RootsAt(a.data)} ELSE {}
<1>3. /\ a \in Entry(n) /\ query[k].asked # 0
      /\ k[1] # "record" => a.data # 0 /\ Abreast(a, own)
  <2>1. query[k].asked # 0 /\ query[k] \in Entry(n)
    BY <1>1 DEF Arrive
  <2>2. k[1] # "record" => Pending(query[k], own)
    BY DEF InTouch
  <2> QED BY <1>1, <1>2, <2>1, <2>2, EntryStays, EntryAbreast
<1>4. \A l \in Key :
          /\ q[l] \in Entry(n)
          /\ l[1] # "record" => /\ Pending(q[l], own)
                                /\ (l \in Shown \/ l = k => Abreast(q[l], own))
  BY <1>1, <1>3 DEF InTouch, Pending
<1>5. \A l \in Key : query'[l] = IF l \in mounted THEN Mount(q[l], n) ELSE q[l]
  BY <1>2 DEF Mounted, now
<1> HIDE DEF q, n
<1>6. \A l \in Key : l[1] # "record" =>
          /\ Pending(query'[l], own)
          /\ (l \in Shown \/ l = k \/ l \in mounted => Abreast(query'[l], own))
  <2> SUFFICES ASSUME NEW l \in Key, l[1] # "record"
               PROVE  /\ Pending(query'[l], own)
                      /\ (l \in Shown \/ l = k \/ l \in mounted => Abreast(query'[l], own))
    OBVIOUS
  <2>1. CASE l \in mounted
    <3>1. Abreast(Mount(q[l], n), own)
      BY <1>1, <1>4, EntryAbreast
    <3> QED BY <1>5, <2>1, <3>1 DEF Pending
  <2>2. CASE l \notin mounted
    BY <1>4, <1>5, <2>2
  <2> QED BY <2>1, <2>2
<1>7. \A l \in Key : l[1] # "record" /\ l \in Shown' =>
          l \in Shown \/ l = k \/ l \in mounted
  <2> SUFFICES ASSUME NEW l \in Key, l[1] # "record", l \in Shown'
               PROVE  l \in Shown \/ l \in mounted
    OBVIOUS
  <2>1. Roots \in Key /\ Roots \notin {Tree(e) : e \in Employee}
    BY DEF Key, Roots, Tree
  <2>2. RootsAt(a.data) \subseteq Employee
    BY DEF RootsAt
  <2>3. CASE k = Roots
    <3>1. Roots \notin mounted
      BY <2>1, <2>2
    <3>2. query'[Roots].data = a.data
      BY <1>1, <1>5, <2>1, <2>3, <3>1 DEF q
    <3>3. RootsShown' \subseteq RootsAt(a.data)
      BY <1>1, <3>2 DEF RootsShown, RootsAt
    <3> QED BY <1>1, <2>3, <3>3 DEF Shown, Record
  <2>4. CASE k # Roots
    <3>1. query'[Roots].data = query[Roots].data
      BY <1>1, <1>5, <2>1, <2>4 DEF q
    <3>2. [Next]_vars
      BY DEF Next, ReadStep
    <3> QED BY <1>1, <3>1, <3>2, ShownStays
  <2> QED BY <2>3, <2>4
<1> QED BY <1>1, <1>6, <1>7 DEF InTouch

\* A step that leaves alone what is mounted and keeps or mounts the entries.
LEMMA KeptInTouch ==
    ASSUME ChartTypes, [Next]_vars, InTouch(query), own' = own,
           UNCHANGED expanded,
           \A k \in Key : k[1] # "record" =>
               query'[k] = query[k] \/ (query'[k].data = query[k].data /\ Abreast(query'[k], own))
    PROVE  InTouch(query)'
<1>1. Roots \in Key /\ Roots[1] # "record"
  BY DEF Key, Roots
<1>2. query'[Roots].data = query[Roots].data
  BY <1>1
<1>3. \A k \in Key : k[1] # "record" => (k \in Shown' => k \in Shown)
  BY <1>2, ShownStays
<1> QED BY <1>3 DEF InTouch, Pending

\* Every step keeps it.
LEMMA ChartInductive ==
    ASSUME ChartInv, [Next]_vars
    PROVE  ChartInv'
<1> DEFINE n == Len(past)
<1>1. /\ ChartTypes /\ n \in Nat \ {0} /\ query \in [Key -> Entry(n)]
      /\ own \in 1 .. n /\ now = n
  BY DEF ChartInv, ChartTypes, History, now
<1>2. move.step # "done" => InTouch(query)
  BY DEF ChartInv, InTouch
<1> SUFFICES ASSUME move'.step # "done" PROVE InTouch(query)'
  BY <1>1, ChartStays DEF ChartInv, InTouch
<1> HIDE DEF n
<1>3. ASSUME NEW k \in Key, Arrive(k) PROVE InTouch(query)'
  BY <1>1, <1>2, <1>3, ArriveKeeps DEF Arrive
<1>4. ASSUME move.step # "done", own' = own, UNCHANGED expanded,
             \A k \in Key : k[1] # "record" =>
                 query'[k] = query[k] \/ (query'[k].data = query[k].data /\ Abreast(query'[k], own))
      PROVE  InTouch(query)'
  BY <1>1, <1>2, <1>4, KeptInTouch
<1>5. ASSUME NEW k \in Key, FetchFails(k) PROVE InTouch(query)'
  <2>1. Abreast(Failure(query[k]), own) /\ Failure(query[k]).data = query[k].data
    BY <1>1, EntryAbreast DEF Failure, Entry
  <2>2. query' = [query EXCEPT ![k] = Failure(query[k])]
    BY <1>5 DEF FetchFails
  <2>3. \A l \in Key : query'[l] = query[l]
            \/ (query'[l].data = query[l].data /\ Abreast(query'[l], own))
    BY <1>1, <2>1, <2>2
  <2> QED BY <1>4, <1>5, <2>3 DEF FetchFails
<1>6. CASE Refocus
  <2>1. move.step # "done" /\ own' = own /\ UNCHANGED expanded
    BY <1>6 DEF Refocus, Quiet, writes
  <2>2. \A k \in Key : query'[k] = query[k] \/ query'[k] = Fetch(query[k], n)
    BY <1>1, <1>6 DEF Refocus
  <2>3. \A k \in Key : k[1] # "record" =>
            Fetch(query[k], n).data = query[k].data /\ Abreast(Fetch(query[k], n), own)
    <3> SUFFICES ASSUME NEW k \in Key, k[1] # "record"
                 PROVE  /\ Fetch(query[k], n).data = query[k].data
                        /\ Abreast(Fetch(query[k], n), own)
      OBVIOUS
    <3>1. query[k] \in Entry(n) /\ Pending(query[k], own)
      BY <1>1, <1>2, <2>1 DEF InTouch
    <3>2. Fetch(query[k], n).data = query[k].data
      BY <3>1 DEF Fetch, Entry
    <3> QED BY <1>1, <3>1, <3>2, EntryAbreast
  <2> QED BY <1>4, <2>1, <2>2, <2>3
<1>7. ASSUME NEW e \in Expandable, Expand(e) PROVE InTouch(query)'
  <2> DEFINE b == Branch(e)
  <2>1. /\ \A k \in Key :
               query'[k] = IF k = b THEN Mount(query[k], n) ELSE query[k]
        /\ expanded' = expanded \cup {e} /\ own' = own /\ move' = move /\ UNCHANGED past
    BY <1>1, <1>7 DEF Expand, Mounted, writes
  <2>2. b \in Key /\ b[1] # "record" /\ b # Roots /\ Roots \in Key
    BY DEF Key, Branch, Roots
  <2>3. Abreast(Mount(query[b], n), own)
    <3>1. Pending(query[b], own) /\ query[b] \in Entry(n)
      BY <1>1, <1>2, <2>1, <2>2 DEF InTouch
    <3> QED BY <1>1, <3>1, EntryAbreast
  <2>4. query'[Roots] = query[Roots]
    BY <2>1, <2>2
  <2>5. RootsShown' = RootsShown
    BY <2>1, <2>4 DEF RootsShown, RootsAt
  <2>6. \A k \in Key : k[1] # "record" => (k \in Shown' => k \in Shown \/ k = b)
    BY <2>1, <2>5 DEF Shown, Record
  <2> HIDE DEF b
  <2> QED BY <1>2, <2>1, <2>3, <2>6 DEF InTouch, Pending
<1>8. ASSUME NEW e, LookUp(e) PROVE InTouch(query)'
  <2>1. move.step # "done" /\ own' = own /\ UNCHANGED expanded
    BY <1>8 DEF LookUp, Quiet, writes
  <2>2. \A k \in Key : k[1] # "record" => query'[k] = query[k]
    BY <1>1, <1>8 DEF LookUp, Selected, Record
  <2> QED BY <1>4, <2>1, <2>2
<1>9. CASE LineArrives
  <2>1. move' = move /\ own' = own /\ UNCHANGED expanded
    BY <1>9 DEF LineArrives, writes
  <2>2. \A k \in Key : k[1] # "record" => query'[k] = query[k]
    BY <1>9 DEF LineArrives, Record
  <2> QED BY <1>4, <2>1, <2>2
<1>10. CASE Done
  <2> DEFINE kept == [query EXCEPT ![Record(move.who)] =
                         IF move.who \in extra THEN SetData(@, own) ELSE @]
  <2>1. /\ query' = [k \in Key |-> Invalidate(kept[k], k \in Shown, n)]
        /\ own' = own /\ UNCHANGED <<past, expanded>>
    BY <1>1, <1>10 DEF Done
  <2>2. \A k \in Key : k[1] # "record" => kept[k] = query[k]
    BY <1>1 DEF Record
  <2>3. \A k \in Key : k[1] # "record" =>
            query'[k] = Invalidate(query[k], k \in Shown, n)
    BY <2>1, <2>2
  <2>4. \A k \in Key : k[1] # "record" =>
            /\ Pending(query'[k], own)
            /\ k \in Shown => Abreast(query'[k], own)
    <3> SUFFICES ASSUME NEW k \in Key, k[1] # "record"
                 PROVE  /\ Pending(query'[k], own)
                        /\ k \in Shown => Abreast(query'[k], own)
      OBVIOUS
    <3>0. query[k] \in Entry(n)
      BY <1>1
    <3>1. CASE k \in Shown
      <4>1. (k \in Shown) = TRUE
        BY <3>1
      <4>2. query'[k] = Invalidate(query[k], TRUE, n)
        BY <2>3, <4>1
      <4>3. Abreast(Invalidate(query[k], TRUE, n), own)
        BY <1>1, <3>0, EntryAbreast
      <4> QED BY <4>2, <4>3 DEF Pending
    <3>2. CASE k \notin Shown
      <4>1. (k \in Shown) = FALSE
        BY <3>2
      <4>2. query'[k] = Invalidate(query[k], FALSE, n)
        BY <2>3, <4>1
      <4>3. Pending(Invalidate(query[k], FALSE, n), own)
        BY <1>1, <3>0, EntryAbreast
      <4> QED BY <3>2, <4>2, <4>3
    <3> QED BY <3>1, <3>2
  <2>5. query'[Roots].data = query[Roots].data
    <3>1. Roots \in Key /\ Roots[1] # "record"
      BY DEF Key, Roots
    <3>2. query'[Roots] = Invalidate(query[Roots], Roots \in Shown, n)
      BY <2>3, <3>1
    <3> QED BY <1>1, <3>1, <3>2 DEF Invalidate, Entry
  <2>6. \A k \in Key : k[1] # "record" => (k \in Shown' => k \in Shown)
    BY <1>1, <2>1, <2>5, ShownStays
  <2> QED BY <2>1, <2>4, <2>6 DEF InTouch
<1>11. CASE Serve
  <2>1. own' = own /\ move.step # "done" /\ UNCHANGED <<query, expanded>>
    BY <1>1, <1>11 DEF Serve, Over, reads, ChartTypes
  <2> QED BY <1>4, <2>1
<1>12. CASE UNCHANGED <<query, expanded, own>> /\ move.step # "done"
  BY <1>4, <1>12
<1>13. ASSUME NEW today \in BOOLEAN, Confirm(today) PROVE InTouch(query)'
  BY <1>12, <1>13 DEF Confirm, reads
<1>14. CASE Refused \/ Settle \/ CloseDialog
  BY <1>12, <1>14 DEF Refused, Settle, CloseDialog, reads
<1>15. ASSUME NEW e, NEW m, Propose(e, m) PROVE InTouch(query)'
  BY <1>12, <1>15 DEF Propose, reads
<1>16. CASE LineFails \/ UNCHANGED vars
  BY <1>12, <1>16 DEF LineFails, vars, reads, writes
<1>17. ASSUME NEW e, NEW m, OtherMoves(e, m) PROVE InTouch(query)'
  BY <1>12, <1>17 DEF OtherMoves, reads, writes
<1> QED BY <1>3, <1>5, <1>6, <1>7, <1>8, <1>9, <1>10, <1>11, <1>13, <1>14, <1>15, <1>16, <1>17
        DEF Next, ReadStep, MoveStep, UserStep

\* OwnMoveShows: with any number of answers on their way in any order, a chart
\* that waits for nothing shows the page's own last move.
THEOREM OwnMoveAlwaysShows ==
    Spec => []OwnMoveShows
<1>1. Init => ChartInv
  <2> SUFFICES ASSUME Init PROVE ChartInv
    OBVIOUS
  <2>1. ChartTypes
    BY ChartStarts
  <2>2. \A k \in Key : query[k] = IF k = Roots THEN Fetch(NoEntry, 1)
                                        ELSE NoEntry
    BY DEF Init
  <2>3. own = 1 /\ NoEntry.data = 0 /\ NoEntry.asked = 0
    BY DEF Init, NoEntry
  <2>4. Fetch(NoEntry, 1).asked = 1 /\ Fetch(NoEntry, 1).data = 0
    BY DEF Fetch, NoEntry
  <2>5. Roots \in Key /\ RootsShown = {} /\ expanded = {} /\ extra = {}
    <3>1. Roots \in Key
      BY DEF Key
    <3> QED BY <2>2, <2>4, <3>1 DEF RootsShown, Init
  <2>6. Shown = {Roots}
    BY <2>5 DEF Shown
  <2> QED BY <2>1, <2>2, <2>3, <2>4, <2>6 DEF ChartInv, Pending, Abreast
<1>2. ChartInv /\ [Next]_vars => ChartInv'
  BY ChartInductive
<1>3. ChartInv => OwnMoveShows
  <2> SUFFICES ASSUME ChartInv, move.step \in {"none", "preview"}, NEW k \in Shown,
                      k[1] # "record"
               PROVE  query[k].data >= own \/ query[k].asked # 0 \/ query[k].behind
    BY DEF OwnMoveShows
  <2>1. k \in Key
    <3>1. RootsShown \subseteq Employee /\ expanded \subseteq Employee
      BY DEF RootsShown, RootsAt, ChartInv, ChartTypes
    <3> QED BY <3>1 DEF Shown, Key, Roots, Tree, Branch, Record
  <2> QED BY <2>1 DEF ChartInv, Abreast
<1> QED BY <1>1, <1>2, <1>3, PTL DEF Spec

-----------------------------------------------------------------------------
(* A walk down the chart. *)

\* What holds on the first level and on the next one if it held on one holds on
\* all: otherwise there would be a first level on which it does not.
LEMMA LevelByLevel ==
    ASSUME NEW n \in Nat, NEW P \in SUBSET (0 .. n), 0 \in P,
           \A i \in 1 .. n : i - 1 \in P => i \in P
    PROVE  P = 0 .. n
<1> SUFFICES ASSUME P # 0 .. n PROVE FALSE
  OBVIOUS
<1> DEFINE R == StrictSubsetOrdering(0 .. n)
           Heads == {0 .. i : i \in (0 .. n) \ P}
<1>1. IsWellFoundedOn(R, SUBSET (0 .. n))
  <2>1. IsFiniteSet(0 .. n) /\ 0 \in Int /\ n \in Int
    BY FS_Interval
  <2>2. FiniteSubsetsOf(0 .. n) = SUBSET (0 .. n)
    BY <2>1, FS_FiniteSubsetsOfFinite
  <2>3. IsWellFoundedOn(R, FiniteSubsetsOf(0 .. n))
    BY FS_StrictSubsetOrderingWellFounded
  <2> HIDE DEF R
  <2> QED BY <2>2, <2>3
<1>2. Heads \subseteq SUBSET (0 .. n) /\ Heads # {}
  <2>1. \A i \in 0 .. n : 0 .. i \subseteq 0 .. n
    OBVIOUS
  <2> QED BY <2>1
<1>3. PICK T \in Heads : \A U \in Heads : <<U, T>> \notin R
  <2> HIDE DEF Heads, R
  <2> QED BY <1>1, <1>2, WFMin
<1>4. PICK i \in (0 .. n) \ P : T = 0 .. i
  BY <1>3
<1>5. i \in 1 .. n /\ i - 1 \in (0 .. n) \ P
  BY <1>4
<1>6. 0 .. (i - 1) \in Heads
  BY <1>5
<1>7. <<0 .. (i - 1), T>> \in R
  <2>1. 0 .. (i - 1) \subseteq 0 .. i /\ i \in 0 .. i /\ i \notin 0 .. (i - 1)
    BY <1>5
  <2>2. 0 .. (i - 1) \in SUBSET (0 .. n) /\ T \in SUBSET (0 .. n) /\ 0 .. (i - 1) # T
    BY <1>4, <2>1
  <2> QED BY <1>4, <2>1, <2>2 DEF StrictSubsetOrdering
<1> QED BY <1>3, <1>6, <1>7

\* One level more.
Further(m, met) == met \cup UNION {Children(m, x) : x \in met}

\* The levels down to a depth are what they are said to be.
IsWalk(m, from, depth, met) ==
    met = [n \in 0 .. depth |-> IF n = 0 THEN from ELSE Further(m, met[n - 1])]

\* There is a walk to every depth.
LEMMA WalkExists ==
    ASSUME NEW m, NEW from, NEW depth \in Nat
    PROVE  \E met : IsWalk(m, from, depth, met)
<1> DEFINE P == {k \in 0 .. depth : \E met : IsWalk(m, from, k, met)}
<1>1. 0 \in P
  <2> DEFINE met == [n \in 0 .. 0 |-> from]
  <2>1. met = [n \in 0 .. 0 |-> IF n = 0 THEN from ELSE Further(m, met[n - 1])]
    OBVIOUS
  <2>2. IsWalk(m, from, 0, met)
    BY <2>1 DEF IsWalk
  <2> QED BY <2>2
<1>2. ASSUME NEW k \in 1 .. depth, k - 1 \in P PROVE k \in P
  <2>1. PICK met : IsWalk(m, from, k - 1, met)
    BY <1>2
  <2> DEFINE more == [n \in 0 .. k |-> IF n = k THEN Further(m, met[k - 1]) ELSE met[n]]
  <2>2. \A n \in 0 .. (k - 1) : met[n] = IF n = 0 THEN from ELSE Further(m, met[n - 1])
    BY <2>1 DEF IsWalk
  <2>3. ASSUME NEW n \in 0 .. k
        PROVE  more[n] = IF n = 0 THEN from ELSE Further(m, more[n - 1])
    <3>1. CASE n = k
      BY <3>1
    <3>2. CASE n \in 0 .. (k - 1)
      BY <2>2, <3>2
    <3> QED BY <3>1, <3>2
  <2>4. more = [n \in 0 .. k |-> more[n]]
    OBVIOUS
  <2> HIDE DEF more
  <2>5. more = [n \in 0 .. k |-> IF n = 0 THEN from ELSE Further(m, more[n - 1])]
    BY <2>3, <2>4, Zenon
  <2>6. IsWalk(m, from, k, more)
    BY <2>5 DEF IsWalk
  <2> QED BY <2>6
<1>3. P = 0 .. depth
  <2>1. P \in SUBSET (0 .. depth)
    OBVIOUS
  <2> HIDE DEF P
  <2> QED BY <1>1, <1>2, <2>1, LevelByLevel
<1>4. depth \in P
  BY <1>3
<1> QED BY <1>4

\* Walks to two depths agree.
LEMMA WalksAgree ==
    ASSUME NEW m, NEW from, NEW k \in Nat, NEW l \in Nat, k <= l,
           NEW f, IsWalk(m, from, k, f), NEW g, IsWalk(m, from, l, g)
    PROVE  f[k] = g[k]
<1> DEFINE P == {n \in 0 .. k : f[n] = g[n]}
<1>1. /\ \A n \in 0 .. k : f[n] = IF n = 0 THEN from ELSE Further(m, f[n - 1])
      /\ \A n \in 0 .. l : g[n] = IF n = 0 THEN from ELSE Further(m, g[n - 1])
  BY DEF IsWalk
<1>2. 0 \in P
  BY <1>1
<1>3. ASSUME NEW n \in 1 .. k, n - 1 \in P PROVE n \in P
  BY <1>1, <1>3
<1>4. P = 0 .. k
  <2>1. P \in SUBSET (0 .. k)
    OBVIOUS
  <2> HIDE DEF P
  <2> QED BY <1>2, <1>3, <2>1, LevelByLevel
<1>5. k \in P
  BY <1>4
<1> QED BY <1>5

\* Below is the last level of a walk.
LEMMA BelowWalk ==
    ASSUME NEW m, NEW from, NEW depth \in Nat
    PROVE  \E met : IsWalk(m, from, depth, met) /\ Below(m, from, depth) = met[depth]
<1> DEFINE met[n \in 0 .. depth] ==
               IF n = 0 THEN from
               ELSE met[n - 1] \cup UNION {Children(m, x) : x \in met[n - 1]}
<1>1. \E f : f = [n \in 0 .. depth |->
          IF n = 0 THEN from ELSE f[n - 1] \cup UNION {Children(m, x) : x \in f[n - 1]}]
  <2>1. PICK f : IsWalk(m, from, depth, f)
    BY WalkExists
  <2>2. f = [n \in 0 .. depth |->
          IF n = 0 THEN from ELSE f[n - 1] \cup UNION {Children(m, x) : x \in f[n - 1]}]
    BY <2>1 DEF IsWalk, Further
  <2> QED BY <2>2
<1>2. met = [n \in 0 .. depth |->
          IF n = 0 THEN from ELSE met[n - 1] \cup UNION {Children(m, x) : x \in met[n - 1]}]
  BY <1>1, Zenon
<1>3. Below(m, from, depth) = met[depth]
  BY DEF Below
<1> HIDE DEF met
<1> QED BY <1>2, <1>3 DEF IsWalk, Further

\* Below, level by level.
LEMMA BelowLevels ==
    ASSUME NEW m, NEW from
    PROVE  /\ Below(m, from, 0) = from
           /\ \A n \in Nat \ {0} : Below(m, from, n) = Further(m, Below(m, from, n - 1))
<1>1. Below(m, from, 0) = from
  <2>1. PICK met : IsWalk(m, from, 0, met) /\ Below(m, from, 0) = met[0]
    BY BelowWalk
  <2> QED BY <2>1 DEF IsWalk
<1>2. ASSUME NEW n \in Nat \ {0} PROVE Below(m, from, n) = Further(m, Below(m, from, n - 1))
  <2>1. PICK f : IsWalk(m, from, n, f) /\ Below(m, from, n) = f[n]
    BY BelowWalk
  <2>2. n - 1 \in Nat
    OBVIOUS
  <2>3. PICK g : IsWalk(m, from, n - 1, g) /\ Below(m, from, n - 1) = g[n - 1]
    BY <2>2, BelowWalk
  <2>4. g[n - 1] = f[n - 1]
    BY <2>1, <2>2, <2>3, WalksAgree
  <2>5. f[n] = Further(m, f[n - 1])
    BY <2>1 DEF IsWalk
  <2> QED BY <2>1, <2>3, <2>4, <2>5
<1> QED BY <1>1, <1>2

-----------------------------------------------------------------------------
(* Those above somebody. *)

Above(g, x) == {y \in Employee \ {x} : Reaches(g, x, y)}

\* On a way from m up to x, whoever is not x has a manager, who is on it too.
LEMMA OnTheWay ==
    ASSUME NEW g \in Structure, NEW m \in Employee, NEW x \in Employee, NEW y \in Employee \ {x},
           Reaches(g, m, y), Reaches(g, y, x)
    PROVE  g[y] \in Employee /\ Reaches(g, m, g[y]) /\ Reaches(g, g[y], x)
<1>1. g[y] # NoManager
  <2> SUFFICES ASSUME g[y] = NoManager PROVE FALSE
    OBVIOUS
  <2>1. UpClosed(g, {y}) /\ {y} \in SUBSET Employee
    BY DEF UpClosed
  <2> QED BY <2>1 DEF Reaches
<1>2. g[y] \in Employee
  BY <1>1 DEF Structure, ManagerOrNone
<1>3. Reaches(g, m, g[y])
  <2> SUFFICES ASSUME NEW T \in SUBSET Employee, m \in T, UpClosed(g, T) PROVE g[y] \in T
    BY DEF Reaches
  <2>1. y \in T
    BY DEF Reaches
  <2> QED BY <1>1, <2>1 DEF UpClosed
<1>4. Reaches(g, g[y], x)
  <2> SUFFICES ASSUME NEW T \in SUBSET Employee, g[y] \in T, UpClosed(g, T) PROVE x \in T
    BY DEF Reaches
  <2>1. UpClosed(g, T \cup {y}) /\ T \cup {y} \in SUBSET Employee /\ y \in T \cup {y}
    BY DEF UpClosed
  <2>2. x \in T \cup {y}
    BY <2>1 DEF Reaches
  <2> QED BY <2>2
<1> QED BY <1>2, <1>3, <1>4

\* A way up begins with the manager, and does not come back.
LEMMA WaysUp ==
    ASSUME NEW g \in Structure, Acyclic(g), NEW x \in Employee
    PROVE  /\ g[x] = NoManager => Above(g, x) = {}
           /\ g[x] # NoManager => /\ g[x] \in Employee /\ g[x] # x
                                  /\ Above(g, x) = Above(g, g[x]) \cup {g[x]}
                                  /\ g[x] \notin Above(g, g[x])
                                  /\ x \notin Above(g, g[x])
<1>1. CASE g[x] = NoManager
  <2>1. UpClosed(g, {x}) /\ x \in {x} /\ {x} \in SUBSET Employee
    BY <1>1 DEF UpClosed
  <2>2. \A y \in Employee : Reaches(g, x, y) => y = x
    BY <2>1 DEF Reaches
  <2> QED BY <1>1, <2>2 DEF Above
<1>2. CASE g[x] # NoManager
  <2> DEFINE m == g[x]
  <2>1. m \in Employee
    BY <1>2 DEF Structure, ManagerOrNone
  <2>2. ASSUME NEW y \in Employee, Reaches(g, m, y) PROVE Reaches(g, x, y)
    <3> SUFFICES ASSUME NEW S \in SUBSET Employee, x \in S, UpClosed(g, S) PROVE y \in S
      BY DEF Reaches
    <3>1. m \in S
      BY <1>2 DEF UpClosed
    <3> QED BY <2>2, <3>1 DEF Reaches
  <2>3. ASSUME NEW y \in Employee, Reaches(g, x, y), y # x PROVE Reaches(g, m, y)
    <3> SUFFICES ASSUME NEW S \in SUBSET Employee, m \in S, UpClosed(g, S) PROVE y \in S
      BY DEF Reaches
    <3>1. UpClosed(g, S \cup {x}) /\ x \in S \cup {x} /\ S \cup {x} \in SUBSET Employee
      BY DEF UpClosed
    <3>2. y \in S \cup {x}
      BY <2>3, <3>1 DEF Reaches
    <3> QED BY <2>3, <3>2
  <2>4. ~Reaches(g, m, x)
    <3> SUFFICES ASSUME Reaches(g, m, x) PROVE FALSE
      OBVIOUS
    <3> DEFINE S == {y \in Employee : Reaches(g, m, y) /\ Reaches(g, y, x)}
    <3>1. x \in S
      BY DEF Reaches
    <3>2. ASSUME NEW y \in S PROVE g[y] \in S
      <4>1. CASE y = x
        BY <2>1, <4>1 DEF Reaches
      <4>2. CASE y # x
        BY <2>1, <4>2, OnTheWay
      <4> QED BY <4>1, <4>2
    <3> HIDE DEF S
    <3>3. S \in SUBSET Employee
      BY DEF S
    <3> QED BY <3>1, <3>2, <3>3 DEF Acyclic
  <2>5. m # x
    BY <2>4 DEF Reaches
  <2>6. Reaches(g, m, m)
    BY DEF Reaches
  <2> HIDE DEF m
  <2>7. Above(g, x) = Above(g, m) \cup {m}
    BY <2>1, <2>2, <2>3, <2>4, <2>5, <2>6 DEF Above
  <2>8. m \notin Above(g, m) /\ x \notin Above(g, m)
    BY <2>4 DEF Above
  <2> QED BY <1>2, <2>1, <2>5, <2>7, <2>8 DEF m
<1> QED BY <1>1, <1>2

\* How many are above somebody.
Level(g, x) == Cardinality(Above(g, x))

\* It is nobody for a root, and one more than for the manager otherwise.
LEMMA LevelsCount ==
    ASSUME NEW g \in Structure, Acyclic(g), NEW x \in Employee
    PROVE  /\ IsFiniteSet(Above(g, x)) /\ Level(g, x) \in Nat
           /\ Level(g, x) = 0 <=> g[x] = NoManager
           /\ g[x] # NoManager => Level(g, x) = Level(g, g[x]) + 1
<1>1. \A y \in Employee : Above(g, y) \in SUBSET Employee
  BY DEF Above
<1>2. \A y \in Employee : IsFiniteSet(Above(g, y)) /\ Cardinality(Above(g, y)) \in Nat
  BY <1>1, EmployeeAssumption, FS_Subset, FS_CardinalityType
<1>3. CASE g[x] = NoManager
  BY <1>2, <1>3, WaysUp, FS_EmptySet DEF Level
<1>4. CASE g[x] # NoManager
  <2>1. /\ g[x] \in Employee /\ Above(g, x) = Above(g, g[x]) \cup {g[x]}
        /\ g[x] \notin Above(g, g[x])
    BY <1>4, WaysUp
  <2>2. Cardinality(Above(g, x)) = Cardinality(Above(g, g[x])) + 1
    BY <1>2, <2>1, FS_AddElement
  <2> QED BY <1>2, <1>4, <2>1, <2>2 DEF Level
<1> QED BY <1>2, <1>3, <1>4

\* To put e under m closes no loop if and only if e is neither m nor above m.
LEMMA AllowedUnlessAbove ==
    ASSUME NEW g \in Structure, Acyclic(g), NEW e \in Employee, NEW m \in Employee
    PROVE  Allowed(g, e, m) <=> e # m /\ e \notin Above(g, m)
<1> DEFINE h == [g EXCEPT ![e] = m]
<1>1. h[e] = m /\ \A y \in Employee \ {e} : h[y] = g[y]
  BY DEF Structure
<1>2. ASSUME Reaches(g, m, e) PROVE ~Acyclic(h)
  <2> DEFINE S == {y \in Employee : Reaches(g, m, y) /\ Reaches(g, y, e)}
  <2>1. m \in S
    BY <1>2 DEF Reaches
  <2>2. ASSUME NEW y \in S PROVE h[y] \in S
    <3>1. CASE y = e
      BY <1>1, <2>1, <3>1
    <3>2. CASE y # e
      <4>1. g[y] \in S
        BY <3>2, OnTheWay
      <4> QED BY <1>1, <3>2, <4>1
    <3> QED BY <3>1, <3>2
  <2>3. S \in SUBSET Employee
    OBVIOUS
  <2> HIDE DEF S, h
  <2> QED BY <2>1, <2>2, <2>3 DEF Acyclic
<1>3. ASSUME ~Reaches(g, m, e) PROVE Acyclic(h)
  <2> SUFFICES ASSUME NEW S \in SUBSET Employee, S # {}, \A y \in S : h[y] \in S
               PROVE  FALSE
    BY DEF Acyclic
  <2>1. PICK T \in SUBSET Employee : m \in T /\ UpClosed(g, T) /\ e \notin T
    BY <1>3 DEF Reaches
  <2> HIDE DEF h
  <2>2. e \in S
    <3> SUFFICES ASSUME e \notin S PROVE FALSE
      OBVIOUS
    <3>1. \A y \in S : g[y] \in S
      BY <1>1
    <3> QED BY <3>1 DEF Acyclic
  <2>3. m \in S \cap T
    BY <1>1, <2>1, <2>2
  <2>4. \A y \in S \cap T : g[y] \in S \cap T
    BY <1>1, <2>1, EmployeeAssumption DEF UpClosed
  <2> QED BY <2>3, <2>4 DEF Acyclic
<1>4. Reaches(g, m, e) <=> e = m \/ e \in Above(g, m)
  BY DEF Above, Reaches
<1>5. Allowed(g, e, m) <=> Acyclic(h)
  BY DEF Allowed
<1> QED BY <1>2, <1>3, <1>4, <1>5

-----------------------------------------------------------------------------
(* A chart with the server's managers. *)

\* Some of the employees with the managers they have.
Part(g, K) == [x \in K |-> g[x]]

\* Those of them who hang on a root.
Attached(g, K) == {x \in K : Above(g, x) \subseteq K}

Tops(g) == {x \in Employee : g[x] = NoManager}

\* A level further down in a part of a structure.
LEMMA PartChildren ==
    ASSUME NEW g \in Structure, NEW K \in SUBSET Employee, NEW X \in SUBSET Employee
    PROVE  Further(Part(g, K), X) = X \cup {e \in K : g[e] \in X}
<1> DEFINE C(x) == {e \in K : g[e] = x}
<1>1. \A x : Children(Part(g, K), x) = C(x)
  BY DEF Children, Part
<1>2. Further(Part(g, K), X) = X \cup UNION {C(x) : x \in X}
  BY <1>1 DEF Further
<1>3. UNION {C(x) : x \in X} = {e \in K : g[e] \in X}
  OBVIOUS
<1> QED BY <1>2, <1>3

\* The walk from the roots has met, n levels down, those on the first n levels.
LEMMA WalkFromTheRoots ==
    ASSUME NEW g \in Structure, Acyclic(g), NEW K \in SUBSET Employee, Tops(g) \subseteq K,
           NEW n \in Nat
    PROVE  Below(Part(g, K), Tops(g), n) = {x \in Attached(g, K) : Level(g, x) <= n}
<1> DEFINE B(k) == Below(Part(g, K), Tops(g), k)
           L(k) == {x \in Attached(g, K) : Level(g, x) <= k}
           P == {k \in 0 .. n : B(k) = L(k)}
<1>1. 0 \in P
  <2>1. B(0) = Tops(g)
    BY BelowLevels
  <2>2. ASSUME NEW x \in Employee PROVE x \in Tops(g) <=> x \in L(0)
    <3>1. Level(g, x) \in Nat /\ (Level(g, x) = 0 <=> g[x] = NoManager)
          /\ (g[x] = NoManager => Above(g, x) = {})
      BY LevelsCount, WaysUp
    <3> QED BY <3>1 DEF Tops, Attached
  <2>3. Tops(g) \subseteq Employee /\ L(0) \subseteq Employee
    BY DEF Tops, Attached
  <2> HIDE DEF L, B
  <2>4. Tops(g) = L(0)
    BY <2>2, <2>3
  <2> QED BY <2>1, <2>4
<1>2. ASSUME NEW k \in 1 .. n, k - 1 \in P PROVE k \in P
  <2>1. B(k) = Further(Part(g, K), B(k - 1)) /\ B(k - 1) = L(k - 1)
    BY <1>2, BelowLevels
  <2>2. L(k - 1) \in SUBSET Employee
    BY DEF Attached
  <2>3. B(k) = L(k - 1) \cup {x \in K : g[x] \in L(k - 1)}
    <3> HIDE DEF B, L
    <3> QED BY <2>1, <2>2, PartChildren
  <2>4. ASSUME NEW x \in Employee
        PROVE  x \in L(k) <=> x \in L(k - 1) \/ (x \in K /\ g[x] \in L(k - 1))
    <3>1. CASE g[x] = NoManager
      <4>1. Level(g, x) = 0 /\ NoManager \notin Employee
        BY <3>1, LevelsCount, EmployeeAssumption
      <4> QED BY <3>1, <4>1, <2>2
    <3>2. CASE g[x] # NoManager
      <4> DEFINE m == g[x]
      <4>1. m \in Employee /\ Above(g, x) = Above(g, m) \cup {m}
        BY <3>2, WaysUp
      <4>2. Level(g, x) \in Nat /\ Level(g, m) \in Nat /\ Level(g, x) = Level(g, m) + 1
        BY <3>2, <4>1, LevelsCount
      <4>3. Level(g, x) <= k <=> Level(g, m) <= k - 1
        BY <4>2
      <4>4. Level(g, x) <= k - 1 => Level(g, x) <= k
        BY <4>2
      <4>5. x \in Attached(g, K) <=> x \in K /\ m \in Attached(g, K)
        BY <4>1 DEF Attached
      <4> QED BY <4>3, <4>4, <4>5
    <3> QED BY <3>1, <3>2
  <2>5. L(k) \subseteq Employee
    BY DEF Attached
  <2> HIDE DEF L, B
  <2>6. B(k) = L(k)
    BY <2>2, <2>3, <2>4, <2>5
  <2> QED BY <2>6
<1>3. P = 0 .. n
  <2>1. P \in SUBSET (0 .. n)
    OBVIOUS
  <2> HIDE DEF P
  <2> QED BY <1>1, <1>2, <2>1, LevelByLevel
<1>4. n \in P
  BY <1>3
<1> QED BY <1>4

\* The walk down from somebody meets those they are above of, the attached ones
\* all, in so many levels.
LEMMA WalkDownABranch ==
    ASSUME NEW g \in Structure, Acyclic(g), NEW K \in SUBSET Employee, NEW e \in K, NEW n \in Nat
    PROVE  LET c == Part(g, K)
               met == Below(c, Children(c, e), n)
           IN  /\ \A x \in met : x \in K /\ e \in Above(g, x)
               /\ \A x \in Attached(g, K) : e \in Above(g, x) /\ Level(g, x) <= n + 1 => x \in met
<1> DEFINE c == Part(g, K)
           from == {x \in K : g[x] = e}
           B(k) == Below(c, from, k)
           Good(k) ==
               /\ from \subseteq B(k)
               /\ \A x \in B(k) : x \in K /\ e \in Above(g, x)
               /\ \A x \in Attached(g, K) : e \in Above(g, x) /\ Level(g, x) <= k + 1 => x \in B(k)
           P == {k \in 0 .. n : Good(k)}
<1>0. Children(c, e) = from
  BY DEF Children, Part
<1>1. 0 \in P
  <2>1. B(0) = from
    BY BelowLevels
  <2>2. ASSUME NEW x \in from PROVE x \in K /\ e \in Above(g, x)
    <3>1. x \in Employee /\ g[x] = e /\ e # NoManager
      BY EmployeeAssumption
    <3> QED BY <3>1, WaysUp
  <2>3. ASSUME NEW x \in Attached(g, K), e \in Above(g, x), Level(g, x) <= 1 PROVE x \in from
    <3>1. x \in Employee /\ x \in K
      BY DEF Attached
    <3>2. g[x] # NoManager
      BY <2>3, <3>1, WaysUp
    <3>3. /\ g[x] \in Employee /\ Above(g, x) = Above(g, g[x]) \cup {g[x]}
          /\ Level(g, x) = Level(g, g[x]) + 1 /\ Level(g, g[x]) \in Nat
      BY <3>1, <3>2, WaysUp, LevelsCount
    <3>4. Level(g, g[x]) = 0
      BY <2>3, <3>3
    <3>5. Above(g, g[x]) = {}
      BY <3>3, <3>4, LevelsCount, WaysUp
    <3> QED BY <2>3, <3>1, <3>3, <3>5
  <2>4. 0 + 1 = 1 /\ 0 \in 0 .. n
    OBVIOUS
  <2> HIDE DEF B, from
  <2> QED BY <2>1, <2>2, <2>3, <2>4
<1>2. ASSUME NEW k \in 1 .. n, k - 1 \in P PROVE k \in P
  <2>1. Good(k - 1) /\ k \in 0 .. n /\ (k - 1) + 1 = k
    BY <1>2
  <2>2. B(k) = Further(c, B(k - 1))
    BY BelowLevels
  <2>3. B(k - 1) \in SUBSET Employee
    BY <2>1
  <2>4. B(k) = B(k - 1) \cup {x \in K : g[x] \in B(k - 1)}
    <3> HIDE DEF B
    <3> QED BY <2>2, <2>3, PartChildren
  <2>5. ASSUME NEW x \in K, g[x] \in B(k - 1) PROVE e \in Above(g, x)
    <3>1. g[x] \in Employee /\ g[x] # NoManager /\ e \in Above(g, g[x])
      BY <2>1, <2>3, <2>5, EmployeeAssumption
    <3> QED BY <3>1, WaysUp
  <2>6. ASSUME NEW x \in Attached(g, K), e \in Above(g, x), Level(g, x) <= k + 1 PROVE x \in B(k)
    <3>1. x \in Employee /\ x \in K /\ Above(g, x) \subseteq K
      BY DEF Attached
    <3>2. g[x] # NoManager
      BY <2>6, <3>1, WaysUp
    <3>3. /\ g[x] \in Employee /\ Above(g, x) = Above(g, g[x]) \cup {g[x]}
          /\ Level(g, x) = Level(g, g[x]) + 1 /\ Level(g, g[x]) \in Nat
      BY <3>1, <3>2, WaysUp, LevelsCount
    <3>4. CASE g[x] = e
      BY <2>1, <2>4, <3>1, <3>4
    <3>5. CASE g[x] # e
      <4>1. g[x] \in Attached(g, K) /\ e \in Above(g, g[x])
        BY <2>6, <3>1, <3>3, <3>5 DEF Attached
      <4>2. Level(g, g[x]) <= (k - 1) + 1
        BY <2>6, <3>3
      <4>3. g[x] \in B(k - 1)
        <5> HIDE DEF B
        <5> QED BY <2>1, <4>1, <4>2
      <4> QED BY <2>4, <3>1, <4>3
    <3> QED BY <3>4, <3>5
  <2>7. from \subseteq B(k)
    BY <2>1, <2>4
  <2>8. \A x \in B(k) : x \in K /\ e \in Above(g, x)
    BY <2>1, <2>4, <2>5
  <2> HIDE DEF B, from
  <2>9. Good(k)
    BY <2>6, <2>7, <2>8
  <2> QED BY <2>1, <2>9
<1>3. P = 0 .. n
  <2>1. P \in SUBSET (0 .. n)
    OBVIOUS
  <2> HIDE DEF P
  <2> QED BY <1>1, <1>2, <2>1, LevelByLevel
<1>4. n \in P
  BY <1>3
<1>5. Good(n)
  <2> HIDE DEF Good
  <2> QED BY <1>4
<1> HIDE DEF c, from
<1> QED BY <1>0, <1>5 DEF c

\* A chart of the server's managers, from its roots on: edges, levels and drops.
LEMMA ChartOfTheServer ==
    ASSUME NEW g \in Structure, Acyclic(g), NEW K \in SUBSET Employee, Tops(g) \subseteq K
    PROVE  LET c == Part(g, K)
               visible == Visible(c, Tops(g), {}) \cap K
           IN  /\ Edges(c, visible) = {<<g[e], e>> : e \in visible \ Tops(g)}
               /\ \A e \in visible : Depth(c, Tops(g), e) = Level(g, e)
               /\ \A e, m \in visible :
                   m # g[e] => (MayDrop(c, c, visible, e, m) <=> Allowed(g, e, m))
<1> DEFINE c == Part(g, K)
           N == Cardinality(K)
           A == Attached(g, K)
           visible == Visible(c, Tops(g), {}) \cap K
<1>1. IsFiniteSet(K) /\ N \in Nat
  BY EmployeeAssumption, FS_Subset, FS_CardinalityType
<1>2. DOMAIN c = K /\ \A x \in K : c[x] = g[x]
  BY DEF Part
<1>3. ASSUME NEW x \in A PROVE x \in K /\ Level(g, x) \in 0 .. N
  <2>1. x \in K /\ x \in Employee /\ Above(g, x) \in SUBSET K
    BY DEF Attached
  <2>2. Level(g, x) \in Nat /\ Cardinality(Above(g, x)) <= Cardinality(K)
    BY <1>1, <2>1, LevelsCount, FS_Subset
  <2>3. Level(g, x) <= N
    BY <2>2 DEF Level
  <2> HIDE DEF N
  <2> QED BY <1>1, <2>1, <2>2, <2>3
<1>4. \A n \in Nat : Below(c, Tops(g), n) = {x \in A : Level(g, x) <= n}
  BY WalkFromTheRoots
<1>5. visible = A
  <2>1. [e \in DOMAIN c |-> IF c[e] \in {} THEN NoManager ELSE c[e]] = c
    BY DEF Part
  <2>2. Visible(c, Tops(g), {}) = Below(c, Tops(g), N)
    BY <1>2, <2>1 DEF Visible
  <2>3. Below(c, Tops(g), N) = {x \in A : Level(g, x) <= N}
    BY <1>1, <1>4
  <2> HIDE DEF A, N, c
  <2> QED BY <1>1, <1>3, <2>2, <2>3
<1>6. ASSUME NEW e \in A PROVE g[e] \in A <=> e \notin Tops(g)
  <2>1. e \in Employee /\ e \in K /\ Above(g, e) \subseteq K
    BY DEF Attached
  <2>2. CASE g[e] = NoManager
    BY <2>1, <2>2, EmployeeAssumption DEF Attached, Tops
  <2>3. CASE g[e] # NoManager
    <3>1. g[e] \in Employee /\ Above(g, e) = Above(g, g[e]) \cup {g[e]}
      BY <2>1, <2>3, WaysUp
    <3> QED BY <2>1, <2>3, <3>1 DEF Attached, Tops
  <2> QED BY <2>2, <2>3
<1>7. Edges(c, A) = {<<g[e], e>> : e \in A \ Tops(g)}
  <2>1. \A e \in A : c[e] = g[e]
    BY <1>2, <1>3
  <2>2. {x \in A : c[x] \in A} = A \ Tops(g)
    <3> HIDE DEF A, c
    <3> QED BY <1>6, <2>1
  <2>3. Edges(c, A) = {<<c[e], e>> : e \in A \ Tops(g)}
    BY <2>2 DEF Edges
  <2> HIDE DEF A, c
  <2> QED BY <2>1, <2>3
<1>8. ASSUME NEW e \in A PROVE Depth(c, Tops(g), e) = Level(g, e)
  <2> DEFINE IsDepth(d) == /\ e \in Below(c, Tops(g), d)
                           /\ \A n \in 0 .. (d - 1) : e \notin Below(c, Tops(g), n)
  <2>1. Depth(c, Tops(g), e) = CHOOSE d \in 0 .. N : IsDepth(d)
    BY <1>2 DEF Depth
  <2>2. Level(g, e) \in 0 .. N
    BY <1>3
  <2>3. ASSUME NEW d \in 0 .. N PROVE IsDepth(d) <=> d = Level(g, e)
    <3> DEFINE l == Level(g, e)
    <3> HIDE DEF A, c, l, N
    <3>1. \A n \in Nat : e \in Below(c, Tops(g), n) <=> l <= n
      BY <1>4 DEF l
    <3>2. l \in Nat /\ d \in Nat
      BY <1>1, <2>2 DEF l
    <3>3. \A n \in 0 .. (d - 1) : n \in Nat
      BY <3>2
    <3>4. IsDepth(d) <=> l <= d /\ \A n \in 0 .. (d - 1) : ~(l <= n)
      BY <3>1, <3>2, <3>3
    <3>5. (l <= d /\ \A n \in 0 .. (d - 1) : ~(l <= n)) <=> d = l
      BY <3>2
    <3> QED BY <3>4, <3>5 DEF l
  <2> HIDE DEF IsDepth
  <2> QED BY <2>1, <2>2, <2>3
<1>9. ASSUME NEW e \in A, NEW m \in A, m # g[e]
      PROVE  MayDrop(c, c, A, e, m) <=> Allowed(g, e, m)
  <2>1. e \in K /\ m \in K /\ e \in Employee /\ m \in Employee /\ c[e] # m
    BY <1>2, <1>3, <1>9
  <2>2. Descendants(c, e) = Below(c, Children(c, e), N)
    BY <1>2 DEF Descendants
  <2>3. /\ \A x \in Descendants(c, e) : e \in Above(g, x)
        /\ \A x \in A : e \in Above(g, x) /\ Level(g, x) <= N + 1 => x \in Descendants(c, e)
    BY <1>1, <2>1, <2>2, WalkDownABranch
  <2>4. Level(g, m) <= N + 1
    <3>1. Level(g, m) \in 0 .. N
      BY <1>3
    <3> HIDE DEF N
    <3> QED BY <1>1, <3>1
  <2>5. m \in Descendants(c, e) <=> e \in Above(g, m)
    BY <2>3, <2>4
  <2>6. MayDrop(c, c, A, e, m) <=> e # m /\ m \notin Descendants(c, e)
    BY <2>1 DEF MayDrop, OwnBranch
  <2>7. Allowed(g, e, m) <=> e # m /\ e \notin Above(g, m)
    BY <2>1, AllowedUnlessAbove
  <2> QED BY <2>5, <2>6, <2>7
<1> HIDE DEF A, visible, c
<1> QED BY <1>5, <1>7, <1>8, <1>9 DEF visible, c

\* A walk keeps whom it begins with.
LEMMA FromIsBelow ==
    ASSUME NEW m, NEW from, NEW n \in Nat
    PROVE  from \subseteq Below(m, from, n)
<1> DEFINE P == {k \in 0 .. n : from \subseteq Below(m, from, k)}
<1>1. 0 \in P
  BY BelowLevels
<1>2. ASSUME NEW k \in 1 .. n, k - 1 \in P PROVE k \in P
  BY <1>2, BelowLevels DEF Further
<1>3. P = 0 .. n
  <2>1. P \in SUBSET (0 .. n)
    OBVIOUS
  <2> HIDE DEF P
  <2> QED BY <1>1, <1>2, <2>1, LevelByLevel
<1>4. n \in P
  BY <1>3
<1> QED BY <1>4

\* A chart all of whose answers were given now holds the server's managers.
LEMMA ChartUpToDate ==
    ASSUME ChartTypes, override = {}, \A k \in Shown : query[k].data = now
    PROVE  /\ Current \in Structure /\ Acyclic(Current)
           /\ RootsShown = Tops(Current)
           /\ DOMAIN Records \subseteq Employee /\ Tops(Current) \subseteq DOMAIN Records
           /\ Recorded = Part(Current, DOMAIN Records)
           /\ Charting = Part(Current, DOMAIN Records)
<1>1. now \in 1 .. Len(past) /\ now # 0 /\ Current \in Structure /\ Acyclic(Current)
  BY DEF ChartTypes, History, now, Current
<1>2. RootsShown = Tops(Current)
  <2>1. Roots \in Shown
    BY DEF Shown
  <2>2. query[Roots].data = now
    BY <2>1
  <2> QED BY <1>1, <2>2 DEF RootsShown, RootsAt, Tops, Current
<1>3. /\ Answered \subseteq Shown
      /\ \A e \in Tops(Current) : Tree(e) \in Answered
  BY <1>1, <1>2 DEF Answered, Shown, Tree, Record
<1>4. ASSUME NEW e \in Tops(Current) PROVE e \in DOMAIN Records
  <2>1. Tree(e) \in Shown /\ e \in Employee
    BY <1>2 DEF Shown, Tops
  <2>2. Covers(Tree(e)) = Subtree(now, e, InitialDepth)
    <3>1. Tree(e) # Roots /\ Tree(e)[1] = "tree" /\ Tree(e)[2] = e
      BY DEF Tree, Roots
    <3>2. query[Tree(e)].data = now
      BY <2>1
    <3> QED BY <3>1, <3>2 DEF Covers
  <2>3. e \in Subtree(now, e, InitialDepth)
    BY FromIsBelow, DepthAssumption DEF Subtree
  <2> QED BY <1>3, <2>1, <2>2, <2>3, RecordsTyped
<1>5. DOMAIN Records \subseteq Employee
  BY RecordsTyped
<1>6. ASSUME NEW e \in DOMAIN Records PROVE Records[e] = now
  BY <1>3, RecordsTyped
<1>7. Recorded = Part(Current, DOMAIN Records)
  BY <1>6 DEF Recorded, Part, Current
<1>8. Charting = Part(Current, DOMAIN Records)
  <2>1. DOMAIN Recorded = DOMAIN Records
    BY <1>7 DEF Part
  <2> QED BY <1>7, <2>1 DEF Charting, Part
<1> QED BY <1>1, <1>2, <1>4, <1>5, <1>7, <1>8

\* ChartMatchesServer: with any number of people, answers and levels, a chart
\* that is up to date has the server's edges and levels, and offers the drops the
\* server allows.
THEOREM UpToDateChartMatches ==
    Spec => []ChartMatchesServer
<1>1. Init => ChartTypes
  BY ChartStarts
<1>2. ChartTypes /\ [Next]_vars => ChartTypes'
  BY ChartStays
<1>3. ChartTypes => ChartMatchesServer
  <2> SUFFICES ASSUME ChartTypes, override = {}, \A k \in Shown : query[k].data = now
               PROVE  LET at == Records
                          charting == Charting
                          visible == Visible(charting, RootsShown, {}) \cap DOMAIN at
                      IN  /\ Edges(charting, visible) =
                                 {<<Current[e], e>> : e \in visible \ RootsAt(now)}
                          /\ \A e \in visible : Depth(charting, RootsShown, e)
                                 = Cardinality({m \in Employee \ {e} : Reaches(Current, e, m)})
                          /\ \A e, m \in visible :
                              m # Current[e] => (MayDrop(charting, Recorded, visible, e, m)
                                                 <=> Allowed(Current, e, m))
    BY DEF ChartMatchesServer
  <2> DEFINE g == Current
             K == DOMAIN Records
             c == Part(g, K)
             visible == Visible(c, Tops(g), {}) \cap K
  <2>1. /\ g \in Structure /\ Acyclic(g) /\ K \in SUBSET Employee /\ Tops(g) \subseteq K
        /\ RootsShown = Tops(g) /\ Recorded = c /\ Charting = c
    BY ChartUpToDate
  <2>2. RootsAt(now) = Tops(g)
    BY DEF RootsAt, Tops, Current
  <2> HIDE DEF g, K, c
  <2>3. /\ Edges(c, visible) = {<<g[e], e>> : e \in visible \ Tops(g)}
        /\ \A e \in visible : Depth(c, Tops(g), e) = Level(g, e)
        /\ \A e, m \in visible :
            m # g[e] => (MayDrop(c, c, visible, e, m) <=> Allowed(g, e, m))
    BY <2>1, ChartOfTheServer DEF c
  <2> HIDE DEF visible
  <2>4. \A e \in visible : Level(g, e) = Cardinality({m \in Employee \ {e} : Reaches(g, e, m)})
    BY DEF Level, Above
  <2> QED BY <2>1, <2>2, <2>3, <2>4 DEF g, K, visible
<1> QED BY <1>1, <1>2, <1>3, PTL DEF Spec
=============================================================================
