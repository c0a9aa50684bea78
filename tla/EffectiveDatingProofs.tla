------------------------ MODULE EffectiveDatingProofs ------------------------
(***************************************************************************)
(* Proofs about EffectiveDating, for any set of employees and any number   *)
(* of days.                                                                *)
(*                                                                         *)
(* First facts about reporting structures: why looking at the updated rows *)
(* alone is enough to keep a structure free of loops, why a move that is   *)
(* not under the person moved closes none, and why a chart drawn from the  *)
(* roots leaves nobody out.  Then what set_edge and cancel_scheduled do to *)
(* one employee's rows: they keep the rows adjoining and disjoint, they    *)
(* change the manager on exactly the days they are about, and the second   *)
(* undoes the first.  Then the specification.                              *)
(***************************************************************************)
EXTENDS EffectiveDating, FiniteSetTheorems, WellFoundedInduction, TLAPS

-----------------------------------------------------------------------------
(* Reporting structures. *)

\* A group with everybody's manager inside it: a loop, with whoever hangs
\* below it.
Closed(g, S) == \A x \in S : g[x] \in S

\* Among the closed groups there is one with no smaller closed group in it.
LEMMA MinimalClosedGroup ==
    ASSUME NEW g, NEW S0 \in SUBSET Employee, S0 # {}, Closed(g, S0)
    PROVE  \E S \in SUBSET Employee :
               /\ S # {}
               /\ Closed(g, S)
               /\ \A T \in SUBSET S : T # {} /\ Closed(g, T) => T = S
<1> DEFINE Loops == {S \in SUBSET Employee : S # {} /\ Closed(g, S)}
           R == StrictSubsetOrdering(Employee)
<1>1. IsWellFoundedOn(R, SUBSET Employee)
  BY EmployeeAssumption, FS_StrictSubsetOrderingWellFounded, FS_FiniteSubsetsOfFinite
<1>2. Loops \subseteq SUBSET Employee /\ Loops # {}
  OBVIOUS
<1>3. PICK S \in Loops : \A T \in Loops : <<T, S>> \notin R
  <2> HIDE DEF Loops, R
  <2> QED BY <1>1, <1>2, WFMin
<1>4. ASSUME NEW T \in SUBSET S, T # {}, Closed(g, T) PROVE T = S
  <2>1. T \in Loops
    BY <1>4
  <2>2. <<T, S>> \notin R
    BY <1>3, <2>1
  <2> QED BY <2>2 DEF StrictSubsetOrdering
<1> QED BY <1>3, <1>4

\* The deferred trigger: if the rows whose manager changed are among those
\* checked, and no walk from a checked manager comes back, no loop appears.
THEOREM CheckedUpdatesKeepAcyclic ==
    ASSUME NEW g \in Structure, NEW h \in Structure, Acyclic(g),
           \A x \in Employee :
               h[x] # g[x] /\ h[x] # NoManager => ~Reaches(h, h[x], x)
    PROVE  Acyclic(h)
<1> SUFFICES ASSUME ~Acyclic(h) PROVE FALSE
  OBVIOUS
<1>1. PICK S0 \in SUBSET Employee : S0 # {} /\ Closed(h, S0)
  BY DEF Acyclic, Closed
<1>2. PICK S \in SUBSET Employee :
          /\ S # {}
          /\ Closed(h, S)
          /\ \A T \in SUBSET S : T # {} /\ Closed(h, T) => T = S
  BY <1>1, MinimalClosedGroup
<1>3. PICK x \in S : g[x] \notin S
  BY <1>2 DEF Acyclic
<1>4. h[x] \in S /\ h[x] # g[x] /\ h[x] # NoManager
  BY <1>2, <1>3, EmployeeAssumption DEF Closed
<1>5. PICK T \in SUBSET Employee : h[x] \in T /\ UpClosed(h, T) /\ x \notin T
  BY <1>4 DEF Reaches
<1>6. Closed(h, S \cap T)
  BY <1>2, <1>5, EmployeeAssumption DEF Closed, UpClosed
<1>7. S \cap T = S
  BY <1>2, <1>4, <1>5, <1>6
<1> QED BY <1>5, <1>7

\* _assert_acyclic on one day: putting e under somebody outside e's subtree
\* closes no loop.
THEOREM MoveKeepsAcyclic ==
    ASSUME NEW g \in Structure, Acyclic(g),
           NEW e \in Employee, NEW m \in ManagerOrNone,
           m # NoManager => ~IsDescendant(g, m, e)
    PROVE  Acyclic([g EXCEPT ![e] = m])
<1> DEFINE h == [g EXCEPT ![e] = m]
<1> SUFFICES ASSUME NEW S \in SUBSET Employee, S # {}, Closed(h, S) PROVE FALSE
  BY DEF Acyclic, Closed
<1>1. \A x \in S : x # e => g[x] \in S
  BY DEF Closed, Structure
<1>2. e \in S
  BY <1>1 DEF Acyclic
<1>3. m \in S
  BY <1>2 DEF Closed, Structure
<1>4. PICK D \in SUBSET Employee : e \in D /\ DownClosed(g, D) /\ m \notin D
  BY <1>3, EmployeeAssumption DEF IsDescendant
<1>5. \A x \in S \ D : g[x] \in S \ D
  BY <1>1, <1>4 DEF DownClosed
<1>6. S \ D # {}
  BY <1>3, <1>4
<1> QED BY <1>5, <1>6 DEF Acyclic

\* The tree query: without a loop, everybody alive is on the chart.
THEOREM ChartShowsEverybody ==
    ASSUME NEW g \in Structure, Acyclic(g), NEW alive \in SUBSET Employee
    PROVE  Charted(g, alive) = alive
<1> SUFFICES ASSUME NEW x \in alive,
                    NEW S \in SUBSET alive,
                    \A y \in alive : IsRoot(g, alive, y) => y \in S,
                    \A y \in alive : g[y] \in S => y \in S,
                    x \notin S
             PROVE  FALSE
  BY DEF Charted
<1>1. \A y \in alive \ S : g[y] \in alive \ S
  BY DEF IsRoot
<1> QED BY <1>1 DEF Acyclic

\* Of some numbers up to d there is a largest.
LEMMA LargestOf ==
    ASSUME NEW d \in Nat, NEW B \in SUBSET (0 .. d), B # {}
    PROVE  \E b \in B : \A c \in B : c <= b
<1> DEFINE R == StrictSubsetOrdering(0 .. d)
           Tails == {b .. d : b \in B}
<1>1. IsWellFoundedOn(R, SUBSET (0 .. d))
  <2>1. IsFiniteSet(0 .. d) /\ 0 \in Int /\ d \in Int
    BY FS_Interval
  <2>2. FiniteSubsetsOf(0 .. d) = SUBSET (0 .. d)
    BY <2>1, FS_FiniteSubsetsOfFinite
  <2>3. IsWellFoundedOn(R, FiniteSubsetsOf(0 .. d))
    BY FS_StrictSubsetOrderingWellFounded
  <2> HIDE DEF R
  <2> QED BY <2>2, <2>3
<1>2. Tails \subseteq SUBSET (0 .. d) /\ Tails # {}
  <2>1. \A b \in B : b .. d \subseteq 0 .. d
    OBVIOUS
  <2> QED BY <2>1
<1>3. PICK T \in Tails : \A U \in Tails : <<U, T>> \notin R
  <2> HIDE DEF Tails, R
  <2> QED BY <1>1, <1>2, WFMin
<1>4. PICK b \in B : T = b .. d
  BY <1>3
<1>5. ASSUME NEW c \in B, c > b PROVE FALSE
  <2>1. c .. d \in Tails
    OBVIOUS
  <2>2. c .. d \subseteq T /\ b \in T /\ b \notin c .. d /\ T \subseteq 0 .. d
    BY <1>4, <1>5
  <2>3. <<c .. d, T>> \in R
    <3>1. c .. d \in SUBSET (0 .. d) /\ T \in SUBSET (0 .. d) /\ c .. d # T
      BY <2>2
    <3> QED BY <2>2, <3>1 DEF StrictSubsetOrdering
  <2> QED BY <1>3, <2>1, <2>3
<1> QED BY <1>5

-----------------------------------------------------------------------------
(* Timelines. *)

USE HorizonAssumption DEF Day

\* At most one row is in force on a day, and it gives the manager.
LEMMA ManagerOfRun ==
    ASSUME NEW runs \in SUBSET Run, NoOverlap(runs), NEW r \in runs, NEW d \in Day, InForce(r, d)
    PROVE  HasRunAt(runs, d) /\ ManagerAt(runs, d) = r.mgr
<1>1. HasRunAt(runs, d)
  BY DEF HasRunAt
<1>2. RunAt(runs, d) \in runs /\ InForce(RunAt(runs, d), d)
  BY <1>1 DEF HasRunAt, RunAt
<1>3. RunAt(runs, d) = r
  BY <1>2 DEF InForce, NoOverlap, Run
<1> QED BY <1>1, <1>3 DEF ManagerAt

\* A day's manager is an employee or nobody.
LEMMA ManagerAtType ==
    ASSUME NEW runs \in SUBSET Run, NEW d
    PROVE  ManagerAt(runs, d) \in ManagerOrNone
  BY DEF ManagerAt, HasRunAt, RunAt, Run, ManagerOrNone

\* The rows set_edge leaves are rows.
LEMMA SetEdgeType ==
    ASSUME NEW runs \in SUBSET Run, NEW m \in ManagerOrNone, NEW f \in Day
    PROVE  SetEdge(runs, m, f) \in SUBSET Run
<1>1. [mgr |-> m, from |-> f, to |-> Horizon] \in Run
  BY DEF Run
<1>2. ASSUME NEW q \in runs, q.from < f PROVE [q EXCEPT !.to = f] \in Run
  BY <1>2 DEF Run
<1> QED BY <1>1, <1>2 DEF SetEdge

\* The rows cancel_scheduled leaves are rows.
LEMMA CancelRunType ==
    ASSUME NEW runs \in SUBSET Run, NEW r \in runs
    PROVE  CancelRun(runs, r) \in SUBSET Run
<1>1. ASSUME NEW p \in runs PROVE [p EXCEPT !.to = r.to] \in Run
  BY DEF Run
<1> QED BY <1>1 DEF CancelRun, Preceding

\* The rows of SetEdge, one kind at a time: kept, truncated, new.
LEMMA SetEdgeRows ==
    ASSUME NEW runs \in SUBSET Run, NEW m \in ManagerOrNone, NEW f \in Day,
           NEW r \in SetEdge(runs, m, f)
    PROVE  \/ r \in runs /\ r.to <= f
           \/ \E q \in runs : /\ q.from < f /\ f < q.to
                              /\ r.mgr = q.mgr /\ r.from = q.from /\ r.to = f
           \/ r.mgr = m /\ r.from = f /\ r.to = Horizon
  BY DEF SetEdge, Run

\* set_edge leaves the rows adjoining, disjoint and open-ended.
THEOREM SetEdgeContiguous ==
    ASSUME NEW runs \in SUBSET Run, Contiguous(runs),
           NEW m \in ManagerOrNone, NEW f \in Day
    PROVE  Contiguous(SetEdge(runs, m, f))
<1> DEFINE after == SetEdge(runs, m, f)
           opened == [mgr |-> m, from |-> f, to |-> Horizon]
<1> USE DEF Contiguous
<1>1. opened \in after
  BY DEF SetEdge
<1>2. RangesOK(after)
  BY SetEdgeRows DEF RangesOK, Run
<1>3. NoOverlap(after)
  <2> SUFFICES ASSUME NEW r \in after, NEW s \in after, ~(r.to <= s.from), ~(s.to <= r.from)
               PROVE  r = s
    BY DEF NoOverlap
  <2>1. CASE r = opened \/ s = opened
    BY <2>1, SetEdgeRows DEF RangesOK, Run, SetEdge
  <2>2. CASE r # opened /\ s # opened
    <3>1. PICK p \in runs : /\ p.from = r.from /\ r.to <= p.to
                            /\ r = p \/ (f < p.to /\ r = [p EXCEPT !.to = f])
      BY <2>2 DEF SetEdge, Run
    <3>2. PICK q \in runs : /\ q.from = s.from /\ s.to <= q.to
                            /\ s = q \/ (f < q.to /\ s = [q EXCEPT !.to = f])
      BY <2>2 DEF SetEdge, Run
    <3>3. r \in Run /\ s \in Run
      BY SetEdgeType
    <3>4. p = q
      BY <3>1, <3>2, <3>3 DEF NoOverlap, Run
    <3>5. r.to <= f /\ s.to <= f
      BY <2>2 DEF SetEdge, Run
    <3> QED BY <3>1, <3>2, <3>4, <3>5 DEF Run
  <2> QED BY <2>1, <2>2
<1>4. NoGap(after)
  <2> SUFFICES ASSUME NEW r \in after, r.to # Horizon
               PROVE  \E s \in after : s.from = r.to
    BY DEF NoGap
  <2>1. CASE r.to = f
    BY <2>1, <1>1
  <2>2. CASE r \in runs /\ r.to < f
    <3>1. PICK s \in runs : s.from = r.to
      BY <2>2 DEF NoGap
    <3>2. CASE s.to <= f
      BY <3>1, <3>2 DEF SetEdge
    <3>3. CASE f < s.to
      <4>1. [s EXCEPT !.to = f] \in after
        BY <2>2, <3>1, <3>3 DEF SetEdge
      <4> QED BY <3>1, <4>1 DEF Run
    <3> QED BY <3>1, <3>2, <3>3 DEF Run
  <2> QED BY <2>1, <2>2, SetEdgeRows DEF Run
<1> QED BY <1>2, <1>3, <1>4

\* The rows of CancelRun: untouched, or the preceding one extended.
LEMMA CancelRunRows ==
    ASSUME NEW runs \in SUBSET Run, NEW r \in runs, NEW s \in CancelRun(runs, r)
    PROVE  \/ s \in runs /\ s # r /\ s.to # r.from
           \/ \E p \in runs : /\ p.to = r.from
                              /\ s = [p EXCEPT !.to = r.to]
                              /\ s.mgr = p.mgr /\ s.from = p.from /\ s.to = r.to
  BY DEF CancelRun, Preceding, Run

\* cancel_scheduled leaves the rows adjoining, disjoint and open-ended.
THEOREM CancelRunContiguous ==
    ASSUME NEW runs \in SUBSET Run, Contiguous(runs), NEW r \in runs
    PROVE  Contiguous(CancelRun(runs, r))
<1> DEFINE after == CancelRun(runs, r)
<1> USE DEF Contiguous
<1>1. RangesOK(after)
  BY CancelRunRows DEF RangesOK, Run
<1>2. NoOverlap(after)
  <2> SUFFICES ASSUME NEW s \in after, NEW t \in after, ~(s.to <= t.from), ~(t.to <= s.from)
               PROVE  s = t
    BY DEF NoOverlap
  <2>1. CASE s \in runs /\ t \in runs
    BY <2>1 DEF NoOverlap
  <2>2. ASSUME NEW p \in runs, p.to = r.from, NEW u \in after, u \in runs, u # r, u.to # r.from,
               u.from < r.to, p.from < u.to
        PROVE  FALSE
    BY <2>2 DEF NoOverlap, RangesOK, Run
  <2>3. ASSUME NEW p \in runs, p.to = r.from, NEW q \in runs, q.to = r.from
        PROVE  p = q
    BY <2>3 DEF NoOverlap, RangesOK, Run
  <2>4. CASE s \in runs /\ s # r /\ s.to # r.from
    <3>1. CASE t \in runs
      BY <2>1, <2>4, <3>1
    <3>2. ASSUME NEW p \in runs, p.to = r.from, t.from = p.from, t.to = r.to PROVE FALSE
      BY <2>2, <2>4, <3>2 DEF Run
    <3>3. \/ t \in runs
          \/ \E p \in runs : p.to = r.from /\ t.from = p.from /\ t.to = r.to
      BY CancelRunRows
    <3> QED BY <3>1, <3>2, <3>3
  <2>5. CASE t \in runs /\ t # r /\ t.to # r.from
    <3>1. CASE s \in runs
      BY <2>1, <2>5, <3>1
    <3>2. ASSUME NEW p \in runs, p.to = r.from, s.from = p.from, s.to = r.to PROVE FALSE
      BY <2>2, <2>5, <3>2 DEF Run
    <3>3. \/ s \in runs
          \/ \E p \in runs : p.to = r.from /\ s.from = p.from /\ s.to = r.to
      BY CancelRunRows
    <3> QED BY <3>1, <3>2, <3>3
  <2>6. CASE ~(s \in runs /\ s # r /\ s.to # r.from) /\ ~(t \in runs /\ t # r /\ t.to # r.from)
    <3>1. PICK p \in runs : p.to = r.from /\ s = [p EXCEPT !.to = r.to]
      BY <2>6, CancelRunRows
    <3>2. PICK q \in runs : q.to = r.from /\ t = [q EXCEPT !.to = r.to]
      BY <2>6, CancelRunRows
    <3>3. p = q
      BY <2>3, <3>1, <3>2
    <3> QED BY <3>1, <3>2, <3>3
  <2> QED BY <2>4, <2>5, <2>6
<1>3. NoGap(after)
  <2> SUFFICES ASSUME NEW s \in after, s.to # Horizon
               PROVE  \E t \in after : t.from = s.to
    BY DEF NoGap
  <2>1. \E t \in runs : t.from = s.to /\ t # r
    <3>1. CASE s \in runs /\ s.to # r.from
      BY <3>1 DEF NoGap
    <3>2. CASE s.to = r.to
      <4>1. PICK t \in runs : t.from = r.to
        BY <3>2 DEF NoGap
      <4>2. r.from < r.to /\ r.from \in Int
        BY DEF RangesOK, Run
      <4> QED BY <3>2, <4>1, <4>2
    <3> QED BY <3>1, <3>2, CancelRunRows
  <2> PICK t \in runs : t.from = s.to /\ t # r
    BY <2>1
  <2>2. CASE t.to = r.from
    <3>1. [t EXCEPT !.to = r.to] \in after
      BY <2>2 DEF CancelRun, Preceding
    <3> QED BY <2>1, <3>1 DEF Run
  <2>3. CASE t.to # r.from
    BY <2>1, <2>3 DEF CancelRun, Preceding
  <2> QED BY <2>2, <2>3
<1> QED BY <1>1, <1>2, <1>3

\* set_edge gives the new manager from its day on and leaves the days before.
THEOREM ManagerAfterSetEdge ==
    ASSUME NEW runs \in SUBSET Run, Contiguous(runs),
           NEW m \in ManagerOrNone, NEW f \in Day, NEW d \in Day
    PROVE  ManagerAt(SetEdge(runs, m, f), d) = IF d >= f THEN m ELSE ManagerAt(runs, d)
<1> DEFINE after == SetEdge(runs, m, f)
           opened == [mgr |-> m, from |-> f, to |-> Horizon]
<1>1. after \in SUBSET Run /\ NoOverlap(after)
  BY SetEdgeType, SetEdgeContiguous DEF Contiguous
<1>2. CASE d >= f
  <2>1. opened \in after /\ InForce(opened, d)
    BY <1>2 DEF SetEdge, InForce
  <2> QED BY <1>1, <1>2, <2>1, ManagerOfRun
<1>3. CASE d < f /\ HasRunAt(runs, d)
  <2>1. PICK r \in runs : InForce(r, d)
    BY <1>3 DEF HasRunAt
  <2>2. ManagerAt(runs, d) = r.mgr
    BY <2>1, ManagerOfRun DEF Contiguous
  <2>3. \E s \in after : s.mgr = r.mgr /\ InForce(s, d)
    <3>1. CASE r.to <= f
      BY <2>1, <3>1 DEF SetEdge
    <3>2. CASE f < r.to
      <4>1. [r EXCEPT !.to = f] \in after
        BY <1>3, <2>1, <3>2 DEF SetEdge, InForce, Run
      <4>2. [r EXCEPT !.to = f].mgr = r.mgr /\ InForce([r EXCEPT !.to = f], d)
        BY <1>3, <2>1 DEF InForce, Run
      <4> QED BY <4>1, <4>2
    <3> QED BY <3>1, <3>2 DEF Run
  <2> QED BY <1>1, <1>3, <2>2, <2>3, ManagerOfRun
<1>4. CASE d < f /\ ~HasRunAt(runs, d)
  <2>1. ~HasRunAt(after, d)
    BY <1>4, SetEdgeRows DEF HasRunAt, InForce, Run
  <2> QED BY <1>4, <2>1 DEF ManagerAt
<1> QED BY <1>2, <1>3, <1>4

\* cancel_scheduled gives the days of the run it drops the manager of the day
\* before, and leaves the other days.
THEOREM ManagerAfterCancelRun ==
    ASSUME NEW runs \in SUBSET Run, Contiguous(runs),
           NEW r \in runs, r.from > 0, NEW d \in Day
    PROVE  ManagerAt(CancelRun(runs, r), d) =
               IF r.from <= d /\ d < r.to THEN ManagerAt(runs, r.from - 1) ELSE ManagerAt(runs, d)
<1> DEFINE after == CancelRun(runs, r)
           eve == r.from - 1
<1>1. after \in SUBSET Run /\ NoOverlap(after)
  BY CancelRunType, CancelRunContiguous DEF Contiguous
<1>2. eve \in Day /\ r.from \in Day /\ r.to \in 1 .. Horizon /\ r.from < r.to
  BY DEF Run, Contiguous, RangesOK
<1>3. ASSUME NEW p \in runs, p.to = r.from
      PROVE  /\ [p EXCEPT !.to = r.to] \in after
             /\ InForce(p, eve)
             /\ [p EXCEPT !.to = r.to].mgr = p.mgr
             /\ \A x \in Day : InForce([p EXCEPT !.to = r.to], x) <=> InForce(p, x) \/ InForce(r, x)
  <2>1. p.from < p.to /\ p.from \in Day /\ p.to \in 1 .. Horizon
    BY DEF Run, Contiguous, RangesOK
  <2> QED BY <1>2, <1>3, <2>1 DEF CancelRun, Preceding, InForce, Run
<1>4. ASSUME NEW p \in runs, InForce(p, eve) PROVE p.to = r.from
  <2>1. p.from < p.to /\ p.from \in Day /\ p.to \in 1 .. Horizon /\ p # r
    BY <1>2, <1>4 DEF Run, Contiguous, RangesOK, InForce
  <2> QED BY <1>2, <1>4, <2>1 DEF Contiguous, NoOverlap, InForce
<1>5. CASE InForce(r, d) /\ HasRunAt(runs, eve)
  <2>1. PICK p \in runs : InForce(p, eve)
    BY <1>5 DEF HasRunAt
  <2>2. ManagerAt(runs, eve) = p.mgr
    BY <1>2, <2>1, ManagerOfRun DEF Contiguous
  <2>3. \E s \in after : s.mgr = p.mgr /\ InForce(s, d)
    BY <1>3, <1>4, <1>5, <2>1
  <2>4. ManagerAt(after, d) = p.mgr
    BY <1>1, <2>3, ManagerOfRun
  <2> QED BY <1>5, <2>2, <2>4 DEF InForce
<1>6. CASE InForce(r, d) /\ ~HasRunAt(runs, eve)
  <2>1. \A p \in runs : p.to # r.from
    BY <1>3, <1>6 DEF HasRunAt
  <2>2. \A s \in runs : InForce(s, d) => s = r
    BY <1>6 DEF InForce, Contiguous, NoOverlap, Run
  <2>3. ~HasRunAt(after, d)
    BY <2>1, <2>2 DEF HasRunAt, CancelRun, Preceding
  <2> QED BY <1>6, <2>3 DEF ManagerAt, InForce
<1>7. CASE ~InForce(r, d) /\ HasRunAt(runs, d)
  <2>1. PICK s \in runs : InForce(s, d)
    BY <1>7 DEF HasRunAt
  <2>2. ManagerAt(runs, d) = s.mgr
    BY <2>1, ManagerOfRun DEF Contiguous
  <2>3. CASE s.to = r.from
    <3>1. \E t \in after : t.mgr = s.mgr /\ InForce(t, d)
      BY <1>3, <2>1, <2>3
    <3> QED BY <1>1, <1>7, <2>2, <3>1, ManagerOfRun DEF InForce
  <2>4. CASE s.to # r.from
    <3>1. s \in after
      BY <1>7, <2>1, <2>4 DEF CancelRun, Preceding
    <3> QED BY <1>1, <1>7, <2>1, <2>2, <3>1, ManagerOfRun DEF InForce
  <2> QED BY <2>3, <2>4
<1>8. CASE ~InForce(r, d) /\ ~HasRunAt(runs, d)
  <2>1. ~HasRunAt(after, d)
    <3> SUFFICES ASSUME NEW s \in after, InForce(s, d) PROVE FALSE
      BY DEF HasRunAt
    <3>1. CASE s \in runs
      BY <1>8, <3>1 DEF HasRunAt
    <3>2. ASSUME NEW p \in runs, p.to = r.from, s = [p EXCEPT !.to = r.to] PROVE FALSE
      BY <1>3, <1>8, <3>2 DEF HasRunAt
    <3> QED BY <3>1, <3>2, CancelRunRows
  <2> QED BY <1>8, <2>1 DEF ManagerAt, InForce
<1> QED BY <1>5, <1>6, <1>7, <1>8

\* Cancelling a change scheduled behind all others gives the rows back.
THEOREM CancelUndoesSetEdge ==
    ASSUME NEW runs \in SUBSET Run, Contiguous(runs),
           NEW m \in ManagerOrNone, NEW f \in Day,
           \A r \in runs : r.from < f
    PROVE  CancelRun(SetEdge(runs, m, f), [mgr |-> m, from |-> f, to |-> Horizon]) = runs
<1> DEFINE opened == [mgr |-> m, from |-> f, to |-> Horizon]
           after == SetEdge(runs, m, f)
<1>1. \A r \in runs : r.to = Horizon \/ r.to < f
  BY DEF Contiguous, NoGap, Run
<1>2. \A r \in runs : r.to < f => r \in after
  BY DEF SetEdge, Run
<1>3. \A r \in runs : r.to = Horizon => [r EXCEPT !.to = f] \in after
  BY DEF SetEdge, Run
<1>4. \A s \in after : \/ s \in runs /\ s.to < f
                       \/ \E r \in runs : r.to = Horizon /\ s = [r EXCEPT !.to = f]
                       \/ s = opened
  BY <1>1 DEF SetEdge, Run
<1>5. \A r \in runs : r.to = Horizon =>
          /\ [r EXCEPT !.to = f].to = f
          /\ [[r EXCEPT !.to = f] EXCEPT !.to = Horizon] = r
  BY DEF Run
<1>6. \A x : x \in Preceding(after, opened) <=>
                 \E r \in runs : r.to = Horizon /\ x = [r EXCEPT !.to = f]
  <2>1. opened.to = Horizon /\ opened.from = f /\ Horizon # f
    OBVIOUS
  <2>2. \A x : x \in Preceding(after, opened) <=> x \in after /\ x.to = f
    BY <2>1 DEF Preceding
  <2>3. \A x \in runs : x.to < f => x.to # f
    BY DEF Run
  <2> HIDE DEF after, opened
  <2> QED BY <1>3, <1>4, <1>5, <2>1, <2>2, <2>3
<1>7. \A x : x \in after \ ({opened} \cup Preceding(after, opened)) <=> x \in runs /\ x.to < f
  <2>1. \A r \in runs : r.to < f => r # opened /\ r \notin Preceding(after, opened)
    BY DEF Preceding, Run
  <2> HIDE DEF after, opened
  <2> QED BY <1>2, <1>4, <1>6, <2>1
<1>8. \A x : x \in {[p EXCEPT !.to = Horizon] : p \in Preceding(after, opened)}
                 <=> x \in runs /\ x.to = Horizon
  <2> DEFINE P == Preceding(after, opened)
  <2>1. ASSUME NEW p \in P PROVE [p EXCEPT !.to = Horizon] \in {r \in runs : r.to = Horizon}
    <3> PICK r \in runs : r.to = Horizon /\ p = [r EXCEPT !.to = f]
      BY <1>6
    <3> QED BY <1>5
  <2>2. ASSUME NEW x \in runs, x.to = Horizon PROVE \E p \in P : x = [p EXCEPT !.to = Horizon]
    <3>1. [x EXCEPT !.to = f] \in P
      BY <1>6, <2>2
    <3> QED BY <1>5, <2>2, <3>1
  <2> HIDE DEF P
  <2>3. ASSUME NEW x PROVE x \in {[p EXCEPT !.to = Horizon] : p \in P}
                               <=> x \in runs /\ x.to = Horizon
    <3>1. x \in {[p EXCEPT !.to = Horizon] : p \in P} <=> \E p \in P : x = [p EXCEPT !.to = Horizon]
      OBVIOUS
    <3> QED BY <2>1, <2>2, <3>1, Zenon
  <2> QED BY <2>3 DEF P
<1>9. CancelRun(after, opened) =
          (after \ ({opened} \cup Preceding(after, opened)))
              \cup {[p EXCEPT !.to = Horizon] : p \in Preceding(after, opened)}
  BY DEF CancelRun
<1>10. \A x : x \in CancelRun(after, opened) <=> x \in runs
  <2> HIDE DEF after, opened
  <2> QED BY <1>1, <1>7, <1>8, <1>9
<1> QED BY <1>10

-----------------------------------------------------------------------------
(* Days before a change keep their rows. *)

\* A day before the change that has a row in force had one before.
LEMMA SetEdgeKeepsEarlier ==
    ASSUME NEW runs \in SUBSET Run, NEW m \in ManagerOrNone, NEW f \in Day, NEW d \in Day,
           d < f, HasRunAt(SetEdge(runs, m, f), d)
    PROVE  HasRunAt(runs, d)
<1>1. PICK r \in SetEdge(runs, m, f) : InForce(r, d)
  BY DEF HasRunAt
<1>2. CASE r \in runs
  BY <1>1, <1>2 DEF HasRunAt
<1>3. ASSUME NEW q \in runs, q.from < f, f < q.to, r.from = q.from PROVE HasRunAt(runs, d)
  BY <1>1, <1>3 DEF HasRunAt, InForce, Run
<1>4. r.from # f
  BY <1>1 DEF InForce
<1> QED BY <1>2, <1>3, <1>4, SetEdgeRows

\* So had a day before the cancelled run.
LEMMA CancelRunKeepsEarlier ==
    ASSUME NEW runs \in SUBSET Run, NEW r \in runs, NEW d \in Day,
           d < r.from, HasRunAt(CancelRun(runs, r), d)
    PROVE  HasRunAt(runs, d)
<1>1. PICK s \in CancelRun(runs, r) : InForce(s, d)
  BY DEF HasRunAt
<1>2. CASE s \in runs
  BY <1>1, <1>2 DEF HasRunAt
<1>3. ASSUME NEW p \in runs, p.to = r.from, s.from = p.from PROVE HasRunAt(runs, d)
  BY <1>1, <1>3 DEF HasRunAt, InForce, Run
<1> QED BY <1>2, <1>3, CancelRunRows

-----------------------------------------------------------------------------
(* Types. *)

USE EmployeeAssumption

\* Syncing a cache leaves a cache.
LEMMA SyncedType ==
    ASSUME NEW tl \in [Employee -> SUBSET Run], NEW cache \in Structure
    PROVE  Synced(tl, cache) \in Structure
<1>1. ASSUME NEW e \in Employee
      PROVE  (IF Present(e) /\ HasRunAt(tl[e], today) THEN ManagerAt(tl[e], today) ELSE cache[e])
                 \in ManagerOrNone
  BY ManagerAtType DEF Structure
<1> QED BY <1>1 DEF Synced, Structure

\* A deletion that moves reports writes rows and a cache of the right kind.
LEMMA DeleteMovingReportsType ==
    ASSUME TypeOK, NEW x \in Employee, NEW m \in ManagerOrNone, DeleteMovingReports(x, m)
    PROVE  TypeOK'
<1>1. timeline' \in [Employee -> SUBSET Run]
  BY SetEdgeType DEF TypeOK, DeleteMovingReports
<1>2. [e \in Employee |-> IF e \in DirectReports(x) THEN m ELSE manager[e]] \in Structure
  BY DEF TypeOK, Structure
<1>3. manager' \in Structure
  BY <1>1, <1>2, SyncedType DEF DeleteMovingReports
<1>4. deletedAt' \in [Employee -> 0 .. Horizon]
  BY DEF TypeOK, DeleteMovingReports, SoftDeleted
<1> QED BY <1>1, <1>3, <1>4 DEF TypeOK, DeleteMovingReports

\* What a file asks for somebody it names is a manager or none.
LEMMA AskedType ==
    ASSUME NEW rows \in ImportFile
    PROVE  /\ Named(rows) \in SUBSET Employee
           /\ \A e \in Named(rows) : Asked(rows, e) \in ManagerOrNone
           /\ \A i \in DOMAIN rows : /\ rows[i].who \in Named(rows)
                                   /\ Asked(rows, rows[i].who) = rows[i].to
<1>1. PICK n \in 1 .. MaxRows : rows \in [1 .. n -> ImportRow]
  BY DEF ImportFile
<1>2. \A i \in DOMAIN rows : rows[i] \in ImportRow /\ rows[i].who \in Employee
                               /\ rows[i].to \in ManagerOrNone
  BY <1>1 DEF ImportRow
<1>3. \A i, j \in DOMAIN rows : rows[i].who = rows[j].who => i = j
  BY DEF ImportFile
<1>4. ASSUME NEW i \in DOMAIN rows PROVE Asked(rows, rows[i].who) = rows[i].to
  <2>1. (CHOOSE k \in DOMAIN rows : rows[k].who = rows[i].who) = i
    BY <1>3
  <2> QED BY <2>1 DEF Asked
<1> QED BY <1>2, <1>4 DEF Named

\* A file writes rows and a cache of the right kind.
LEMMA ImportType ==
    ASSUME TypeOK, NEW rows \in ImportFile, Import(rows)
    PROVE  TypeOK'
<1> DEFINE landed == Synced(timeline, manager)
           moved == MovedBy(rows)
           new == Named(rows) \ exists
<1>1. /\ timeline' = [e \in Employee |->
                         IF e \in moved \cup new THEN SetEdge(timeline[e], Asked(rows, e), today)
                         ELSE timeline[e]]
      /\ manager' = [e \in Employee |-> IF e \in moved THEN Asked(rows, e) ELSE landed[e]]
      /\ exists' = exists \cup new /\ UNCHANGED <<deletedAt, today>>
  BY DEF Import
<1>2. moved \cup new \in SUBSET Named(rows)
  BY DEF MovedBy
<1>3. landed \in Structure
  BY SyncedType DEF TypeOK
<1> HIDE DEF landed, moved, new
<1>4. manager' \in Structure
  BY <1>1, <1>2, <1>3, AskedType DEF Structure
<1>5. timeline' \in [Employee -> SUBSET Run]
  <2>1. ASSUME NEW e \in Employee, e \in moved \cup new
        PROVE  SetEdge(timeline[e], Asked(rows, e), today) \in SUBSET Run
    BY <1>2, <2>1, AskedType, SetEdgeType DEF TypeOK
  <2> QED BY <1>1, <2>1 DEF TypeOK
<1>6. exists' \in SUBSET Employee
  BY <1>1, <1>2, AskedType DEF TypeOK
<1> QED BY <1>1, <1>4, <1>5, <1>6 DEF TypeOK

\* Every operation keeps the types.
LEMMA TypeInductive == TypeOK /\ [Next]_vars => TypeOK'
<1> SUFFICES ASSUME TypeOK, [Next]_vars PROVE TypeOK'
  OBVIOUS
<1> USE DEF TypeOK
<1>1. Synced(timeline, manager) \in Structure
  BY SyncedType
<1>2. CASE NextDay
  BY <1>2 DEF NextDay
<1>3. CASE Sync
  BY <1>1, <1>3 DEF Sync
<1>4. ASSUME NEW e \in Employee, NEW m \in ManagerOrNone, Create(e, m) PROVE TypeOK'
  <2>1. timeline' \in [Employee -> SUBSET Run]
    BY <1>4, SetEdgeType DEF Create
  <2>2. manager' \in Structure
    BY <1>1, <1>4 DEF Create, Structure
  <2> QED BY <1>4, <2>1, <2>2 DEF Create
<1>5. ASSUME NEW e \in Employee, NEW m \in ManagerOrNone, NEW f \in Day, Reassign(e, m, f)
      PROVE  TypeOK'
  <2>1. timeline' \in [Employee -> SUBSET Run]
    BY <1>5, SetEdgeType DEF Reassign
  <2>2. manager' \in Structure
    BY <1>1, <1>5, <2>1, SyncedType DEF Reassign
  <2> QED BY <1>5, <2>1, <2>2 DEF Reassign
<1>6. ASSUME NEW e \in Employee, NEW r \in timeline[e], CancelScheduled(e, r) PROVE TypeOK'
  <2>1. timeline' \in [Employee -> SUBSET Run]
    BY <1>6, CancelRunType DEF CancelScheduled
  <2> QED BY <1>1, <1>6, <2>1 DEF CancelScheduled
<1>7. ASSUME NEW x \in Employee, DeleteReparent(x) \/ DeletePromoteToRoot(x) PROVE TypeOK'
  <2>1. manager[x] \in ManagerOrNone /\ NoManager \in ManagerOrNone
    BY DEF Structure, ManagerOrNone
  <2> QED BY <1>7, <2>1, DeleteMovingReportsType DEF DeleteReparent, DeletePromoteToRoot
<1>8. ASSUME NEW x \in Employee, DeleteCascade(x) PROVE TypeOK'
  BY <1>1, <1>8 DEF DeleteCascade, SoftDeleted
<1>9. ASSUME NEW x \in Employee, Restore(x) PROVE TypeOK'
  BY <1>1, <1>9 DEF Restore
<1>10. ASSUME NEW rows \in ImportFile, Import(rows) PROVE TypeOK'
  BY <1>10, ImportType
<1>11. CASE UNCHANGED vars
  BY <1>11 DEF vars
<1> QED BY <1>2, <1>3, <1>4, <1>5, <1>6, <1>7, <1>8, <1>9, <1>10, <1>11 DEF Next

\* The migrated tables have the types.
LEMMA TypeInitial == Init => TypeOK
<1> SUFFICES ASSUME Init PROVE TypeOK
  OBVIOUS
<1>1. \A e \in Employee : manager[e] \in ManagerOrNone
  BY DEF Init, Structure
<1>2. \A m \in ManagerOrNone : [mgr |-> m, from |-> 0, to |-> Horizon] \in Run
  BY DEF Run
<1> QED BY <1>1, <1>2 DEF Init, TypeOK

\* Every row, cached manager and deletion day the operations write is one the
\* schema can hold.
THEOREM TypeCorrect == Spec => []TypeOK
  BY TypeInitial, TypeInductive, PTL DEF Spec

-----------------------------------------------------------------------------
(* What a step does to the rows of one employee: nothing, one set_edge, or *)
(* one cancellation.                                                       *)

RowsMoved(e, m, f) == timeline'[e] = SetEdge(timeline[e], m, f)

RowCancelled(e, r) ==
    r \in timeline[e] /\ r.from > today /\ timeline'[e] = CancelRun(timeline[e], r)

\* A file gives one new row, from today, to those it hires or moves.
LEMMA RowsOfImport ==
    ASSUME TypeOK, NEW rows \in ImportFile, Import(rows), NEW e \in Employee
    PROVE  IF e \in MovedBy(rows) \cup (Named(rows) \ exists)
           THEN Asked(rows, e) \in ManagerOrNone /\ RowsMoved(e, Asked(rows, e), today)
           ELSE timeline'[e] = timeline[e]
<1>1. MovedBy(rows) \cup (Named(rows) \ exists) \subseteq Named(rows)
  BY DEF MovedBy
<1> QED BY <1>1, AskedType DEF Import, RowsMoved

\* These are the only things a step can do to one employee's rows.
LEMMA RowsOfStep ==
    ASSUME TypeOK, [Next]_vars, NEW e \in Employee
    PROVE  \/ timeline'[e] = timeline[e]
           \/ \E m \in ManagerOrNone : RowsMoved(e, m, today)
           \/ \E m \in ManagerOrNone, f \in Day : Reassign(e, m, f) /\ RowsMoved(e, m, f)
           \/ \E r \in timeline[e] : RowCancelled(e, r)
<1> USE DEF RowsMoved
<1> DEFINE Conclusion ==
        \/ timeline'[e] = timeline[e]
        \/ \E m \in ManagerOrNone : RowsMoved(e, m, today)
        \/ \E m \in ManagerOrNone, f \in Day : Reassign(e, m, f) /\ RowsMoved(e, m, f)
        \/ \E r \in timeline[e] : RowCancelled(e, r)
<1>1. CASE NextDay \/ Sync \/ UNCHANGED vars
  BY <1>1 DEF NextDay, Sync, vars
<1>2. ASSUME NEW x \in Employee, NEW m \in ManagerOrNone, Create(x, m) PROVE Conclusion
  BY <1>2 DEF Create, TypeOK
<1>3. ASSUME NEW x \in Employee, NEW m \in ManagerOrNone, NEW f \in Day, Reassign(x, m, f)
      PROVE  Conclusion
  <2>1. timeline' = [timeline EXCEPT ![x] = SetEdge(@, m, f)]
    BY <1>3 DEF Reassign
  <2>2. CASE x = e
    BY <1>3, <2>1, <2>2 DEF TypeOK
  <2>3. CASE x # e
    BY <2>1, <2>3 DEF TypeOK
  <2> QED BY <2>2, <2>3
<1>4. ASSUME NEW x \in Employee, NEW r \in timeline[x], CancelScheduled(x, r) PROVE Conclusion
  BY <1>4 DEF CancelScheduled, TypeOK, RowCancelled
<1>5. ASSUME NEW x \in Employee, DeleteReparent(x) \/ DeletePromoteToRoot(x) PROVE Conclusion
  <2>1. manager[x] \in ManagerOrNone /\ NoManager \in ManagerOrNone
    BY DEF TypeOK, Structure, ManagerOrNone
  <2> QED BY <1>5, <2>1 DEF DeleteReparent, DeletePromoteToRoot, DeleteMovingReports
<1>6. ASSUME NEW x \in Employee, DeleteCascade(x) \/ Restore(x) PROVE Conclusion
  BY <1>6 DEF DeleteCascade, Restore
<1>7. ASSUME NEW rows \in ImportFile, Import(rows) PROVE Conclusion
  BY <1>7, RowsOfImport
<1> QED BY <1>1, <1>2, <1>3, <1>4, <1>5, <1>6, <1>7 DEF Next

-----------------------------------------------------------------------------
(* The rows stay adjoining and disjoint. *)

\* Every operation keeps every timeline contiguous.
LEMMA ContiguousInductive ==
    TypeOK /\ TimelinesContiguous /\ [Next]_vars => TimelinesContiguous'
<1> SUFFICES ASSUME TypeOK, TimelinesContiguous, [Next]_vars, NEW e \in Employee
             PROVE  Contiguous(timeline'[e])
  BY DEF TimelinesContiguous
<1>1. timeline[e] \in SUBSET Run /\ Contiguous(timeline[e]) /\ today \in Day
  BY DEF TypeOK, TimelinesContiguous
<1>2. \A m \in ManagerOrNone, f \in Day : RowsMoved(e, m, f) => Contiguous(timeline'[e])
  BY <1>1, SetEdgeContiguous DEF RowsMoved
<1>3. \A r \in timeline[e] : RowCancelled(e, r) => Contiguous(timeline'[e])
  BY <1>1, CancelRunContiguous DEF RowCancelled
<1> QED BY <1>1, <1>2, <1>3, RowsOfStep

\* One open-ended row, or none, is contiguous.
LEMMA ContiguousInitial == Init => TimelinesContiguous
  BY DEF Init, TimelinesContiguous, Contiguous, RangesOK, NoOverlap, NoGap

\* Whatever moves, deletions and cancellations are made, and on whatever days,
\* the rows of an employee adjoin, never overlap, and the last is open-ended.
THEOREM TimelinesStayContiguous == Spec => []TimelinesContiguous
  BY ContiguousInitial, ContiguousInductive, TypeCorrect, PTL DEF Spec

\* A change scheduled behind all others can always be taken back exactly.
THEOREM CancellingUndoesScheduling == Spec => []CancelUndoesSchedule
<1>1. TypeOK /\ TimelinesContiguous => CancelUndoesSchedule
  BY CancelUndoesSetEdge DEF TypeOK, TimelinesContiguous, CancelUndoesSchedule
<1> QED BY <1>1, TypeCorrect, TimelinesStayContiguous, PTL

-----------------------------------------------------------------------------
(* What a step does to the chart. *)

\* A set_edge names the manager from its day on; a cancellation hands the
\* cancelled days to the manager of the day before.
LEMMA ManagerOfStep ==
    ASSUME TypeOK, TimelinesContiguous, NEW e \in Employee, NEW d \in Day
    PROVE  /\ \A m \in ManagerOrNone, f \in Day :
                  RowsMoved(e, m, f) =>
                      ManagerAt(timeline'[e], d) = IF d >= f THEN m ELSE ManagerAt(timeline[e], d)
           /\ \A r \in timeline[e] :
                  RowCancelled(e, r) =>
                      ManagerAt(timeline'[e], d) =
                          IF r.from <= d /\ d < r.to
                          THEN ManagerAt(timeline[e], r.from - 1) ELSE ManagerAt(timeline[e], d)
<1>1. timeline[e] \in SUBSET Run /\ Contiguous(timeline[e]) /\ today \in Day
  BY DEF TypeOK, TimelinesContiguous
<1>2. \A r \in timeline[e] : r.from > today => r.from > 0
  BY <1>1 DEF Run
<1> QED BY <1>1, <1>2, ManagerAfterSetEdge, ManagerAfterCancelRun DEF RowsMoved, RowCancelled

\* A step that changes a past day is a move backdated to it.
LEMMA PastStep ==
    ASSUME TypeOK, TimelinesContiguous, [Next]_vars, NEW e \in Employee, NEW d \in Day,
           d < today, ManagerAt(timeline'[e], d) # ManagerAt(timeline[e], d)
    PROVE  \E m \in ManagerOrNone, f \in Day : f <= d /\ Reassign(e, m, f)
<1>1. today \in Day /\ \A r \in timeline[e] : r.from \in Day
  BY DEF TypeOK, Run
<1>2. \A m \in ManagerOrNone, f \in Day : RowsMoved(e, m, f) => d >= f
  BY ManagerOfStep
<1>3. \A m \in ManagerOrNone : ~RowsMoved(e, m, today)
  BY <1>1, <1>2
<1>4. \A r \in timeline[e] : RowCancelled(e, r) => r.from <= d /\ r.from > today
  BY ManagerOfStep DEF RowCancelled
<1>5. \A r \in timeline[e] : ~RowCancelled(e, r)
  BY <1>1, <1>4
<1>6. PICK m \in ManagerOrNone, f \in Day : Reassign(e, m, f) /\ RowsMoved(e, m, f)
  BY <1>3, <1>5, RowsOfStep
<1> QED BY <1>1, <1>2, <1>6

\* The past changes only by a move backdated to it.
THEOREM PastStaysStable == Spec => PastIsStable
<1>1. TypeOK /\ TimelinesContiguous /\ [Next]_vars
        => [\A e \in Employee, d \in Day :
                d < today /\ ManagerAt(timeline'[e], d) # ManagerAt(timeline[e], d)
                    => \E m \in ManagerOrNone, f \in Day : f <= d /\ Reassign(e, m, f)]_vars
  BY PastStep
<1> QED BY <1>1, TypeCorrect, TimelinesStayContiguous, PTL DEF Spec, PastIsStable

-----------------------------------------------------------------------------
(* The cache has no loop. *)

\* The two rounds of updates a transaction can make cover every row whose
\* manager it changed.
LEMMA CommitKeepsAcyclic ==
    ASSUME NEW before \in Structure, NEW between \in Structure, NEW after \in Structure,
           Acyclic(before),
           TriggerPasses(Updates(before, between) \cup Updates(between, after), after)
    PROVE  Acyclic(after)
<1>1. ASSUME NEW x \in Employee, after[x] # before[x]
      PROVE  <<x, after[x]>> \in Updates(before, between) \cup Updates(between, after)
  BY <1>1 DEF Updates
<1>2. \A x \in Employee : after[x] # before[x] /\ after[x] # NoManager => ~Reaches(after, after[x], x)
  BY <1>1 DEF TriggerPasses
<1> QED BY <1>2, CheckedUpdatesKeepAcyclic

\* Every operation that commits leaves the cache without a loop.
LEMMA AcyclicInductive == TypeOK /\ CacheAcyclic /\ [Next]_vars => CacheAcyclic'
<1> SUFFICES ASSUME TypeOK, CacheAcyclic, [Next]_vars PROVE CacheAcyclic'
  OBVIOUS
<1> USE DEF CacheAcyclic
<1> DEFINE landed == Synced(timeline, manager)
<1>1. manager \in Structure /\ manager' \in Structure /\ landed \in Structure
      /\ timeline' \in [Employee -> SUBSET Run]
  BY SyncedType, TypeInductive DEF TypeOK
<1>2. CASE UNCHANGED manager
  BY <1>2
<1>3. ASSUME manager' = landed, TriggerPasses(Updates(manager, manager'), manager')
      PROVE  CacheAcyclic'
  <2>1. Updates(landed, landed) = {}
    BY DEF Updates
  <2> QED BY <1>1, <1>3, <2>1, CommitKeepsAcyclic
<1>4. ASSUME NEW e \in Employee, NEW m \in ManagerOrNone, Create(e, m) PROVE CacheAcyclic'
  <2>1. \A x \in Employee :
            manager'[x] # manager[x] => <<x, manager'[x]>> \in Updates(manager, landed) \cup {<<e, m>>}
    BY <1>1, <1>4 DEF Create, Updates, Structure
  <2>2. TriggerPasses(Updates(manager, landed) \cup {<<e, m>>}, manager')
    BY <1>4 DEF Create
  <2>3. \A x \in Employee :
            manager'[x] # manager[x] /\ manager'[x] # NoManager => ~Reaches(manager', manager'[x], x)
    BY <2>1, <2>2 DEF TriggerPasses
  <2> QED BY <1>1, <2>3, CheckedUpdatesKeepAcyclic
<1>5. ASSUME NEW e \in Employee, NEW m \in ManagerOrNone, NEW f \in Day, Reassign(e, m, f)
      PROVE  CacheAcyclic'
  BY <1>1, <1>5, CommitKeepsAcyclic DEF Reassign
<1>6. ASSUME NEW x \in Employee, NEW m \in ManagerOrNone, DeleteMovingReports(x, m)
      PROVE  CacheAcyclic'
  <2>1. [e \in Employee |-> IF e \in DirectReports(x) THEN m ELSE manager[e]] \in Structure
    BY <1>1 DEF Structure
  <2> QED BY <1>1, <1>6, <2>1, CommitKeepsAcyclic DEF DeleteMovingReports
<1>7. ASSUME NEW x \in Employee, DeleteReparent(x) \/ DeletePromoteToRoot(x) PROVE CacheAcyclic'
  <2>1. manager[x] \in ManagerOrNone /\ NoManager \in ManagerOrNone
    BY <1>1 DEF Structure, ManagerOrNone
  <2> QED BY <1>6, <1>7, <2>1 DEF DeleteReparent, DeletePromoteToRoot
<1>8. CASE Sync
  BY <1>3, <1>8 DEF Sync
<1>9. ASSUME NEW e \in Employee, NEW r \in timeline[e], CancelScheduled(e, r) PROVE CacheAcyclic'
  BY <1>3, <1>9 DEF CancelScheduled
<1>10. ASSUME NEW x \in Employee, DeleteCascade(x) \/ Restore(x) PROVE CacheAcyclic'
  BY <1>3, <1>10 DEF DeleteCascade, Restore
<1>11. CASE NextDay \/ UNCHANGED vars
  BY <1>2, <1>11 DEF NextDay, vars
<1>12. ASSUME NEW rows \in ImportFile, Import(rows) PROVE CacheAcyclic'
  <2> DEFINE moved == MovedBy(rows)
             checked == Updates(manager, landed) \cup {<<e, Asked(rows, e)>> : e \in moved}
  <2>1. /\ manager' = [e \in Employee |-> IF e \in moved THEN Asked(rows, e) ELSE landed[e]]
        /\ TriggerPasses(checked, manager')
    BY <1>12 DEF Import
  <2>2. ASSUME NEW x \in Employee, manager'[x] # manager[x] PROVE <<x, manager'[x]>> \in checked
    BY <2>1, <2>2 DEF Updates
  <2> HIDE DEF checked, moved
  <2>3. \A x \in Employee :
            manager'[x] # manager[x] /\ manager'[x] # NoManager => ~Reaches(manager', manager'[x], x)
    BY <2>1, <2>2 DEF TriggerPasses
  <2> QED BY <1>1, <2>3, CheckedUpdatesKeepAcyclic
<1> QED BY <1>4, <1>5, <1>7, <1>8, <1>9, <1>10, <1>11, <1>12 DEF Next

\* Checking only the rows a transaction updated keeps the whole cached
\* structure free of loops.
THEOREM CacheStaysAcyclic == Spec => []CacheAcyclic
<1>1. Init => CacheAcyclic
  BY DEF Init, CacheAcyclic
<1> QED BY <1>1, AcyclicInductive, TypeCorrect, PTL DEF Spec

-----------------------------------------------------------------------------
(* The as-at tree query. *)

\* On a day without a loop nobody alive is missing from the tree.
THEOREM ChartStaysComplete == Spec => []ChartComplete
<1>1. TypeOK => ChartComplete
  <2> SUFFICES ASSUME TypeOK, NEW d \in Day, Acyclic(EdgesOn(timeline, d))
               PROVE  Charted(EdgesOn(timeline, d), AliveAt(d)) = AliveAt(d)
    BY DEF ChartComplete
  <2>1. EdgesOn(timeline, d) \in Structure
    BY ManagerAtType DEF TypeOK, EdgesOn, Structure
  <2>2. AliveAt(d) \in SUBSET Employee
    BY DEF TypeOK, AliveAt
  <2> QED BY <2>1, <2>2, ChartShowsEverybody
<1> QED BY <1>1, TypeCorrect, PTL

-----------------------------------------------------------------------------
(* The cache after a write. *)

\* No operation but the calendar's changes a row in force without the sync that
\* follows: rows written for today are synced, others leave today as it was.
LEMMA CacheInStepAfterStep ==
    ASSUME TypeOK, TimelinesContiguous, Next, today' = today, NEW e \in exists',
           deletedAt[e] = Horizon, deletedAt'[e] = Horizon, HasRunAt(timeline'[e], today)
    PROVE  manager'[e] = ManagerAt(timeline'[e], today)
<1> USE DEF TypeOK
<1> DEFINE InStep == manager'[e] = ManagerAt(timeline'[e], today)
           landed == Synced(timeline, manager)
<1>0. e \in Employee /\ timeline[e] \in SUBSET Run /\ today \in Day
  BY TypeInductive
<1>1. ASSUME manager' = landed, e \in exists, HasRunAt(timeline[e], today),
             ManagerAt(timeline'[e], today) = ManagerAt(timeline[e], today)
      PROVE  InStep
  BY <1>1 DEF Synced, Present
<1>2. ASSUME NEW cache \in Structure, manager' = Synced(timeline', cache), e \in exists
      PROVE  InStep
  BY <1>2 DEF Synced, Present
<1>3. CASE NextDay
  BY <1>3 DEF NextDay
<1>4. CASE Sync
  BY <1>1, <1>4 DEF Sync
<1>5. ASSUME NEW x \in Employee, NEW m \in ManagerOrNone, Create(x, m) PROVE InStep
  <2>1. CASE e = x
    <3>1. RowsMoved(e, m, today) /\ manager'[e] = m
      BY <1>5, <2>1, SyncedType DEF Create, RowsMoved, Structure
    <3> QED BY <1>0, <3>1, ManagerOfStep
  <2>2. CASE e # x
    BY <1>5, <2>2 DEF Create, Synced, Present
  <2> QED BY <2>1, <2>2
<1>6. ASSUME NEW x \in Employee, NEW m \in ManagerOrNone, NEW f \in Day, Reassign(x, m, f)
      PROVE  InStep
  <2>1. CASE f <= today
    BY <1>2, <1>6, <2>1, SyncedType DEF Reassign
  <2>2. CASE f > today
    <3>1. manager' = landed /\ e \in exists
      BY <1>6, <2>2 DEF Reassign
    <3>2. CASE e # x
      BY <1>1, <1>6, <3>1, <3>2 DEF Reassign
    <3>3. CASE e = x
      <4>1. RowsMoved(e, m, f)
        BY <1>6, <3>3 DEF Reassign, RowsMoved
      <4>2. HasRunAt(timeline[e], today)
        BY <1>0, <2>2, <4>1, SetEdgeKeepsEarlier DEF RowsMoved
      <4>3. ManagerAt(timeline'[e], today) = ManagerAt(timeline[e], today)
        BY <1>0, <2>2, <4>1, ManagerOfStep
      <4> QED BY <1>1, <3>1, <4>2, <4>3
    <3> QED BY <3>2, <3>3
  <2> QED BY <2>1, <2>2
<1>7. ASSUME NEW x \in Employee, NEW r \in timeline[x], CancelScheduled(x, r) PROVE InStep
  <2>1. manager' = landed /\ e \in exists
    BY <1>7 DEF CancelScheduled
  <2>2. CASE e # x
    BY <1>1, <1>7, <2>1, <2>2 DEF CancelScheduled
  <2>3. CASE e = x
    <3>1. RowCancelled(e, r)
      BY <1>7, <2>3 DEF CancelScheduled, RowCancelled
    <3>2. HasRunAt(timeline[e], today)
      BY <1>0, <3>1, CancelRunKeepsEarlier DEF RowCancelled
    <3>3. r.from > today /\ r.from \in Day
      BY <1>7 DEF CancelScheduled, Run
    <3>4. ManagerAt(timeline'[e], today) = ManagerAt(timeline[e], today)
      BY <1>0, <3>1, <3>3, ManagerOfStep DEF RowCancelled
    <3> QED BY <1>1, <2>1, <3>2, <3>4
  <2> QED BY <2>2, <2>3
<1>8. ASSUME NEW x \in Employee, DeleteReparent(x) \/ DeletePromoteToRoot(x) PROVE InStep
  BY <1>8 DEF DeleteReparent, DeletePromoteToRoot, DeleteMovingReports, Synced, Present
<1>9. ASSUME NEW x \in Employee, DeleteCascade(x) \/ Restore(x) PROVE InStep
  BY <1>1, <1>9 DEF DeleteCascade, Restore
<1>10. ASSUME NEW rows \in ImportFile, Import(rows) PROVE InStep
  <2> DEFINE moved == MovedBy(rows)
             new == Named(rows) \ exists
  <2>1. manager'[e] = IF e \in moved THEN Asked(rows, e) ELSE landed[e]
    BY <1>0, <1>10 DEF Import
  <2>2. IF e \in moved \cup new
        THEN Asked(rows, e) \in ManagerOrNone /\ RowsMoved(e, Asked(rows, e), today)
        ELSE timeline'[e] = timeline[e]
    BY <1>0, <1>10, RowsOfImport
  <2>3. CASE e \in moved
    <3>1. RowsMoved(e, Asked(rows, e), today) /\ Asked(rows, e) \in ManagerOrNone
      BY <2>2, <2>3
    <3>2. ManagerAt(timeline'[e], today) = Asked(rows, e)
      BY <1>0, <3>1, ManagerOfStep
    <3> QED BY <2>1, <2>3, <3>2
  <2>4. CASE e \in new /\ e \notin moved
    <3>1. Asked(rows, e) = manager[e]
      BY <2>4 DEF MovedBy
    <3>2. landed[e] = manager[e]
      BY <1>0, <2>4 DEF Synced, Present
    <3>3. ManagerAt(timeline'[e], today) = Asked(rows, e)
      <4>1. RowsMoved(e, Asked(rows, e), today) /\ Asked(rows, e) \in ManagerOrNone
        BY <2>2, <2>4
      <4> QED BY <1>0, <4>1, ManagerOfStep
    <3> QED BY <2>1, <2>4, <3>1, <3>2, <3>3
  <2>5. CASE e \notin moved \cup new
    <3>1. e \in exists
      BY <1>10, <2>5 DEF Import
    <3>2. timeline'[e] = timeline[e]
      BY <2>2, <2>5
    <3> QED BY <1>0, <2>1, <2>5, <3>1, <3>2 DEF Synced, Present
  <2> QED BY <2>3, <2>4, <2>5
<1> QED BY <1>3, <1>4, <1>5, <1>6, <1>7, <1>8, <1>9, <1>10 DEF Next

\* After every committed write the cached manager of everybody present, save
\* somebody just restored, is the one in force today.
THEOREM CacheStaysInStep == Spec => CacheInStep
<1>1. TypeOK /\ TimelinesContiguous /\ [Next]_vars
        => [today' = today =>
              \A e \in exists' :
                (deletedAt[e] = Horizon /\ deletedAt'[e] = Horizon /\ HasRunAt(timeline'[e], today))
                    => manager'[e] = ManagerAt(timeline'[e], today)]_vars
  BY CacheInStepAfterStep
<1> QED BY <1>1, TypeCorrect, TimelinesStayContiguous, PTL DEF Spec, CacheInStep

-----------------------------------------------------------------------------
(* Deletion. *)

\* Whoever is deleted reports to somebody else than themselves.
LEMMA NobodyOverThemselves ==
    ASSUME CacheAcyclic, NEW x \in Employee
    PROVE  manager[x] # x
<1>1. \E y \in {x} : manager[y] \notin {x}
  BY DEF CacheAcyclic, Acyclic
<1> QED BY <1>1

\* The reports a deletion moves include whoever the cache and the rows agree on.
LEMMA ReportsLeave ==
    ASSUME TypeOK, TimelinesContiguous, CacheAcyclic,
           NEW x \in Employee, NEW m \in ManagerOrNone, DeleteMovingReports(x, m), m # x,
           NEW e \in exists, deletedAt'[e] = Horizon, manager[e] = ManagerAt(timeline[e], today)
    PROVE  ManagerAt(timeline'[e], today) # x
<1> USE DEF TypeOK
<1>1. e \in PresentEmployees
  BY DEF DeleteMovingReports, SoftDeleted, PresentEmployees
<1>2. CASE manager[e] = x
  <2>1. RowsMoved(e, m, today)
    BY <1>1, <1>2 DEF DeleteMovingReports, DirectReports, RowsMoved
  <2> QED BY <2>1, ManagerOfStep
<1>3. CASE manager[e] # x
  BY <1>1, <1>3 DEF DeleteMovingReports, DirectReports
<1> QED BY <1>2, <1>3

\* Nobody present is left today under somebody deleted, whatever the policy, if
\* the cache named the manager in force.
THEOREM NobodyIsLeftToday == Spec => NobodyLeftToday
<1>1. ASSUME TypeOK, TimelinesContiguous, CacheAcyclic,
             NEW x \in Employee, DeleteReparent(x) \/ DeletePromoteToRoot(x) \/ DeleteCascade(x),
             NEW e \in exists, deletedAt'[e] = Horizon,
             manager[e] = ManagerAt(timeline[e], today)
      PROVE  ManagerAt(timeline'[e], today) # x
  <2> USE DEF TypeOK
  <2>1. manager[x] # x /\ manager[x] \in ManagerOrNone
        /\ NoManager # x /\ NoManager \in ManagerOrNone
    BY <1>1, NobodyOverThemselves DEF Structure, ManagerOrNone
  <2>2. CASE DeleteReparent(x) \/ DeletePromoteToRoot(x)
    BY <1>1, <2>1, <2>2, ReportsLeave DEF DeleteReparent, DeletePromoteToRoot
  <2>3. CASE DeleteCascade(x)
    <3>1. timeline' = timeline /\ e \notin CachedSubtree(x)
      BY <1>1, <2>3 DEF DeleteCascade, SoftDeleted
    <3>2. e \in PresentEmployees /\ x \in PresentEmployees
      BY <1>1, <2>3 DEF DeleteCascade, SoftDeleted, PresentEmployees, Present
    <3>3. manager[e] # x
      BY <3>1, <3>2 DEF CachedSubtree
    <3> QED BY <1>1, <3>1, <3>3
  <2> QED BY <1>1, <2>2, <2>3
<1>2. TypeOK /\ TimelinesContiguous /\ CacheAcyclic /\ [Next]_vars
        => [\A x \in Employee :
              DeleteReparent(x) \/ DeletePromoteToRoot(x) \/ DeleteCascade(x)
                => \A e \in exists :
                     (deletedAt'[e] = Horizon /\ manager[e] = ManagerAt(timeline[e], today))
                         => ManagerAt(timeline'[e], today) # x]_vars
  BY <1>1
<1> QED BY <1>2, TypeCorrect, TimelinesStayContiguous, CacheStaysAcyclic, PTL
        DEF Spec, NobodyLeftToday

-----------------------------------------------------------------------------
(* Loops. *)

\* The rows and the cache refer to employees there are.
References ==
    \A x \in Employee :
        /\ manager[x] \in exists \cup {NoManager}
        /\ \A r \in timeline[x] : r.mgr \in exists \cup {NoManager}

\* A day's manager is somebody the rows refer to.
LEMMA ManagerAtRefers ==
    ASSUME NEW runs, NEW S, \A r \in runs : r.mgr \in S, NoManager \in S, NEW d
    PROVE  ManagerAt(runs, d) \in S
  BY DEF ManagerAt, HasRunAt, RunAt

\* set_edge and cancel_scheduled refer to nobody new but the manager they name.
LEMMA RowsRefer ==
    ASSUME NEW runs \in SUBSET Run, NEW S, \A r \in runs : r.mgr \in S
    PROVE  /\ \A m \in ManagerOrNone, f \in Day :
                  m \in S => \A r \in SetEdge(runs, m, f) : r.mgr \in S
           /\ \A c \in runs : \A r \in CancelRun(runs, c) : r.mgr \in S
<1>1. ASSUME NEW m \in ManagerOrNone, NEW f \in Day, m \in S, NEW r \in SetEdge(runs, m, f)
      PROVE  r.mgr \in S
  <2>1. r \in runs \/ (\E q \in runs : r.mgr = q.mgr) \/ r.mgr = m
    BY SetEdgeRows
  <2> QED BY <1>1, <2>1
<1>2. ASSUME NEW c \in runs, NEW r \in CancelRun(runs, c) PROVE r.mgr \in S
  <2>1. r \in runs \/ \E q \in runs : r.mgr = q.mgr
    BY CancelRunRows
  <2> QED BY <2>1
<1> QED BY <1>1, <1>2

\* Syncing a cache that refers to S from rows that do leaves one that does.
LEMMA SyncedRefers ==
    ASSUME NEW tl \in [Employee -> SUBSET Run], NEW cache \in Structure, NEW S, NoManager \in S,
           \A x \in Employee : cache[x] \in S /\ \A r \in tl[x] : r.mgr \in S
    PROVE  \A x \in Employee : Synced(tl, cache)[x] \in S
  BY ManagerAtRefers DEF Synced

\* Nothing ever refers to an id that has no row.
LEMMA ReferencesInductive == TypeOK /\ References /\ [Next]_vars => References'
<1> SUFFICES ASSUME TypeOK, References, [Next]_vars PROVE References'
  OBVIOUS
<1> USE DEF TypeOK
<1> DEFINE S == exists \cup {NoManager}
           landed == Synced(timeline, manager)
           RowsKept == \A x \in Employee : \A r \in timeline'[x] : r.mgr \in S
<1>1. manager' \in Structure /\ timeline' \in [Employee -> SUBSET Run] /\ landed \in Structure
  BY TypeInductive, SyncedType
<1>2. \A x \in Employee : landed[x] \in S
  BY SyncedRefers DEF References
<1>0. \A x \in Employee : timeline[x] \in SUBSET Run /\ \A r \in timeline[x] : r.mgr \in S
  BY DEF References
<1>3. CASE NextDay \/ UNCHANGED vars
  BY <1>3 DEF NextDay, vars, References
<1>4. ASSUME manager' = landed, RowsKept, exists' = exists PROVE References'
  BY <1>2, <1>4 DEF References
<1>5. CASE Sync
  BY <1>4, <1>5 DEF Sync, References
<1>6. ASSUME NEW e \in Employee, NEW m \in ManagerOrNone, Create(e, m) PROVE References'
  <2>1. m \in S /\ exists' = exists \cup {e}
    BY <1>6 DEF Create
  <2>2. \A x \in Employee : timeline'[x] = IF x = e THEN SetEdge(timeline[x], m, today) ELSE timeline[x]
    BY <1>6 DEF Create
  <2>3. RowsKept
    <3>1. ASSUME NEW x \in Employee PROVE \A r \in SetEdge(timeline[x], m, today) : r.mgr \in S
      BY <1>0, <2>1, RowsRefer
    <3> QED BY <1>0, <2>2, <3>1
  <2>4. \A x \in Employee : manager'[x] \in S \cup {e}
    BY <1>1, <1>2, <1>6, <2>1 DEF Create, Structure
  <2> QED BY <2>1, <2>3, <2>4 DEF References
<1>7. ASSUME NEW e \in Employee, NEW m \in ManagerOrNone, NEW f \in Day, Reassign(e, m, f)
      PROVE  References'
  <2>1. m \in S /\ exists' = exists
    BY <1>7 DEF Reassign, Present
  <2>2. \A x \in Employee : timeline'[x] = IF x = e THEN SetEdge(timeline[x], m, f) ELSE timeline[x]
    BY <1>7 DEF Reassign
  <2>3. RowsKept
    <3>1. ASSUME NEW x \in Employee PROVE \A r \in SetEdge(timeline[x], m, f) : r.mgr \in S
      BY <1>0, <2>1, RowsRefer
    <3> QED BY <1>0, <2>2, <3>1
  <2>4. \A x \in Employee : Synced(timeline', landed)[x] \in S
    BY <1>1, <1>2, <2>3, SyncedRefers
  <2>5. manager' = Synced(timeline', landed) \/ manager' = landed
    BY <1>7 DEF Reassign
  <2> QED BY <1>2, <2>1, <2>3, <2>4, <2>5 DEF References
<1>8. ASSUME NEW e \in Employee, NEW c \in timeline[e], CancelScheduled(e, c) PROVE References'
  <2>1. \A x \in Employee : timeline'[x] = IF x = e THEN CancelRun(timeline[x], c) ELSE timeline[x]
    BY <1>8 DEF CancelScheduled
  <2>2. RowsKept
    <3>1. \A r \in CancelRun(timeline[e], c) : r.mgr \in S
      BY <1>0, <1>8, RowsRefer
    <3> QED BY <1>0, <2>1, <3>1
  <2> QED BY <1>4, <1>8, <2>2 DEF CancelScheduled
<1>9. ASSUME NEW x \in Employee, NEW m \in S, DeleteMovingReports(x, m) PROVE References'
  <2>1. m \in ManagerOrNone /\ exists' = exists
    BY <1>9 DEF DeleteMovingReports, ManagerOrNone
  <2>2. \A e \in Employee : \/ timeline'[e] = timeline[e]
                           \/ timeline'[e] = SetEdge(timeline[e], m, today)
    BY <1>9 DEF DeleteMovingReports
  <2>3. RowsKept
    <3>1. ASSUME NEW e \in Employee PROVE \A r \in SetEdge(timeline[e], m, today) : r.mgr \in S
      BY <1>0, <1>9, <2>1, RowsRefer
    <3> QED BY <1>0, <2>2, <3>1
  <2> DEFINE moved == [e \in Employee |-> IF e \in DirectReports(x) THEN m ELSE manager[e]]
  <2>4. moved \in Structure /\ \A e \in Employee : moved[e] \in S
    BY <2>1 DEF Structure, References
  <2>5. manager' = Synced(timeline', moved)
    BY <1>9 DEF DeleteMovingReports
  <2> HIDE DEF moved
  <2>6. \A e \in Employee : manager'[e] \in S
    BY <1>1, <2>3, <2>4, <2>5, SyncedRefers
  <2> QED BY <2>1, <2>3, <2>6 DEF References
<1>10. ASSUME NEW x \in Employee, DeleteReparent(x) \/ DeletePromoteToRoot(x) PROVE References'
  BY <1>9, <1>10 DEF DeleteReparent, DeletePromoteToRoot, References
<1>11. ASSUME NEW x \in Employee, DeleteCascade(x) \/ Restore(x) PROVE References'
  BY <1>4, <1>11 DEF DeleteCascade, Restore, References
<1>12. ASSUME NEW rows \in ImportFile, Import(rows) PROVE References'
  <2> DEFINE S2 == S \cup Named(rows)
             written == MovedBy(rows) \cup (Named(rows) \ exists)
  <2>1. exists' = exists \cup Named(rows)
    BY <1>12 DEF Import
  <2>2. ASSUME NEW e \in Named(rows) PROVE Asked(rows, e) \in S2
    <3>1. PICK i \in DOMAIN rows : rows[i].who = e
      BY DEF Named
    <3>2. rows[i].to \in Named(rows) \cup PresentEmployees \cup {NoManager}
      BY <1>12 DEF Import, Validated
    <3> QED BY <3>1, <3>2, AskedType DEF PresentEmployees
  <2>3. written \subseteq Named(rows)
    BY DEF MovedBy
  <2>4. ASSUME NEW x \in Employee PROVE \A r \in timeline'[x] : r.mgr \in S2
    <3>1. CASE x \in written
      <4>1. timeline'[x] = SetEdge(timeline[x], Asked(rows, x), today)
            /\ Asked(rows, x) \in ManagerOrNone /\ Asked(rows, x) \in S2
        BY <1>12, <2>2, <2>3, <3>1, RowsOfImport DEF RowsMoved
      <4>2. timeline[x] \in SUBSET Run /\ (\A r \in timeline[x] : r.mgr \in S2) /\ today \in Day
        BY <1>0
      <4> HIDE DEF S2
      <4>3. \A r \in SetEdge(timeline[x], Asked(rows, x), today) : r.mgr \in S2
        BY <4>1, <4>2, RowsRefer
      <4> QED BY <4>1, <4>3
    <3>2. CASE x \notin written
      BY <1>0, <1>12, <3>2, RowsOfImport
    <3> QED BY <3>1, <3>2
  <2>5. ASSUME NEW x \in Employee PROVE manager'[x] \in S2
    <3>1. manager'[x] = IF x \in MovedBy(rows) THEN Asked(rows, x) ELSE landed[x]
      BY <1>12 DEF Import
    <3> QED BY <1>2, <2>2, <2>3, <3>1
  <2> QED BY <2>1, <2>4, <2>5 DEF References
<1> QED BY <1>3, <1>5, <1>6, <1>7, <1>8, <1>10, <1>11, <1>12 DEF Next

\* Between two boundary days nobody's manager changes: the structure of a day is
\* that of the last boundary up to it.
LEMMA StructureOfBoundary ==
    ASSUME TypeOK, TimelinesContiguous, NEW f \in Day, NEW d \in Day, f <= d
    PROVE  \E b \in {f} \cup BoundaryDays(timeline, f) : EdgesOn(timeline, d) = EdgesOn(timeline, b)
<1> DEFINE B == {b \in {f} \cup BoundaryDays(timeline, f) : b <= d}
<1>1. B \in SUBSET (0 .. d) /\ B # {}
  BY DEF BoundaryDays
<1>2. PICK b \in B : \A c \in B : c <= b
  <2>1. d \in Nat
    OBVIOUS
  <2> HIDE DEF B
  <2> QED BY <1>1, <2>1, LargestOf
<1>3. b \in Day /\ f <= b /\ b <= d
  BY <1>1 DEF BoundaryDays
<1>4. \A e \in Employee : \A r \in timeline[e] : ~(b < r.from /\ r.from <= d) /\ ~(b < r.to /\ r.to <= d)
  <2> SUFFICES ASSUME NEW e \in Employee, NEW r \in timeline[e], NEW c \in {r.from, r.to},
                      b < c, c <= d
               PROVE  FALSE
    OBVIOUS
  <2>1. c \in Day
    BY <1>3 DEF TypeOK, Run
  <2>2. c \in B
    BY <1>3, <2>1 DEF BoundaryDays
  <2> QED BY <1>2, <1>3, <2>1, <2>2
<1>5. ASSUME NEW e \in Employee PROVE ManagerAt(timeline[e], d) = ManagerAt(timeline[e], b)
  <2>1. timeline[e] \in SUBSET Run /\ NoOverlap(timeline[e])
    BY DEF TypeOK, TimelinesContiguous, Contiguous
  <2>2. \A r \in timeline[e] : InForce(r, d) <=> InForce(r, b)
    BY <1>3, <1>4, <2>1 DEF InForce, Run
  <2>3. CASE \E r \in timeline[e] : InForce(r, d)
    BY <1>3, <2>1, <2>2, <2>3, ManagerOfRun
  <2>4. CASE ~\E r \in timeline[e] : InForce(r, d)
    BY <2>2, <2>4 DEF ManagerAt, HasRunAt
  <2> QED BY <2>3, <2>4
<1> QED BY <1>5 DEF EdgesOn

\* What a step that gives one employee a manager from a day on does to a day.
LEMMA StructureAfterMove ==
    ASSUME TypeOK, TimelinesContiguous, NEW e \in Employee, NEW m \in ManagerOrNone, NEW f \in Day,
           timeline' = [timeline EXCEPT ![e] = SetEdge(@, m, f)], NEW d \in Day
    PROVE  EdgesOn(timeline', d) =
              IF d < f THEN EdgesOn(timeline, d) ELSE [EdgesOn(timeline, d) EXCEPT ![e] = m]
<1>1. RowsMoved(e, m, f) /\ \A x \in Employee : x # e => timeline'[x] = timeline[x]
  BY DEF TypeOK, RowsMoved
<1>2. \A x \in Employee : ManagerAt(timeline'[x], d) =
          IF x = e /\ d >= f THEN m ELSE ManagerAt(timeline[x], d)
  BY <1>1, ManagerOfStep
<1>3. CASE d < f
  BY <1>2, <1>3 DEF EdgesOn
<1>4. CASE d >= f
  BY <1>2, <1>4 DEF EdgesOn
<1> QED BY <1>3, <1>4 DEF Day

\* A move that passes the check on its day and on every later boundary closes
\* no loop on any day.
LEMMA MoveClosesNoLoop ==
    ASSUME TypeOK, TimelinesContiguous, NEW e \in Employee, NEW m \in ManagerOrNone, NEW f \in Day,
           Reassign(e, m, f), NEW d \in Day, Acyclic(EdgesOn(timeline, d))
    PROVE  Acyclic(EdgesOn(timeline', d))
<1>1. timeline' = [timeline EXCEPT ![e] = SetEdge(@, m, f)]
  BY DEF Reassign
<1>2. CASE d < f
  BY <1>1, <1>2, StructureAfterMove
<1>3. CASE d >= f
  <2>1. PICK b \in {f} \cup BoundaryDays(timeline, f) : EdgesOn(timeline, d) = EdgesOn(timeline, b)
    BY <1>3, StructureOfBoundary
  <2>2. m # NoManager => ~IsDescendant(EdgesOn(timeline, d), m, e)
    BY <2>1 DEF Reassign, AcyclicMove
  <2>3. EdgesOn(timeline, d) \in Structure
    BY ManagerAtType DEF TypeOK, EdgesOn, Structure
  <2>4. EdgesOn(timeline', d) = [EdgesOn(timeline, d) EXCEPT ![e] = m]
    <3>1. ~(d < f)
      BY <1>3 DEF Day
    <3> QED BY <1>1, <3>1, StructureAfterMove
  <2> QED BY <2>2, <2>3, <2>4, MoveKeepsAcyclic
<1> QED BY <1>2, <1>3 DEF Day

\* A new employee closes no loop either: nobody reports to them.
LEMMA HireClosesNoLoop ==
    ASSUME TypeOK, TimelinesContiguous, References, NEW e \in Employee, NEW m \in ManagerOrNone,
           Create(e, m), NEW d \in Day, Acyclic(EdgesOn(timeline, d))
    PROVE  Acyclic(EdgesOn(timeline', d))
<1> DEFINE g == EdgesOn(timeline, d)
<1>1. \A x \in Employee : g[x] # e
  <2>1. \A x \in Employee : ManagerAt(timeline[x], d) \in exists \cup {NoManager}
    BY ManagerAtRefers DEF References
  <2> QED BY <2>1, EmployeeAssumption DEF EdgesOn, Create
<1>2. m # NoManager => ~IsDescendant(g, m, e)
  <2>1. {e} \in SUBSET Employee /\ e \in {e} /\ DownClosed(g, {e}) /\ m \notin {e}
    BY <1>1, EmployeeAssumption DEF DownClosed, Create
  <2> HIDE DEF g
  <2> QED BY <2>1 DEF IsDescendant
<1>3. g \in Structure
  BY ManagerAtType DEF TypeOK, EdgesOn, Structure
<1>4. EdgesOn(timeline', d) = IF d < today THEN g ELSE [g EXCEPT ![e] = m]
  BY StructureAfterMove DEF Create, TypeOK
<1>5. Acyclic(g)
  OBVIOUS
<1> HIDE DEF g
<1> QED BY <1>2, <1>3, <1>4, <1>5, MoveKeepsAcyclic

\* Nor does making the reports of somebody roots.
LEMMA PromotionClosesNoLoop ==
    ASSUME TypeOK, TimelinesContiguous, NEW x \in Employee, DeletePromoteToRoot(x),
           NEW d \in Day, Acyclic(EdgesOn(timeline, d))
    PROVE  Acyclic(EdgesOn(timeline', d))
<1> DEFINE g == EdgesOn(timeline, d)
           h == EdgesOn(timeline', d)
<1>1. ASSUME NEW e \in Employee PROVE h[e] \in {g[e], NoManager}
  <2>1. timeline'[e] = timeline[e] \/ RowsMoved(e, NoManager, today)
    BY DEF DeletePromoteToRoot, DeleteMovingReports, RowsMoved
  <2>2. NoManager \in ManagerOrNone /\ today \in Day
    BY DEF ManagerOrNone, TypeOK
  <2> QED BY <2>1, <2>2, ManagerOfStep DEF EdgesOn
<1> HIDE DEF g, h
<1>2. ASSUME NEW S \in SUBSET Employee, S # {} PROVE \E e \in S : h[e] \notin S
  <2>1. PICK e \in S : g[e] \notin S
    BY <1>2 DEF Acyclic, g
  <2> QED BY <1>1, <2>1, EmployeeAssumption
<1> QED BY <1>2 DEF Acyclic, h

\* What a loop that a transaction leaves today goes through: the cache has no loop
\* and says what the rows say of everybody present.
LEMMA LoopToday ==
    ASSUME TypeOK, TimelinesContiguous, CacheAcyclic, Next, today' = today,
           \A x \in Employee : ~Restore(x),
           NEW S \in SUBSET PresentEmployees', S # {}
    PROVE  \E x \in S : EdgesOn(timeline', today)[x] \notin S
<1>1. manager' \in Structure /\ Acyclic(manager') /\ S \in SUBSET Employee
  BY TypeInductive, AcyclicInductive DEF TypeOK, CacheAcyclic, PresentEmployees
<1>2. PICK x \in S : manager'[x] \notin S
  BY <1>1 DEF Acyclic
<1>3. x \in exists' /\ deletedAt'[x] = Horizon /\ x \in Employee
  BY <1>1 DEF PresentEmployees
<1>4. deletedAt[x] = Horizon
  <2>1. today # Horizon /\ today \in Day
    BY HorizonAssumption DEF TypeOK, Day
  <2>2. ASSUME NEW S0 \in SUBSET Employee, deletedAt' = SoftDeleted(S0)
        PROVE  deletedAt[x] = Horizon
    BY <1>3, <2>1, <2>2 DEF SoftDeleted
  <2>3. CASE deletedAt' = deletedAt
    BY <1>3, <2>3
  <2>4. CASE \E y \in Employee : DeleteCascade(y)
    <3>1. PICK y \in Employee : deletedAt' = SoftDeleted(CachedSubtree(y))
      BY <2>4 DEF DeleteCascade
    <3>2. CachedSubtree(y) \in SUBSET Employee
      BY DEF CachedSubtree, PresentEmployees, TypeOK
    <3> QED BY <2>2, <3>1, <3>2
  <2>5. CASE \E y \in Employee, m \in ManagerOrNone : DeleteMovingReports(y, m)
    <3>1. PICK y \in Employee : deletedAt' = SoftDeleted({y})
      BY <2>5 DEF DeleteMovingReports
    <3> QED BY <2>2, <3>1
  <2>6. CASE \E y \in Employee : DeleteReparent(y) \/ DeletePromoteToRoot(y)
    <3>1. manager \in Structure /\ NoManager \in ManagerOrNone
      BY DEF TypeOK, ManagerOrNone
    <3>2. \A y \in Employee : manager[y] \in ManagerOrNone
      BY <3>1 DEF Structure
    <3> QED BY <2>5, <2>6, <3>1, <3>2 DEF DeleteReparent, DeletePromoteToRoot
  <2>7. \/ deletedAt' = deletedAt
        \/ \E y \in Employee : DeleteCascade(y)
        \/ \E y \in Employee : DeleteReparent(y) \/ DeletePromoteToRoot(y)
    BY DEF Next, NextDay, Sync, Create, Reassign, CancelScheduled, Import
  <2> QED BY <2>3, <2>4, <2>6, <2>7
<1>5. CASE HasRunAt(timeline'[x], today)
  <2>1. manager'[x] = ManagerAt(timeline'[x], today)
    BY <1>3, <1>4, <1>5, CacheInStepAfterStep
  <2> QED BY <1>2, <1>3, <2>1 DEF EdgesOn
<1>6. CASE ~HasRunAt(timeline'[x], today)
  <2>1. EdgesOn(timeline', today)[x] = NoManager
    BY <1>3, <1>6 DEF EdgesOn, ManagerAt
  <2> QED BY <1>1, <2>1, EmployeeAssumption
<1> QED BY <1>5, <1>6

\* A cancellation changes no day but those of the run it drops.
LEMMA CancelKeepsOtherDays ==
    ASSUME TypeOK, TimelinesContiguous, NEW e \in Employee, NEW r \in timeline[e],
           CancelScheduled(e, r), NEW d \in Day, ~InForce(r, d)
    PROVE  EdgesOn(timeline', d) = EdgesOn(timeline, d)
<1>1. RowCancelled(e, r) /\ \A x \in Employee : x # e => timeline'[x] = timeline[x]
  BY DEF CancelScheduled, RowCancelled, TypeOK
<1>2. ManagerAt(timeline'[e], d) = ManagerAt(timeline[e], d)
  BY <1>1, ManagerOfStep DEF InForce
<1>3. \A x \in Employee : ManagerAt(timeline'[x], d) = ManagerAt(timeline[x], d)
  BY <1>1, <1>2
<1> QED BY <1>3 DEF EdgesOn

\* A file, and a deletion, leave the days before today.
LEMMA EarlierDaysKept ==
    ASSUME TypeOK, TimelinesContiguous, NEW d \in Day, d < today,
           \/ \E rows \in ImportFile : Import(rows)
           \/ \E x \in Employee, m \in ManagerOrNone : DeleteMovingReports(x, m)
    PROVE  EdgesOn(timeline', d) = EdgesOn(timeline, d)
<1>1. ASSUME NEW e \in Employee PROVE ManagerAt(timeline'[e], d) = ManagerAt(timeline[e], d)
  <2>1. today \in Day
    BY DEF TypeOK
  <2>2. \/ timeline'[e] = timeline[e]
        \/ \E m \in ManagerOrNone : RowsMoved(e, m, today)
    <3>1. ASSUME NEW rows \in ImportFile, Import(rows)
          PROVE  \/ timeline'[e] = timeline[e]
                 \/ \E m \in ManagerOrNone : RowsMoved(e, m, today)
      BY <3>1, RowsOfImport
    <3>2. ASSUME NEW x \in Employee, NEW m \in ManagerOrNone, DeleteMovingReports(x, m)
          PROVE  \/ timeline'[e] = timeline[e]
                 \/ \E k \in ManagerOrNone : RowsMoved(e, k, today)
      BY <3>2 DEF DeleteMovingReports, RowsMoved
    <3> QED BY <3>1, <3>2
  <2> QED BY <2>1, <2>2, ManagerOfStep
<1> QED BY <1>1 DEF EdgesOn

\* Every step that closes a loop on a day cancels, hands reports on, or imports.
LEMMA LoopStep ==
    ASSUME TypeOK, TimelinesContiguous, CacheAcyclic, References, Next, NEW d \in Day,
           Acyclic(EdgesOn(timeline, d)), ~Acyclic(EdgesOn(timeline', d))
    PROVE  \/ \E e \in Employee : \E r \in timeline[e] : CancelScheduled(e, r) /\ InForce(r, d)
           \/ /\ d >= today
              /\ \/ \E x \in Employee : DeleteReparent(x)
                 \/ \E rows \in ImportFile : Import(rows)
              /\ d = today
                    => \A S \in SUBSET PresentEmployees' :
                           S # {} => \E x \in S : EdgesOn(timeline', d)[x] \notin S
<1>1. timeline' # timeline
  OBVIOUS
<1>2. ~NextDay /\ ~Sync /\ \A x \in Employee : ~DeleteCascade(x) /\ ~Restore(x)
  BY <1>1 DEF NextDay, Sync, DeleteCascade, Restore
<1>3. \A e \in Employee, m \in ManagerOrNone : ~Create(e, m)
  BY HireClosesNoLoop
<1>4. \A e \in Employee, m \in ManagerOrNone, f \in Day : ~Reassign(e, m, f)
  BY MoveClosesNoLoop
<1>5. \A x \in Employee : ~DeletePromoteToRoot(x)
  BY PromotionClosesNoLoop
<1>6. \/ \E e \in Employee : \E r \in timeline[e] : CancelScheduled(e, r)
      \/ \E x \in Employee : DeleteReparent(x)
      \/ \E rows \in ImportFile : Import(rows)
  BY <1>2, <1>3, <1>4, <1>5 DEF Next
<1>7. ASSUME NEW e \in Employee, NEW r \in timeline[e], CancelScheduled(e, r) PROVE InForce(r, d)
  BY <1>7, CancelKeepsOtherDays
<1>8. ASSUME \/ \E x \in Employee : DeleteReparent(x)
             \/ \E rows \in ImportFile : Import(rows)
      PROVE  d >= today /\ today' = today
  <2>1. \/ \E rows \in ImportFile : Import(rows)
        \/ \E x \in Employee, m \in ManagerOrNone : DeleteMovingReports(x, m)
    BY <1>8 DEF DeleteReparent, TypeOK, Structure
  <2>2. ~(d < today)
    BY <2>1, EarlierDaysKept
  <2>3. today' = today
    BY <2>1 DEF Import, DeleteMovingReports
  <2> QED BY <2>2, <2>3 DEF TypeOK
<1>9. ASSUME \/ \E x \in Employee : DeleteReparent(x)
             \/ \E rows \in ImportFile : Import(rows),
             d = today, NEW S \in SUBSET PresentEmployees', S # {}
      PROVE  \E x \in S : EdgesOn(timeline', d)[x] \notin S
  BY <1>2, <1>8, <1>9, LoopToday
<1> QED BY <1>6, <1>7, <1>8, <1>9

\* Checking a move on its own day and on the days on which anything changes
\* after it covers every day: a loop is closed only by what does not check so, by
\* taking a scheduled change back, by handing on the reports of somebody deleted
\* or by a file, and today only through somebody who has left.
THEOREM LoopsStayExplained == Spec => LoopsHaveACause
<1>1. Init => References
  BY DEF Init, References, Present, PresentEmployees
<1>2. Spec => []References
  BY <1>1, ReferencesInductive, TypeCorrect, PTL DEF Spec
<1>3. TypeOK /\ TimelinesContiguous /\ CacheAcyclic /\ References /\ [Next]_vars
        => [\A d \in Day :
              Acyclic(EdgesOn(timeline, d)) /\ ~Acyclic(EdgesOn(timeline', d))
                => \/ \E e \in Employee :
                          \E r \in timeline[e] : CancelScheduled(e, r) /\ InForce(r, d)
                   \/ /\ d >= today
                      /\ \/ \E x \in Employee : DeleteReparent(x)
                         \/ \E rows \in ImportFile : Import(rows)
                      /\ d = today
                            => \A S \in SUBSET PresentEmployees' :
                                   S # {} => \E x \in S : EdgesOn(timeline', d)[x] \notin S]_vars
  BY LoopStep
<1> QED BY <1>2, <1>3, TypeCorrect, TimelinesStayContiguous, CacheStaysAcyclic, PTL
        DEF Spec, LoopsHaveACause

-----------------------------------------------------------------------------
(* The refinement: each transaction on the rows is one change of the dated *)
(* chart, or none. *)

USE DEF Chart!Day

\* The chart the rows stand for.
RowsChart == [e \in Employee |-> [d \in Day |-> ManagerAt(timeline[e], d)]]

\* An id without an employee row was never deleted.
UnusedIds == \A e \in Employee : e \notin exists => deletedAt[e] = Horizon

ChartInv == TypeOK /\ TimelinesContiguous /\ CacheAcyclic /\ UnusedIds

\* Only people with a row are ever deleted.
LEMMA UnusedIdsInductive == TypeOK /\ UnusedIds /\ [Next]_vars => UnusedIds'
<1> SUFFICES ASSUME TypeOK, UnusedIds, [Next]_vars PROVE UnusedIds'
  OBVIOUS
<1> USE DEF TypeOK, UnusedIds
<1>1. CASE NextDay \/ Sync \/ UNCHANGED vars
  BY <1>1 DEF NextDay, Sync, vars
<1>2. ASSUME NEW e \in Employee, NEW m \in ManagerOrNone, Create(e, m) PROVE UnusedIds'
  BY <1>2 DEF Create
<1>3. ASSUME NEW e \in Employee, NEW m \in ManagerOrNone, NEW f \in Day, Reassign(e, m, f)
      PROVE  UnusedIds'
  BY <1>3 DEF Reassign
<1>4. ASSUME NEW e \in Employee, NEW r \in timeline[e], CancelScheduled(e, r) PROVE UnusedIds'
  BY <1>4 DEF CancelScheduled
<1>5. ASSUME NEW x \in Employee, DeleteReparent(x) \/ DeletePromoteToRoot(x) PROVE UnusedIds'
  BY <1>5 DEF DeleteReparent, DeletePromoteToRoot, DeleteMovingReports, SoftDeleted, Present
<1>6. ASSUME NEW x \in Employee, DeleteCascade(x) PROVE UnusedIds'
  BY <1>6 DEF DeleteCascade, SoftDeleted, CachedSubtree, PresentEmployees
<1>7. ASSUME NEW x \in Employee, Restore(x) PROVE UnusedIds'
  BY <1>7 DEF Restore
<1>8. ASSUME NEW rows \in ImportFile, Import(rows) PROVE UnusedIds'
  BY <1>8 DEF Import
<1> QED BY <1>1, <1>2, <1>3, <1>4, <1>5, <1>6, <1>7, <1>8 DEF Next

-----------------------------------------------------------------------------
(* From a change of rows to a change of the chart. *)

\* Giving S one manager in the rows from day f on gives it to them on the chart.
LEMMA SetEdgesOnChart ==
    ASSUME ChartInv, NEW S \in SUBSET Employee, NEW m \in ManagerOrNone, NEW f \in Day,
           \A e \in Employee : timeline'[e] = IF e \in S THEN SetEdge(timeline[e], m, f)
                                                         ELSE timeline[e]
    PROVE  Chart!FromDayOn(S, m, f)
<1>1. ASSUME NEW e \in Employee, NEW d \in Day
      PROVE  ManagerAt(timeline'[e], d) =
                 IF e \in S /\ d >= f THEN m ELSE ManagerAt(timeline[e], d)
  BY ManagerOfStep DEF ChartInv, RowsMoved
<1>2. RowsChart' = [e \in Employee |->
                       [d \in Day |-> IF e \in S /\ d >= f THEN m ELSE RowsChart[e][d]]]
  BY <1>1 DEF RowsChart
<1> QED BY <1>2 DEF Chart!FromDayOn, RowsChart

\* Cancelling a row takes the change of its days back on the chart.
LEMMA CancelOnChart ==
    ASSUME ChartInv, NEW c \in Employee, NEW r \in timeline[c], r.from > today,
           timeline' = [timeline EXCEPT ![c] = CancelRun(@, r)]
    PROVE  RowsChart' =
              [RowsChart EXCEPT ![c] =
                  [d \in Day |-> IF r.from <= d /\ d < r.to
                                 THEN RowsChart[c][r.from - 1] ELSE RowsChart[c][d]]]
<1>1. today \in Day /\ r.from \in Day /\ r.from - 1 \in Day
  BY DEF ChartInv, TypeOK, Run
<1>2. RowCancelled(c, r)
  BY DEF RowCancelled, ChartInv, TypeOK
<1>3. ASSUME NEW d \in Day
      PROVE  ManagerAt(timeline'[c], d) =
                 IF r.from <= d /\ d < r.to
                 THEN ManagerAt(timeline[c], r.from - 1) ELSE ManagerAt(timeline[c], d)
  BY <1>2, ManagerOfStep DEF ChartInv
<1>4. \A e \in Employee : e # c => timeline'[e] = timeline[e]
  BY DEF ChartInv, TypeOK
<1> DEFINE new == [d \in Day |-> IF r.from <= d /\ d < r.to
                                 THEN RowsChart[c][r.from - 1] ELSE RowsChart[c][d]]
<1>5. [d \in Day |-> ManagerAt(timeline'[c], d)] = new
  BY <1>1, <1>3 DEF RowsChart
<1>6. ASSUME NEW e \in Employee
      PROVE  [d \in Day |-> ManagerAt(timeline'[e], d)] = IF e = c THEN new ELSE RowsChart[e]
  BY <1>4, <1>5 DEF RowsChart
<1> HIDE DEF new
<1>7. RowsChart' = [e \in Employee |-> IF e = c THEN new ELSE RowsChart[e]]
  BY <1>6 DEF RowsChart
<1> QED BY <1>7 DEF RowsChart, new

-----------------------------------------------------------------------------
(* The operations, one by one. *)

\* The migrated tables are a chart that is the same on every day.
LEMMA ChartInitial == Init => Chart!Init
<1> SUFFICES ASSUME Init PROVE Chart!Init
  OBVIOUS
<1> DEFINE g == [e \in Employee |-> IF Present(e) THEN manager[e] ELSE NoManager]
<1>1. g \in [Employee -> Employee \cup {NoManager}]
  BY DEF Init, Structure, ManagerOrNone
<1>2. ASSUME NEW e \in Employee, NEW d \in Day PROVE ManagerAt(timeline[e], d) = g[e]
  <2>1. CASE Present(e)
    <3> DEFINE row == [mgr |-> manager[e], from |-> 0, to |-> Horizon]
    <3>1. timeline[e] = {row} /\ row \in Run
      BY <2>1 DEF Init, Run, Structure
    <3>2. NoOverlap({row}) /\ InForce(row, d)
      BY DEF NoOverlap, InForce
    <3> QED BY <2>1, <3>1, <3>2, ManagerOfRun
  <2>2. CASE ~Present(e)
    BY <2>2 DEF Init, ManagerAt, HasRunAt
  <2> QED BY <2>1, <2>2
<1> HIDE DEF g
<1>3. [e \in Employee |-> [d \in Day |-> ManagerAt(timeline[e], d)]]
         = [e \in Employee |-> [d \in Day |-> g[e]]]
  BY <1>2
<1> QED BY <1>1, <1>3 DEF Chart!Init, Chart!Day, Init, PresentEmployees

\* create hires, restore brings back, and neither moves anybody else.
LEMMA StaffStep ==
    ASSUME ChartInv, NEW e \in Employee
    PROVE  /\ \A m \in ManagerOrNone : Create(e, m) => Chart!Hire(e, m)
           /\ Restore(e) => Chart!Return(e)
<1> USE DEF ChartInv, TypeOK
<1>1. ASSUME NEW m \in ManagerOrNone, Create(e, m) PROVE Chart!Hire(e, m)
  <2>1. \A x \in Employee : timeline'[x] = IF x \in {e} THEN SetEdge(timeline[x], m, today)
                                                      ELSE timeline[x]
    BY <1>1 DEF Create
  <2>3. Chart!FromDayOn({e}, m, today)
    BY <2>1, SetEdgesOnChart
  <2>2. e \notin PresentEmployees /\ PresentEmployees' = PresentEmployees \cup {e}
    BY <1>1 DEF Create, PresentEmployees, UnusedIds
  <2> QED BY <1>1, <2>2, <2>3 DEF Chart!Hire, Create
<1>2. ASSUME Restore(e) PROVE Chart!Return(e)
  BY <1>2 DEF Restore, Chart!Return, Chart!Day, PresentEmployees, Present
<1> QED BY <1>1, <1>2

\* reassign moves, cancel_scheduled withdraws.
LEMMA ChangeStep ==
    ASSUME ChartInv, NEW e \in Employee
    PROVE  /\ \A m \in ManagerOrNone, f \in Day : Reassign(e, m, f) => Chart!Move(e, m, f)
           /\ \A r \in timeline[e] : CancelScheduled(e, r) => Chart!Withdraw(e, r.from, r.to)
<1> USE DEF ChartInv, TypeOK
<1>1. ASSUME NEW m \in ManagerOrNone, NEW f \in Day, Reassign(e, m, f) PROVE Chart!Move(e, m, f)
  <2>1. \A x \in Employee : timeline'[x] = IF x \in {e} THEN SetEdge(timeline[x], m, f)
                                                      ELSE timeline[x]
    BY <1>1 DEF Reassign
  <2>3. Chart!FromDayOn({e}, m, f)
    BY <2>1, SetEdgesOnChart
  <2>2. /\ e \in PresentEmployees /\ m \in PresentEmployees \cup {NoManager}
        /\ PresentEmployees' = PresentEmployees /\ today' = today
    BY <1>1 DEF Reassign, PresentEmployees, Present, ManagerOrNone
  <2> QED BY <2>2, <2>3 DEF Chart!Move
<1>2. ASSUME NEW r \in timeline[e], CancelScheduled(e, r) PROVE Chart!Withdraw(e, r.from, r.to)
  <2>1. today < r.from /\ r.from < r.to
    BY <1>2 DEF CancelScheduled, TimelinesContiguous, Contiguous, RangesOK, Run
  <2>2. RowsChart' =
          [RowsChart EXCEPT ![e] =
              [d \in Day |-> IF r.from <= d /\ d < r.to
                             THEN RowsChart[e][r.from - 1] ELSE RowsChart[e][d]]]
    BY <1>2, CancelOnChart DEF CancelScheduled
  <2>3. PresentEmployees' = PresentEmployees /\ today' = today
    BY <1>2 DEF CancelScheduled, PresentEmployees
  <2> QED BY <2>1, <2>2, <2>3 DEF Chart!Withdraw, Chart!Day, RowsChart
<1> QED BY <1>1, <1>2

\* A deletion that moves the reports is somebody leaving with them handed on.
LEMMA LeaveStep ==
    ASSUME ChartInv, NEW x \in Employee, NEW m \in ManagerOrNone, DeleteMovingReports(x, m)
    PROVE  Chart!Leave(x, DirectReports(x), m)
<1> USE DEF ChartInv, TypeOK
<1>1. manager[x] # x
  <2>1. \E y \in {x} : manager[y] \notin {x}
    BY DEF CacheAcyclic, Acyclic
  <2> QED BY <2>1
<1>2. x \in PresentEmployees /\ DirectReports(x) \in SUBSET (PresentEmployees \ {x})
  BY <1>1 DEF DeleteMovingReports, Present, PresentEmployees, DirectReports
<1>3. PresentEmployees' = PresentEmployees \ {x}
  BY DEF DeleteMovingReports, SoftDeleted, PresentEmployees
<1>4. Chart!FromDayOn(DirectReports(x), m, today)
  <2>1. DirectReports(x) \in SUBSET Employee
    BY <1>2 DEF PresentEmployees
  <2>2. \A e \in Employee :
            timeline'[e] = IF e \in DirectReports(x) THEN SetEdge(timeline[e], m, today)
                                                    ELSE timeline[e]
    BY DEF DeleteMovingReports
  <2> QED BY <2>1, <2>2, SetEdgesOnChart
<1> QED BY <1>2, <1>3, <1>4 DEF Chart!Leave, DeleteMovingReports

\* A cascading deletion is a branch leaving, with nobody moved.
LEMMA CascadeStep ==
    ASSUME ChartInv, NEW x \in Employee, DeleteCascade(x)
    PROVE  Chart!LeaveTogether(CachedSubtree(x))
<1> USE DEF ChartInv, TypeOK
<1>1. x \in CachedSubtree(x) /\ CachedSubtree(x) \in SUBSET PresentEmployees
  BY DEF DeleteCascade, Present, PresentEmployees, CachedSubtree
<1> HIDE DEF CachedSubtree
<1>2. PresentEmployees' = PresentEmployees \ CachedSubtree(x)
  BY <1>1 DEF DeleteCascade, SoftDeleted, PresentEmployees
<1> QED BY <1>1, <1>2 DEF Chart!LeaveTogether, Chart!Day, DeleteCascade

\* A file hires those who are new and gives a manager to them and to those moved.
LEMMA LoadStep ==
    ASSUME ChartInv, NEW rows \in ImportFile, Import(rows)
    PROVE  \E T \in SUBSET Employee : Chart!Load(T)
<1> DEFINE T == MovedBy(rows) \cup (Named(rows) \ exists)
           g == [e \in T |-> Asked(rows, e)]
<1>1. T \in SUBSET Employee /\ T \subseteq Named(rows) /\ Named(rows) \in SUBSET Employee
  BY AskedType DEF MovedBy
<1>2. /\ Named(rows) \subseteq PresentEmployees \cup (Employee \ exists)
      /\ \A e \in Named(rows) :
             Asked(rows, e) \in Named(rows) \cup PresentEmployees \cup {NoManager}
  <2>1. ASSUME NEW e \in Named(rows)
        PROVE  /\ e \in PresentEmployees \cup (Employee \ exists)
               /\ Asked(rows, e) \in Named(rows) \cup PresentEmployees \cup {NoManager}
    <3>1. PICK i \in DOMAIN rows : rows[i].who = e
      BY DEF Named
    <3>2. /\ rows[i].who \in PresentEmployees \cup (Employee \ exists)
          /\ rows[i].to \in Named(rows) \cup PresentEmployees \cup {NoManager}
      BY DEF Import, Validated
    <3>3. Asked(rows, e) = rows[i].to
      BY <3>1, AskedType
    <3> QED BY <3>1, <3>2, <3>3
  <2> QED BY <2>1
<1>3. /\ PresentEmployees' = PresentEmployees \cup (Named(rows) \ exists)
      /\ PresentEmployees' = PresentEmployees \cup T
      /\ PresentEmployees' = PresentEmployees \cup Named(rows)
  <2>1. exists' = exists \cup (Named(rows) \ exists) /\ deletedAt' = deletedAt
    BY DEF Import
  <2>2. \A e \in Named(rows) \ exists : deletedAt[e] = Horizon
    BY <1>1 DEF ChartInv, UnusedIds
  <2>3. PresentEmployees' = PresentEmployees \cup (Named(rows) \ exists)
    BY <2>1, <2>2 DEF PresentEmployees
  <2>4. MovedBy(rows) \subseteq Named(rows) /\ PresentEmployees \subseteq exists
    BY DEF MovedBy, PresentEmployees
  <2> QED BY <1>2, <2>3, <2>4
<1>4. g \in [T -> PresentEmployees' \cup {NoManager}]
  BY <1>1, <1>2, <1>3
<1>5. ASSUME NEW e \in Employee, NEW d \in Day
      PROVE  ManagerAt(timeline'[e], d) =
                 IF e \in T /\ d >= today THEN g[e] ELSE ManagerAt(timeline[e], d)
  <2>1. IF e \in T THEN Asked(rows, e) \in ManagerOrNone /\ RowsMoved(e, Asked(rows, e), today)
        ELSE timeline'[e] = timeline[e]
    BY RowsOfImport DEF ChartInv
  <2>2. today \in Day
    BY DEF ChartInv, TypeOK
  <2> HIDE DEF T
  <2>3. e \in T => g[e] = Asked(rows, e)
    OBVIOUS
  <2> HIDE DEF g
  <2> QED BY <2>1, <2>2, <2>3, ManagerOfStep DEF ChartInv
<1> HIDE DEF T, g
<1>6. RowsChart' = [e \in Employee |->
                       [d \in Day |-> IF e \in T /\ d >= today THEN g[e] ELSE RowsChart[e][d]]]
  BY <1>5 DEF RowsChart
<1>7. today' = today
  BY DEF Import
<1>8. Chart!Load(T)
  BY <1>3, <1>4, <1>6, <1>7 DEF Chart!Load, RowsChart
<1> QED BY <1>1, <1>8

\* Every transaction is a change of the chart, or leaves it as it is.
LEMMA ChartStep == ChartInv /\ [Next]_vars => [Chart!Next]_(Chart!vars)
<1> SUFFICES ASSUME ChartInv, [Next]_vars PROVE [Chart!Next]_(Chart!vars)
  OBVIOUS
<1> USE DEF Chart!Next
<1>1. CASE NextDay
  BY <1>1 DEF NextDay, Chart!Tick, Chart!Day, PresentEmployees
<1>2. CASE Sync \/ UNCHANGED vars
  BY <1>2 DEF Sync, vars, Chart!vars, Chart!Day, PresentEmployees
<1>3. ASSUME NEW e \in Employee, NEW m \in ManagerOrNone, Create(e, m) PROVE Chart!Next
  BY <1>3, StaffStep DEF ManagerOrNone
<1>4. ASSUME NEW e \in Employee, Restore(e) PROVE Chart!Next
  BY <1>4, StaffStep
<1>5. ASSUME NEW e \in Employee, NEW m \in ManagerOrNone, NEW f \in Day, Reassign(e, m, f)
      PROVE  Chart!Next
  BY <1>5, ChangeStep DEF ManagerOrNone, Chart!Day
<1>6. ASSUME NEW e \in Employee, NEW r \in timeline[e], CancelScheduled(e, r) PROVE Chart!Next
  <2>1. r.from \in Day /\ r.to \in 1 .. Horizon
    BY DEF ChartInv, TypeOK, Run
  <2> QED BY <1>6, <2>1, ChangeStep DEF Chart!Day
<1>7. ASSUME NEW x \in Employee, DeleteReparent(x) \/ DeletePromoteToRoot(x) PROVE Chart!Next
  <2>1. PICK m \in ManagerOrNone : DeleteMovingReports(x, m)
    BY <1>7 DEF DeleteReparent, DeletePromoteToRoot, ChartInv, TypeOK, Structure, ManagerOrNone
  <2>2. DirectReports(x) \in SUBSET Employee
    BY DEF DirectReports, PresentEmployees, ChartInv, TypeOK
  <2> QED BY <2>1, <2>2, LeaveStep DEF ManagerOrNone
<1>8. ASSUME NEW x \in Employee, DeleteCascade(x) PROVE Chart!Next
  <2>1. CachedSubtree(x) \in SUBSET Employee
    BY DEF CachedSubtree, PresentEmployees, ChartInv, TypeOK
  <2> QED BY <1>8, <2>1, CascadeStep
<1>9. ASSUME NEW rows \in ImportFile, Import(rows) PROVE Chart!Next
  BY <1>9, LoadStep
<1> QED BY <1>1, <1>2, <1>3, <1>4, <1>5, <1>6, <1>7, <1>8, <1>9 DEF Next

\* The rows, with all that is split, dropped and joined in them, implement the
\* dated chart.
THEOREM RowsImplementChart == Spec => ImplementsChart
<1>1. Init => UnusedIds
  BY DEF Init, UnusedIds
<1>2. Spec => []UnusedIds
  BY <1>1, UnusedIdsInductive, TypeCorrect, PTL DEF Spec
<1>3. Spec => []ChartInv
  BY <1>2, TypeCorrect, TimelinesStayContiguous, CacheStaysAcyclic, PTL DEF ChartInv
<1> QED BY <1>3, ChartInitial, ChartStep, PTL DEF Spec, ImplementsChart, Chart!Spec
=============================================================================
