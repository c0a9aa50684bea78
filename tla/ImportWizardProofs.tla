------------------------- MODULE ImportWizardProofs -------------------------
(***************************************************************************)
(* Proofs about ImportWizard, for any number of employees, any tables, any *)
(* file and any commits of others between the statements: that a table     *)
(* printed as CSV is read back by the page; what a commit leaves written;  *)
(* why rows that pass are refused on the way; and that the marks on the    *)
(* page stay on its rows.                                                  *)
(*                                                                         *)
(* What holds of the transaction is said in three parts: its Shape, how    *)
(* far it is and of what its rows are; Filed, what of the file stands in   *)
(* the rows that are written; and Quiet, what is known besides where       *)
(* nobody else writes and nothing is due.                                  *)
(***************************************************************************)
EXTENDS ImportWizard, FiniteSetTheorems, SequenceTheorems, WellFoundedInduction, TLAPS

-----------------------------------------------------------------------------
(* One row after another. *)

\* What holds before the first row and after a row if it held before it holds
\* after all: otherwise there would be a first row after which it does not.
LEMMA RowAfterRow ==
    ASSUME NEW n \in Nat, NEW P \in SUBSET (0 .. n), 0 \in P,
           \A i \in 1 .. n : i - 1 \in P => i \in P
    PROVE  P = 0 .. n
<1> SUFFICES ASSUME P # 0 .. n PROVE FALSE
  OBVIOUS
<1> DEFINE R == StrictSubsetOrdering(0 .. n)
           Heads == {0 .. i : i \in (0 .. n) \ P}
<1>1. IsWellFoundedOn(R, SUBSET (0 .. n))
  <2>1. IsFiniteSet(0 .. n) /\ 0 \in Int /\ n \in Int
    BY FS_Interval
  <2>2. FiniteSubsetsOf(0 .. n) = SUBSET (0 .. n)
    BY <2>1, FS_FiniteSubsetsOfFinite
  <2>3. IsWellFoundedOn(R, FiniteSubsetsOf(0 .. n))
    BY FS_StrictSubsetOrderingWellFounded
  <2> HIDE DEF R
  <2> QED BY <2>2, <2>3
<1>2. Heads \subseteq SUBSET (0 .. n) /\ Heads # {}
  <2>1. \A i \in 0 .. n : 0 .. i \subseteq 0 .. n
    OBVIOUS
  <2> QED BY <2>1
<1>3. PICK T \in Heads : \A U \in Heads : <<U, T>> \notin R
  <2> HIDE DEF Heads, R
  <2> QED BY <1>1, <1>2, WFMin
<1>4. PICK i \in (0 .. n) \ P : T = 0 .. i
  BY <1>3
<1>5. i \in 1 .. n /\ i - 1 \in (0 .. n) \ P
  BY <1>4
<1>6. 0 .. (i - 1) \in Heads
  BY <1>5
<1>7. <<0 .. (i - 1), T>> \in R
  <2>1. 0 .. (i - 1) \subseteq 0 .. i /\ i \in 0 .. i /\ i \notin 0 .. (i - 1)
    BY <1>5
  <2>2. 0 .. (i - 1) \in SUBSET (0 .. n) /\ T \in SUBSET (0 .. n) /\ 0 .. (i - 1) # T
    BY <1>4, <2>1
  <2> QED BY <1>4, <2>1, <2>2 DEF StrictSubsetOrdering
<1> QED BY <1>3, <1>6, <1>7

-----------------------------------------------------------------------------
(* Functions by steps. *)

\* A step for every number from 1 to n, and the function that goes by it.
Goes(step, n, V) == step \in [(1 .. n) \X V -> V]
Follows(f, n, V, c, step) ==
    f \in [0 .. n -> V] /\ f[0] = c /\ \A i \in 1 .. n : f[i] = step[<<i, f[i - 1]>>]

\* A function that is given for 0 and from one number to the next exists.
LEMMA Iterates ==
    ASSUME NEW n \in Nat, NEW V, NEW c \in V, NEW step, Goes(step, n, V)
    PROVE  \E f : Follows(f, n, V, c, step)
<1>0. step \in [(1 .. n) \X V -> V]
  BY DEF Goes
<1> DEFINE Up(f, k) == f[0] = c /\ \A i \in 1 .. k : f[i] = step[<<i, f[i - 1]>>]
           P == {k \in 0 .. n : \E f \in [0 .. n -> V] : Up(f, k)}
<1>1. 0 \in P
  <2>1. [i \in 0 .. n |-> c] \in [0 .. n -> V] /\ Up([i \in 0 .. n |-> c], 0)
    OBVIOUS
  <2> HIDE DEF Up
  <2> QED BY <2>1
<1>2. ASSUME NEW k \in 1 .. n, k - 1 \in P PROVE k \in P
  <2>1. PICK f \in [0 .. n -> V] : Up(f, k - 1)
    BY <1>2
  <2> DEFINE g == [f EXCEPT ![k] = step[<<k, f[k - 1]>>]]
  <2>2. f[k - 1] \in V /\ <<k, f[k - 1]>> \in (1 .. n) \X V
    BY <1>2
  <2>3. g \in [0 .. n -> V]
    BY <1>0, <2>2
  <2>4. /\ g[k] = step[<<k, f[k - 1]>>]
        /\ \A i \in 0 .. n : i # k => g[i] = f[i]
    BY <2>1
  <2> HIDE DEF g
  <2>5. ASSUME NEW i \in 1 .. k PROVE g[i] = step[<<i, g[i - 1]>>]
    <3>1. g[i - 1] = f[i - 1] /\ i - 1 # k
      BY <2>4
    <3>2. CASE i = k
      BY <2>4, <3>1, <3>2
    <3>3. CASE i # k
      <4>1. i \in 1 .. (k - 1) /\ g[i] = f[i]
        BY <2>4, <3>3
      <4> QED BY <2>1, <3>1, <4>1
    <3> QED BY <3>2, <3>3
  <2>6. g[0] = c
    BY <2>1, <2>4
  <2>7. Up(g, k)
    BY <2>5, <2>6
  <2> HIDE DEF Up
  <2> QED BY <2>3, <2>7
<1>3. P = 0 .. n
  <2>1. P \in SUBSET (0 .. n)
    OBVIOUS
  <2> HIDE DEF P
  <2> QED BY <1>1, <1>2, <2>1, RowAfterRow
<1>4. n \in P
  <2> HIDE DEF P
  <2> QED BY <1>3
<1>5. PICK f \in [0 .. n -> V] : Up(f, n)
  BY <1>4
<1> QED BY <1>5 DEF Follows

-----------------------------------------------------------------------------
(* Pieces of text. *)

Text == Seq(Char)

\* The piece u stands in text t after its first p characters.
Has(t, p, u) == p + Len(u) <= Len(t) /\ \A k \in 1 .. Len(u) : t[p + k] = u[k]

\* Where two pieces stand one after the other, each of them stands.
LEMMA HasParts ==
    ASSUME NEW t \in Text, NEW p \in Nat, NEW u \in Text, NEW v \in Text, Has(t, p, u \o v)
    PROVE  Has(t, p, u) /\ Has(t, p + Len(u), v)
<1>1. /\ Len(u \o v) = Len(u) + Len(v)
      /\ \A k \in 1 .. Len(u) : (u \o v)[k] = u[k]
      /\ \A k \in 1 .. Len(v) : (u \o v)[Len(u) + k] = v[k]
  OBVIOUS
<1>2. Len(u) \in Nat /\ Len(v) \in Nat /\ Len(t) \in Nat
  OBVIOUS
<1>3. p + Len(u) + Len(v) <= Len(t) /\ \A k \in 1 .. Len(u) + Len(v) : t[p + k] = (u \o v)[k]
  BY <1>1, <1>2 DEF Has
<1>4. \A k \in 1 .. Len(u) : k \in 1 .. Len(u) + Len(v) /\ t[p + k] = u[k]
  BY <1>1, <1>2, <1>3
<1>5. ASSUME NEW k \in 1 .. Len(v) PROVE t[(p + Len(u)) + k] = v[k]
  <2>1. Len(u) + k \in 1 .. Len(u) + Len(v)
    BY <1>2
  <2>2. t[p + (Len(u) + k)] = v[k]
    BY <1>1, <1>3, <2>1
  <2>3. p + (Len(u) + k) = (p + Len(u)) + k
    BY <1>2
  <2> QED BY <2>2, <2>3
<1> QED BY <1>2, <1>3, <1>4, <1>5 DEF Has

\* Where a piece stands, what it begins with stands.
LEMMA HasWithin ==
    ASSUME NEW t \in Text, NEW p \in Nat, NEW u \in Text, NEW v \in Text,
           Has(t, p, u), Has(u, 0, v)
    PROVE  Has(t, p, v)
<1>1. Len(u) \in Nat /\ Len(v) \in Nat /\ Len(t) \in Nat
  OBVIOUS
<1>2. Len(v) <= Len(u) /\ \A k \in 1 .. Len(v) : u[k] = v[k]
  BY <1>1 DEF Has
<1> QED BY <1>1, <1>2 DEF Has

\* What is lengthened piece by piece begins with every stage of it.
LEMMA StagesAreThere ==
    ASSUME NEW n \in Nat, NEW f \in [0 .. n -> Text],
           \A i \in 1 .. n : \E u \in Text : f[i] = f[i - 1] \o u
    PROVE  \A j \in 0 .. n : \A k \in 0 .. j : Has(f[j], 0, f[k])
<1> DEFINE P == {j \in 0 .. n : \A k \in 0 .. j : Has(f[j], 0, f[k])}
<1>1. 0 \in P
  <2>1. Has(f[0], 0, f[0])
    BY DEF Has
  <2> QED BY <2>1
<1>2. ASSUME NEW j \in 1 .. n, j - 1 \in P PROVE j \in P
  <2>1. PICK u \in Text : f[j] = f[j - 1] \o u
    OBVIOUS
  <2>2. f[j] \in Text /\ f[j - 1] \in Text
    OBVIOUS
  <2>3. Has(f[j], 0, f[j])
    BY <2>2 DEF Has
  <2>4. Has(f[j], 0, f[j - 1])
    BY <2>1, <2>2, <2>3, HasParts
  <2>5. ASSUME NEW k \in 0 .. (j - 1) PROVE Has(f[j], 0, f[k])
    <3>1. Has(f[j - 1], 0, f[k]) /\ f[k] \in Text
      BY <1>2
    <3> QED BY <2>2, <2>4, <3>1, HasWithin
  <2>6. j \in 0 .. n /\ \A k \in 0 .. j : k = j \/ k \in 0 .. (j - 1)
    OBVIOUS
  <2>7. \A k \in 0 .. j : Has(f[j], 0, f[k])
    BY <2>3, <2>5, <2>6
  <2> QED BY <2>6, <2>7
<1>3. P = 0 .. n
  <2>1. P \in SUBSET (0 .. n)
    OBVIOUS
  <2> HIDE DEF P
  <2> QED BY <1>1, <1>2, <2>1, RowAfterRow
<1> QED BY <1>3

-----------------------------------------------------------------------------
(* The scanner. *)

State == [rows : Seq(Seq(Text)), row : Seq(Text), field : Text, quoted : BOOLEAN, skip : BOOLEAN]

\* The states of the scanner as it goes through a text.
Scanning(text, f) ==
    /\ f \in [0 .. Len(text) -> State]
    /\ f[0] = Start
    /\ \A i \in 1 .. Len(text) : f[i] = Scan(text, i, f[i - 1])

\* A state by its parts: outside quotes and within.
StateOf(r, w, c, q, k) == [rows |-> r, row |-> w, field |-> c, quoted |-> q, skip |-> k]
Outside(r, w, c) == StateOf(r, w, c, FALSE, FALSE)
Inside(r, w, c) == StateOf(r, w, c, TRUE, FALSE)

\* The characters that count are different ones.
LEMMA CharsDiffer ==
    /\ Quote # Comma /\ Quote # Newline /\ Quote # Return /\ Comma # Newline /\ Comma # Return
    /\ Newline # Return
    /\ Quote \in Char /\ Comma \in Char /\ Newline \in Char /\ "a" \in Char
    /\ "a" \notin {Quote, Comma, Newline, Return, Blank}
    /\ "end" \notin Char
BY DEF Quote, Comma, Newline, Return, Blank, Char

\* A record is what its fields are.
LEMMA ByParts ==
    ASSUME NEW R, NEW W, NEW C, NEW Q, NEW K,
           NEW s \in [rows : R, row : W, field : C, quoted : Q, skip : K]
    PROVE  s = StateOf(s.rows, s.row, s.field, s.quoted, s.skip)
BY DEF StateOf

\* EndField and EndRow by the parts of the state.
LEMMA Ends ==
    ASSUME NEW r, NEW w, NEW c, NEW q, NEW k
    PROVE  /\ EndField(StateOf(r, w, c, q, k)) = StateOf(r, Append(w, c), <<>>, q, k)
           /\ EndRow(StateOf(r, w, c, q, k)) = StateOf(Append(r, Append(w, c)), <<>>, <<>>, q, k)
<1>1. \A w1, c1 : EndField(StateOf(r, w1, c1, q, k)) = StateOf(r, Append(w1, c1), <<>>, q, k)
  <2> TAKE w1, c1
  <2> DEFINE s == StateOf(r, w1, c1, q, k)
             e == [s EXCEPT !.row = Append(@, s.field), !.field = <<>>]
  <2>1. e.row = Append(w1, c1) /\ e.field = <<>> /\ e.rows = r /\ e.quoted = q /\ e.skip = k
    BY DEF StateOf
  <2>2. e \in [rows : {r}, row : {w1, Append(w1, c1)}, field : {<<>>, c1}, quoted : {q}, skip : {k}]
    BY DEF StateOf
  <2>3. EndField(s) = e
    BY DEF EndField
  <2> HIDE DEF e
  <2>4. e = StateOf(e.rows, e.row, e.field, e.quoted, e.skip)
    BY <2>2, ByParts
  <2> QED BY <2>1, <2>3, <2>4
<1> DEFINE t == StateOf(r, Append(w, c), <<>>, q, k)
           e == [t EXCEPT !.rows = Append(@, t.row), !.row = <<>>]
<1>2. /\ e.rows = Append(r, Append(w, c)) /\ e.row = <<>> /\ e.field = <<>>
      /\ e.quoted = q /\ e.skip = k
  BY DEF StateOf
<1>3. e \in [rows : {r, Append(r, Append(w, c))}, row : {<<>>, Append(w, c)}, field : {<<>>},
             quoted : {q}, skip : {k}]
  BY DEF StateOf
<1>4. EndField(StateOf(r, w, c, q, k)) = t
  BY <1>1
<1>5. EndRow(StateOf(r, w, c, q, k)) = e
  BY <1>4 DEF EndRow
<1> HIDE DEF e
<1>6. e = StateOf(e.rows, e.row, e.field, e.quoted, e.skip)
  BY <1>3, ByParts
<1> QED BY <1>1, <1>2, <1>5, <1>6

\* One part changed.
LEMMA FieldGrows ==
    ASSUME NEW r, NEW w, NEW c, NEW q, NEW k, NEW x
    PROVE  [StateOf(r, w, c, q, k) EXCEPT !.field = Append(@, x)] = StateOf(r, w, Append(c, x), q, k)
BY DEF StateOf

\* One part changed.
LEMMA QuotedSet ==
    ASSUME NEW r, NEW w, NEW c, NEW q, NEW k, NEW p
    PROVE  [StateOf(r, w, c, q, k) EXCEPT !.quoted = p] = StateOf(r, w, c, p, k)
BY DEF StateOf

\* One part changed.
LEMMA SkipSet ==
    ASSUME NEW r, NEW w, NEW c, NEW q, NEW k, NEW p
    PROVE  [StateOf(r, w, c, q, k) EXCEPT !.skip = p] = StateOf(r, w, c, q, p)
BY DEF StateOf

\* What the scanner does with a character, by the parts of its state.
ByCharacter(text, i, r, w, c) ==
    LET x == text[i]
        y == At(text, i + 1)
    IN  /\ \A q : Scan(text, i, StateOf(r, w, c, q, TRUE)) = StateOf(r, w, c, q, FALSE)
        /\ x # Quote => Scan(text, i, Inside(r, w, c)) = Inside(r, w, Append(c, x))
        /\ x = Quote /\ y = Quote =>
              Scan(text, i, Inside(r, w, c)) = StateOf(r, w, Append(c, x), TRUE, TRUE)
        /\ x = Quote /\ y # Quote => Scan(text, i, Inside(r, w, c)) = Outside(r, w, c)
        /\ x = Quote => Scan(text, i, Outside(r, w, c)) = Inside(r, w, c)
        /\ x = Comma => Scan(text, i, Outside(r, w, c)) = Outside(r, Append(w, c), <<>>)
        /\ x \in {Newline, Return} =>
              Scan(text, i, Outside(r, w, c)) =
                 StateOf(Append(r, Append(w, c)), <<>>, <<>>, FALSE, x = Return /\ y = Newline)
        /\ x \notin {Quote, Comma, Newline, Return} =>
              Scan(text, i, Outside(r, w, c)) = Outside(r, w, Append(c, x))

\* It is what the scanner of the model does.
LEMMA ScanParts ==
    ASSUME NEW text, NEW i, NEW r, NEW w, NEW c
    PROVE  ByCharacter(text, i, r, w, c)
<1>0. SUFFICES ASSUME NEW T, NEW F, T = TRUE, F = FALSE PROVE ByCharacter(text, i, r, w, c)
  BY Zenon
<1> DEFINE x == text[i]
           y == At(text, i + 1)
           b == x = Return /\ y = Newline
           out == StateOf(r, w, c, F, F)
           in == StateOf(r, w, c, T, F)
           row == StateOf(Append(r, Append(w, c)), <<>>, <<>>, F, F)
<1>1. out = Outside(r, w, c) /\ in = Inside(r, w, c)
  BY <1>0, Zenon DEF Outside, Inside
<1>2. out.skip = F /\ out.quoted = F /\ in.skip = F /\ in.quoted = T
  BY DEF StateOf
<1>3. ASSUME NEW q PROVE Scan(text, i, StateOf(r, w, c, q, TRUE)) = StateOf(r, w, c, q, FALSE)
  <2> DEFINE s == StateOf(r, w, c, q, T)
  <2>1. s.skip = T /\ [s EXCEPT !.skip = F] = StateOf(r, w, c, q, F)
    BY DEF StateOf
  <2> HIDE DEF s
  <2>2. Scan(text, i, s) = [s EXCEPT !.skip = FALSE]
    BY <1>0, <2>1 DEF Scan
  <2>3. Scan(text, i, s) = StateOf(r, w, c, q, F)
    BY <1>0, <2>1, <2>2, Zenon
  <2> QED BY <1>0, <2>3, Zenon DEF s
<1>4. /\ x # Quote => Scan(text, i, in) = StateOf(r, w, Append(c, x), T, F)
      /\ x = Quote /\ y = Quote => Scan(text, i, in) = StateOf(r, w, Append(c, x), T, T)
      /\ x = Quote /\ y # Quote => Scan(text, i, in) = out
  <2> DEFINE took == [in EXCEPT !.field = Append(@, x)]
  <2>1. took = StateOf(r, w, Append(c, x), T, F) /\ [in EXCEPT !.quoted = F] = out
    BY FieldGrows, QuotedSet
  <2>2. [StateOf(r, w, Append(c, x), T, F) EXCEPT !.skip = T] = StateOf(r, w, Append(c, x), T, T)
    BY SkipSet
  <2> HIDE DEF out, in
  <2>3. /\ x # Quote => Scan(text, i, in) = took
        /\ x = Quote /\ y = Quote => Scan(text, i, in) = [took EXCEPT !.skip = TRUE]
        /\ x = Quote /\ y # Quote => Scan(text, i, in) = [in EXCEPT !.quoted = FALSE]
    BY <1>0, <1>2 DEF Scan
  <2> HIDE DEF took
  <2>4. /\ [took EXCEPT !.skip = TRUE] = StateOf(r, w, Append(c, x), T, T)
        /\ [in EXCEPT !.quoted = FALSE] = out
    BY <1>0, <2>1, <2>2, Zenon
  <2> QED BY <2>1, <2>3, <2>4, Zenon
<1>5. /\ x = Quote => Scan(text, i, out) = in
      /\ x \notin {Quote, Comma, Newline, Return} =>
            Scan(text, i, out) = StateOf(r, w, Append(c, x), F, F)
  <2> DEFINE took == [out EXCEPT !.field = Append(@, x)]
  <2>1. took = StateOf(r, w, Append(c, x), F, F) /\ [out EXCEPT !.quoted = T] = in
    BY FieldGrows, QuotedSet
  <2> HIDE DEF out, in
  <2>2. /\ x = Quote => Scan(text, i, out) = [out EXCEPT !.quoted = TRUE]
        /\ x \notin {Quote, Comma, Newline, Return} => Scan(text, i, out) = took
    BY <1>0, <1>2, CharsDiffer DEF Scan
  <2> HIDE DEF took
  <2>3. [out EXCEPT !.quoted = TRUE] = in
    BY <1>0, <2>1, Zenon
  <2> QED BY <2>1, <2>2, <2>3, Zenon
<1>6. /\ x = Comma => Scan(text, i, out) = StateOf(r, Append(w, c), <<>>, F, F)
      /\ x \in {Newline, Return} =>
            Scan(text, i, out) = StateOf(Append(r, Append(w, c)), <<>>, <<>>, F, b)
  <2>1. /\ EndField(out) = StateOf(r, Append(w, c), <<>>, F, F)
        /\ EndRow(out) = row
    BY Ends
  <2>2. ASSUME NEW k PROVE [row EXCEPT !.skip = k] = StateOf(Append(r, Append(w, c)), <<>>, <<>>, F, k)
    BY SkipSet
  <2> HIDE DEF out, row
  <2>3. /\ x = Comma => Scan(text, i, out) = EndField(out)
        /\ x \in {Newline, Return} => Scan(text, i, out) = [EndRow(out) EXCEPT !.skip = b]
    BY <1>0, <1>2, CharsDiffer DEF Scan
  <2>4. ASSUME NEW k, k = b PROVE [row EXCEPT !.skip = b] = StateOf(Append(r, Append(w, c)), <<>>, <<>>, F, b)
    <3>1. [row EXCEPT !.skip = k] = StateOf(Append(r, Append(w, c)), <<>>, <<>>, F, k)
      BY <2>2
    <3> HIDE DEF b
    <3> QED BY <2>4, <3>1, Zenon
  <2>5. [row EXCEPT !.skip = b] = StateOf(Append(r, Append(w, c)), <<>>, <<>>, F, b)
    <3> HIDE DEF b
    <3> QED BY <2>4, Zenon
  <2> HIDE DEF b
  <2> QED BY <2>1, <2>3, <2>5, Zenon
<1> HIDE DEF out, in, row
<1> QED BY <1>0, <1>1, <1>3, <1>4, <1>5, <1>6, Zenon DEF ByCharacter, Outside, Inside

\* The scanner goes from state to state.
LEMMA ScanType ==
    ASSUME NEW text \in Text, NEW i \in 1 .. Len(text), NEW s \in State
    PROVE  Scan(text, i, s) \in State
<1> DEFINE x == text[i]
           y == At(text, i + 1)
           r == s.rows
           w == s.row
           c == s.field
<1>1. x \in Char
  BY DEF Text
<1>2. /\ r \in Seq(Seq(Text)) /\ w \in Seq(Text) /\ c \in Text
      /\ s.quoted \in BOOLEAN /\ s.skip \in BOOLEAN
      /\ s = StateOf(r, w, c, s.quoted, s.skip)
  BY ByParts DEF State
<1>3. /\ Append(c, x) \in Text /\ Append(w, c) \in Seq(Text)
      /\ Append(r, Append(w, c)) \in Seq(Seq(Text))
      /\ <<>> \in Text /\ <<>> \in Seq(Text)
  <2>1. Append(c, x) \in Text /\ <<>> \in Text
    BY <1>1, <1>2 DEF Text
  <2>2. \A v \in Seq(Text), u \in Text : Append(v, u) \in Seq(Text)
    OBVIOUS
  <2>3. \A v \in Seq(Seq(Text)), u \in Seq(Text) : Append(v, u) \in Seq(Seq(Text))
    OBVIOUS
  <2> QED BY <1>2, <2>1, <2>2, <2>3
<1>4. \A r1 \in Seq(Seq(Text)), w1 \in Seq(Text), c1 \in Text, q1, k1 \in BOOLEAN :
        StateOf(r1, w1, c1, q1, k1) \in State
  BY DEF StateOf, State
<1>5. (x = Return /\ y = Newline) \in BOOLEAN
  OBVIOUS
<1> HIDE DEF x, y, r, w, c
<1>6. ByCharacter(text, i, r, w, c)
  BY ScanParts
<1>7. CASE s.skip = TRUE
  <2>1. s = StateOf(r, w, c, s.quoted, TRUE)
    BY <1>2, <1>7, Zenon
  <2>2. Scan(text, i, s) = StateOf(r, w, c, s.quoted, FALSE)
    BY <1>6, <2>1, Zenon DEF ByCharacter
  <2> QED BY <1>2, <1>4, <2>2, Zenon
<1>8. CASE s.skip = FALSE /\ s.quoted = TRUE
  <2>1. s = Inside(r, w, c)
    BY <1>2, <1>8, Zenon DEF Inside
  <2>2. \/ Scan(text, i, s) = Inside(r, w, Append(c, x))
        \/ Scan(text, i, s) = StateOf(r, w, Append(c, x), TRUE, TRUE)
        \/ Scan(text, i, s) = Outside(r, w, c)
    BY <1>6, <2>1, Zenon DEF ByCharacter, x
  <2> QED BY <1>2, <1>3, <1>4, <2>2, Zenon DEF Inside, Outside
<1>9. CASE s.skip = FALSE /\ s.quoted = FALSE
  <2>1. s = Outside(r, w, c)
    BY <1>2, <1>9, Zenon DEF Outside
  <2>2. \/ Scan(text, i, s) = Inside(r, w, c)
        \/ Scan(text, i, s) = Outside(r, Append(w, c), <<>>)
        \/ Scan(text, i, s) = StateOf(Append(r, Append(w, c)), <<>>, <<>>, FALSE, x = Return /\ y = Newline)
        \/ Scan(text, i, s) = Outside(r, w, Append(c, x))
    BY <1>6, <2>1, Zenon DEF ByCharacter, x, y
  <2> QED BY <1>2, <1>3, <1>4, <1>5, <2>2, ZenonT(30) DEF Inside, Outside
<1> QED BY <1>2, <1>7, <1>8, <1>9, Zenon

\* Parsed is what the scanner has at the end.
LEMMA ParsedScan ==
    ASSUME NEW text \in Text
    PROVE  \E f : /\ Scanning(text, f)
                  /\ Parsed(text) =
                        LET s == f[Len(text)]
                        IN  IF s.field # <<>> \/ s.row # <<>> THEN EndRow(s).rows ELSE s.rows
<1> DEFINE N == Len(text)
           after[i \in 0 .. N] == IF i = 0 THEN Start ELSE Scan(text, i, after[i - 1])
           step == [p \in (1 .. N) \X State |-> Scan(text, p[1], p[2])]
<1>1. N \in Nat
  BY DEF Text
<1>2. step \in [(1 .. N) \X State -> State]
  BY ScanType
<1>3. Start \in State
  BY DEF Start, State, Text
<1>4. PICK f \in [0 .. N -> State] :
          f[0] = Start /\ \A i \in 1 .. N : f[i] = step[<<i, f[i - 1]>>]
  <2> HIDE DEF step, N
  <2>1. Goes(step, N, State)
    BY <1>2 DEF Goes
  <2>2. PICK f : Follows(f, N, State, Start, step)
    BY <1>1, <1>3, <2>1, Iterates
  <2> QED BY <2>2 DEF Follows
<1>6. \A i \in 1 .. N : f[i] = Scan(text, i, f[i - 1])
  <2> SUFFICES ASSUME NEW i \in 1 .. N PROVE f[i] = Scan(text, i, f[i - 1])
    OBVIOUS
  <2>1. f[i - 1] \in State
    BY <1>1
  <2>2. step[<<i, f[i - 1]>>] = Scan(text, i, f[i - 1])
    BY <2>1
  <2> HIDE DEF step
  <2> QED BY <1>4, <2>2
<1>7. \E h : h = [i \in 0 .. N |-> IF i = 0 THEN Start ELSE Scan(text, i, h[i - 1])]
  <2>1. f = [i \in 0 .. N |-> f[i]]
    OBVIOUS
  <2>2. \A i \in 0 .. N : i # 0 => i \in 1 .. N
    BY <1>1
  <2> HIDE DEF N
  <2>3. \A i \in 0 .. N : f[i] = IF i = 0 THEN Start ELSE Scan(text, i, f[i - 1])
    BY <1>4, <1>6, <2>2, Zenon
  <2>4. f = [i \in 0 .. N |-> IF i = 0 THEN Start ELSE Scan(text, i, f[i - 1])]
    BY <2>1, <2>3, Zenon
  <2> QED BY <2>4
<1>8. after = [i \in 0 .. N |-> IF i = 0 THEN Start ELSE Scan(text, i, after[i - 1])]
  BY <1>7, Zenon
<1>9. Parsed(text) = LET s == after[N]
                     IN  IF s.field # <<>> \/ s.row # <<>> THEN EndRow(s).rows ELSE s.rows
  BY DEF Parsed
<1> HIDE DEF after, step
<1>10. after = f
  <2> DEFINE P == {i \in 0 .. N : after[i] = f[i]}
  <2>1. 0 \in P
    BY <1>1, <1>4, <1>8
  <2>2. ASSUME NEW i \in 1 .. N, i - 1 \in P PROVE i \in P
    <3>1. after[i - 1] = f[i - 1] /\ i \in 0 .. N /\ i # 0
      BY <2>2
    <3>2. after[i] = Scan(text, i, after[i - 1])
      <4> HIDE DEF N
      <4> QED BY <1>8, <3>1
    <3> QED BY <1>6, <3>1, <3>2
  <2>3. P = 0 .. N
    <3>1. P \in SUBSET (0 .. N)
      OBVIOUS
    <3> HIDE DEF P, N
    <3> QED BY <1>1, <2>1, <2>2, <3>1, RowAfterRow
  <2>4. \A i \in 0 .. N : after[i] = f[i]
    BY <2>3
  <2>5. f = [i \in 0 .. N |-> f[i]]
    OBVIOUS
  <2> HIDE DEF N, P
  <2>6. after = [i \in 0 .. N |-> after[i]]
    BY <1>8, Zenon
  <2> QED BY <2>4, <2>5, <2>6, Zenon
<1>11. Scanning(text, f)
  BY <1>4, <1>6 DEF Scanning
<1> HIDE DEF N
<1> QED BY <1>9, <1>10, <1>11, Zenon DEF N

-----------------------------------------------------------------------------
(* Cells. *)

\* What is lengthened from c by one piece after the other.
Grown(f, n, c, u) ==
    /\ u \in [1 .. n -> Text] /\ f \in [0 .. n -> Text]
    /\ f[0] = c /\ \A i \in 1 .. n : f[i] = f[i - 1] \o u[i]

\* It exists.
LEMMA TextGrows ==
    ASSUME NEW n \in Nat, NEW c \in Text, NEW u \in [1 .. n -> Text]
    PROVE  \E f : Grown(f, n, c, u)
<1> DEFINE step == [p \in (1 .. n) \X Text |-> p[2] \o u[p[1]]]
<1>1. step \in [(1 .. n) \X Text -> Text]
  <2>1. \A p \in (1 .. n) \X Text : p[2] \in Text /\ u[p[1]] \in Text
    OBVIOUS
  <2>2. \A v, w \in Text : v \o w \in Text
    BY DEF Text
  <2> QED BY <2>1, <2>2
<1>2. \A i \in 1 .. n, v \in Text : step[<<i, v>>] = v \o u[i]
  OBVIOUS
<1> HIDE DEF step
<1>3. Goes(step, n, Text)
  BY <1>1 DEF Goes
<1>4. PICK f : Follows(f, n, Text, c, step)
  BY <1>3, Iterates
<1>5. f \in [0 .. n -> Text] /\ f[0] = c /\ \A i \in 1 .. n : f[i] = step[<<i, f[i - 1]>>]
  BY <1>4 DEF Follows
<1>6. \A i \in 1 .. n : f[i - 1] \in Text
  BY <1>5
<1>7. \A i \in 1 .. n : f[i] = f[i - 1] \o u[i]
  BY <1>2, <1>5, <1>6
<1> QED BY <1>5, <1>7 DEF Grown

\* There is one only.
LEMMA GrownIs ==
    ASSUME NEW n \in Nat, NEW c, NEW u, NEW f, Grown(f, n, c, u),
           NEW g, g = [i \in 0 .. n |-> g[i]], g[0] = c,
           \A i \in 1 .. n : g[i] = g[i - 1] \o u[i]
    PROVE  g = f
<1> DEFINE P == {i \in 0 .. n : g[i] = f[i]}
<1>1. f \in [0 .. n -> Text] /\ f[0] = c /\ \A i \in 1 .. n : f[i] = f[i - 1] \o u[i]
  BY DEF Grown
<1>2. 0 \in P
  BY <1>1
<1>3. ASSUME NEW i \in 1 .. n, i - 1 \in P PROVE i \in P
  <2>1. g[i - 1] = f[i - 1] /\ i \in 0 .. n
    BY <1>3
  <2> QED BY <1>1, <2>1
<1>4. P = 0 .. n
  <2>1. P \in SUBSET (0 .. n)
    OBVIOUS
  <2> HIDE DEF P
  <2> QED BY <1>2, <1>3, <2>1, RowAfterRow
<1>5. \A i \in 0 .. n : g[i] = f[i]
  BY <1>4
<1>6. f = [i \in 0 .. n |-> f[i]]
  BY <1>1
<1> HIDE DEF P
<1> QED BY <1>5, <1>6, Zenon

\* A character of a cell within quotes, and the cells that are quoted.
Twice(ch) == IF ch = Quote THEN <<Quote, Quote>> ELSE <<ch>>
Special(cell) == \E i \in DOMAIN cell : cell[i] \in {Quote, Comma, Newline, Return}
Pieces(cell) == [i \in 1 .. Len(cell) |-> Twice(cell[i])]

\* What a cell is put together from, a piece for each character.
LEMMA PiecesAreText ==
    ASSUME NEW cell \in Text
    PROVE  /\ Len(cell) \in Nat /\ Pieces(cell) \in [1 .. Len(cell) -> Text]
           /\ \A i \in 1 .. Len(cell) : cell[i] \in Char /\ Pieces(cell)[i] = Twice(cell[i])
<1>1. Len(cell) \in Nat /\ \A i \in 1 .. Len(cell) : cell[i] \in Char
  BY DEF Text
<1>2. \A ch \in Char : Twice(ch) \in Text
  BY CharsDiffer DEF Twice, Text
<1> QED BY <1>1, <1>2 DEF Pieces

\* csvCell: a cell with anything special in it stands between quotes, its own
\* doubled; another stands as it is.
LEMMA CellText ==
    ASSUME NEW cell \in Text
    PROVE  /\ Cell(cell) \in Text
           /\ \E d : /\ Grown(d, Len(cell), <<>>, Pieces(cell))
                     /\ Cell(cell) = IF Special(cell)
                                     THEN <<Quote>> \o d[Len(cell)] \o <<Quote>> ELSE cell
<1> DEFINE N == Len(cell)
           doubled[i \in 0 .. N] ==
                IF i = 0 THEN <<>>
                ELSE doubled[i - 1] \o (IF cell[i] = Quote THEN <<Quote, Quote>> ELSE <<cell[i]>>)
<1>1. N \in Nat /\ Pieces(cell) \in [1 .. N -> Text] /\ <<>> \in Text
      /\ \A i \in 1 .. N : Pieces(cell)[i] = Twice(cell[i])
  BY PiecesAreText DEF Text
<1>2. PICK d : Grown(d, N, <<>>, Pieces(cell))
  <2> HIDE DEF N
  <2> QED BY <1>1, TextGrows
<1>3. d \in [0 .. N -> Text] /\ d[0] = <<>>
      /\ \A i \in 1 .. N : d[i] = d[i - 1] \o Twice(cell[i])
  BY <1>1, <1>2 DEF Grown
<1>4. \E h : h = [i \in 0 .. N |->
                IF i = 0 THEN <<>>
                ELSE h[i - 1] \o (IF cell[i] = Quote THEN <<Quote, Quote>> ELSE <<cell[i]>>)]
  <2>1. d = [i \in 0 .. N |-> d[i]]
    BY <1>3
  <2>2. \A i \in 0 .. N : i # 0 => i \in 1 .. N
    BY <1>1
  <2> HIDE DEF N
  <2>3. \A i \in 0 .. N : d[i] =
            IF i = 0 THEN <<>>
            ELSE d[i - 1] \o (IF cell[i] = Quote THEN <<Quote, Quote>> ELSE <<cell[i]>>)
    BY <1>3, <2>2, Zenon DEF Twice
  <2> QED BY <2>1, <2>3, Zenon
<1>5. doubled = [i \in 0 .. N |->
                IF i = 0 THEN <<>>
                ELSE doubled[i - 1] \o (IF cell[i] = Quote THEN <<Quote, Quote>> ELSE <<cell[i]>>)]
  BY <1>4, Zenon
<1>6. Cell(cell) = IF Special(cell) THEN <<Quote>> \o doubled[N] \o <<Quote>> ELSE cell
  BY DEF Cell, Special
<1> HIDE DEF doubled
<1>7. doubled = d
  <2>1. 0 \in 0 .. N /\ \A i \in 1 .. N : i \in 0 .. N /\ i # 0
    BY <1>1
  <2> HIDE DEF N
  <2>2. doubled[0] = <<>> /\ \A i \in 1 .. N : doubled[i] = doubled[i - 1] \o Twice(cell[i])
    BY <1>5, <2>1, Zenon DEF Twice
  <2>3. \A i \in 1 .. N : doubled[i] = doubled[i - 1] \o Pieces(cell)[i]
    BY <1>1, <2>2, Zenon
  <2>4. doubled = [i \in 0 .. N |-> doubled[i]]
    BY <1>5, Zenon
  <2> QED BY <1>1, <1>2, <2>2, <2>3, <2>4, GrownIs, SMTT(30)
<1>8. Cell(cell) = IF Special(cell) THEN <<Quote>> \o d[N] \o <<Quote>> ELSE cell
  BY <1>6, <1>7
<1>9. d[N] \in Text
  BY <1>1, <1>3
<1>10. Cell(cell) \in Text
  BY <1>8, <1>9, CharsDiffer DEF Text
<1> QED BY <1>2, <1>8, <1>10

\* The first so many members of a sequence.
First(s, k) == SubSeq(s, 1, k)

\* They grow by a member at a time from nothing to the sequence.
LEMMA FirstGrows ==
    ASSUME NEW S, NEW s \in Seq(S)
    PROVE  /\ First(s, 0) = <<>> /\ First(s, Len(s)) = s
           /\ \A k \in 0 .. Len(s) : First(s, k) \in Seq(S) /\ Len(First(s, k)) = k
           /\ \A k \in 1 .. Len(s) : Append(First(s, k - 1), s[k]) = First(s, k)
<1>1. First(s, 0) = <<>> /\ First(s, Len(s)) = s
  BY DEF First
<1>2. \A k \in 0 .. Len(s) : First(s, k) \in Seq(S) /\ Len(First(s, k)) = k
  BY DEF First
<1>3. ASSUME NEW k \in 1 .. Len(s) PROVE Append(First(s, k - 1), s[k]) = First(s, k)
  <2>1. /\ First(s, k - 1) \in Seq(S) /\ First(s, k) \in Seq(S)
        /\ Len(First(s, k - 1)) = k - 1 /\ Len(First(s, k)) = k /\ s[k] \in S
    BY <1>2
  <2>2. \A i \in 1 .. (k - 1) : First(s, k - 1)[i] = s[i]
    BY DEF First
  <2>3. \A i \in 1 .. k : First(s, k)[i] = s[i]
    BY DEF First
  <2>4. Append(First(s, k - 1), s[k]) \in Seq(S) /\ Len(Append(First(s, k - 1), s[k])) = k
    BY <2>1
  <2>5. \A i \in 1 .. k : Append(First(s, k - 1), s[k])[i] = s[i]
    BY <2>1, <2>2
  <2> QED BY <2>1, <2>3, <2>4, <2>5, SeqEqual
<1> QED BY <1>1, <1>2, <1>3

\* One character of the text, read in a state whose parts are known.
LEMMA OneScanned ==
    ASSUME NEW T \in Text, NEW f, Scanning(T, f), NEW p \in Nat, p + 1 <= Len(T),
           NEW r, NEW w, NEW c
    PROVE  /\ T[p + 1] \in Char /\ f[p + 1] = Scan(T, p + 1, f[p])
           /\ ByCharacter(T, p + 1, r, w, c)
<1>1. Len(T) \in Nat /\ p + 1 \in 1 .. Len(T)
  BY DEF Text
<1>2. T[p + 1] \in Char
  BY <1>1 DEF Text
<1>3. f[p + 1] = Scan(T, p + 1, f[(p + 1) - 1]) /\ (p + 1) - 1 = p
  BY <1>1 DEF Scanning
<1> QED BY <1>2, <1>3, ScanParts

\* A cell with nothing special in it is read character by character.
LEMMA PlainCell ==
    ASSUME NEW T \in Text, NEW f, Scanning(T, f), NEW p \in Nat,
           NEW cell \in Text, ~Special(cell), Has(T, p, cell),
           NEW r, NEW w, f[p] = Outside(r, w, <<>>)
    PROVE  f[p + Len(cell)] = Outside(r, w, cell)
<1> DEFINE n == Len(cell)
           P == {k \in 0 .. n : f[p + k] = Outside(r, w, First(cell, k))}
<1>1. n \in Nat /\ Len(T) \in Nat
  BY DEF Text
<1>2. 0 \in P
  <2>1. First(cell, 0) = <<>> /\ p + 0 = p
    BY FirstGrows DEF Text
  <2> QED BY <1>1, <2>1
<1>3. ASSUME NEW k \in 1 .. n, k - 1 \in P PROVE k \in P
  <2>1. k \in 0 .. n /\ k - 1 \in Nat /\ p + (k - 1) \in Nat /\ (p + (k - 1)) + 1 = p + k
    BY <1>1
  <2>2. T[p + k] = cell[k] /\ p + k <= Len(T)
    BY <1>1 DEF Has
  <2>3. cell[k] \notin {Quote, Comma, Newline, Return}
    <3>1. k \in DOMAIN cell
      BY DEF Text
    <3> QED BY <3>1 DEF Special
  <2>4. f[p + k] = Scan(T, p + k, f[p + (k - 1)])
        /\ ByCharacter(T, p + k, r, w, First(cell, k - 1))
    BY <2>1, <2>2, OneScanned, ZenonT(30)
  <2>5. f[p + (k - 1)] = Outside(r, w, First(cell, k - 1))
    BY <1>3
  <2>6. f[p + k] = Outside(r, w, Append(First(cell, k - 1), cell[k]))
    BY <2>2, <2>3, <2>4, <2>5, Zenon DEF ByCharacter
  <2>7. Append(First(cell, k - 1), cell[k]) = First(cell, k)
    BY FirstGrows DEF Text
  <2> QED BY <2>1, <2>6, <2>7
<1>4. P = 0 .. n
  <2>1. P \in SUBSET (0 .. n)
    OBVIOUS
  <2> HIDE DEF P, n
  <2> QED BY <1>1, <1>2, <1>3, <2>1, RowAfterRow
<1>5. n \in P /\ First(cell, n) = cell
  <2>1. First(cell, n) = cell
    BY FirstGrows DEF Text
  <2> HIDE DEF P
  <2> QED BY <1>1, <1>4, <2>1
<1> QED BY <1>5

\* Within quotes a cell is read piece by piece.
LEMMA QuotedCell ==
    ASSUME NEW T \in Text, NEW f, Scanning(T, f), NEW p \in Nat,
           NEW cell \in Text, NEW d, Grown(d, Len(cell), <<>>, Pieces(cell)),
           Has(T, p, d[Len(cell)]),
           NEW r, NEW w, f[p] = Inside(r, w, <<>>)
    PROVE  f[p + Len(d[Len(cell)])] = Inside(r, w, cell)
<1> DEFINE n == Len(cell)
           P == {k \in 0 .. n : f[p + Len(d[k])] = Inside(r, w, First(cell, k))}
<1>1. n \in Nat /\ Len(T) \in Nat /\ \A i \in 1 .. n : cell[i] \in Char
  BY DEF Text
<1>2. /\ d \in [0 .. n -> Text] /\ d[0] = <<>>
      /\ \A i \in 1 .. n : d[i] = d[i - 1] \o Twice(cell[i]) /\ Twice(cell[i]) \in Text
  <2>1. /\ d \in [0 .. n -> Text] /\ d[0] = <<>>
        /\ \A i \in 1 .. n : d[i] = d[i - 1] \o Pieces(cell)[i]
    BY DEF Grown
  <2>2. \A i \in 1 .. n : Pieces(cell)[i] = Twice(cell[i]) /\ Pieces(cell)[i] \in Text
    BY PiecesAreText
  <2> QED BY <2>1, <2>2
<1>3. \A k \in 0 .. n : Has(T, p, d[k]) /\ Len(d[k]) \in Nat
  <2>1. \A i \in 1 .. n : \E u \in Text : d[i] = d[i - 1] \o u
    BY <1>2
  <2>2. \A k \in 0 .. n : Has(d[n], 0, d[k])
    <3> HIDE DEF n
    <3>1. \A j \in 0 .. n : \A k \in 0 .. j : Has(d[j], 0, d[k])
      BY <1>1, <1>2, <2>1, StagesAreThere
    <3> QED BY <1>1, <3>1
  <2>3. d[n] \in Text /\ \A k \in 0 .. n : d[k] \in Text
    BY <1>1, <1>2
  <2>4. \A k \in 0 .. n : Has(T, p, d[k])
    <3> HIDE DEF n
    <3> QED BY <2>2, <2>3, HasWithin DEF n
  <2> QED BY <2>3, <2>4 DEF Text
<1>4. 0 \in P
  <2>1. First(cell, 0) = <<>> /\ Len(d[0]) = 0 /\ p + 0 = p
    BY <1>2, FirstGrows DEF Text
  <2> QED BY <1>1, <2>1
<1>5. ASSUME NEW k \in 1 .. n, k - 1 \in P PROVE k \in P
  <2> DEFINE q == p + Len(d[k - 1])
             c == First(cell, k - 1)
  <2>1. k \in 0 .. n /\ k - 1 \in 0 .. n
    BY <1>1
  <2>2. d[k - 1] \in Text /\ Twice(cell[k]) \in Text /\ q \in Nat
        /\ d[k] = d[k - 1] \o Twice(cell[k])
    <3>1. d[k - 1] \in Text /\ Len(d[k - 1]) \in Nat
      BY <1>2, <1>3, <2>1
    <3>2. d[k] = d[k - 1] \o Twice(cell[k]) /\ Twice(cell[k]) \in Text
      BY <1>2
    <3>3. q \in Nat
      BY <3>1
    <3> QED BY <3>1, <3>2, <3>3
  <2>3. Has(T, q, Twice(cell[k]))
    <3>1. Has(T, p, d[k - 1] \o Twice(cell[k]))
      BY <1>3, <2>1, <2>2
    <3> QED BY <2>2, <3>1, HasParts
  <2>4. p + Len(d[k]) = q + Len(Twice(cell[k]))
    <3>1. Len(d[k - 1] \o Twice(cell[k])) = Len(d[k - 1]) + Len(Twice(cell[k]))
          /\ Len(d[k - 1]) \in Nat /\ Len(Twice(cell[k])) \in Nat
      BY <2>2 DEF Text
    <3>2. Len(d[k]) = Len(d[k - 1]) + Len(Twice(cell[k]))
      BY <2>2, <3>1
    <3>3. \A x, y \in Nat : p + (x + y) = (p + x) + y
      OBVIOUS
    <3>4. p + (Len(d[k - 1]) + Len(Twice(cell[k]))) = q + Len(Twice(cell[k]))
      BY <3>1, <3>3
    <3> QED BY <3>2, <3>4, Zenon
  <2>5. f[q] = Inside(r, w, c)
    BY <1>5
  <2>6. Append(c, cell[k]) = First(cell, k)
    BY FirstGrows DEF Text
  <2> HIDE DEF q, c
  <2>7. CASE cell[k] # Quote
    <3>1. Twice(cell[k]) = <<cell[k]>> /\ Len(Twice(cell[k])) = 1
      BY <2>7 DEF Twice
    <3>2. q + 1 <= Len(T) /\ T[q + 1] = cell[k]
      BY <2>3, <3>1 DEF Has
    <3>3. f[q + 1] = Scan(T, q + 1, f[q]) /\ ByCharacter(T, q + 1, r, w, c)
      BY <2>2, <3>2, OneScanned
    <3>4. f[q + 1] = Inside(r, w, Append(c, cell[k]))
      BY <2>5, <2>7, <3>2, <3>3, Zenon DEF ByCharacter
    <3> QED BY <2>1, <2>4, <2>6, <3>1, <3>4
  <2>8. CASE cell[k] = Quote
    <3>1. Twice(cell[k]) = <<Quote, Quote>> /\ Len(Twice(cell[k])) = 2
      BY <2>8 DEF Twice
    <3>2. q + 2 <= Len(T) /\ T[q + 1] = Quote /\ T[q + 2] = Quote
      BY <2>3, <3>1 DEF Has
    <3>3. f[q + 1] = Scan(T, q + 1, f[q]) /\ ByCharacter(T, q + 1, r, w, c)
      <4>1. q + 1 <= Len(T)
        BY <1>1, <2>2, <3>2
      <4> QED BY <2>2, <4>1, OneScanned
    <3>4. f[q + 2] = Scan(T, q + 2, f[q + 1]) /\ ByCharacter(T, q + 2, r, w, Append(c, cell[k]))
      <4>1. q + 1 \in Nat /\ (q + 1) + 1 = q + 2
        BY <2>2
      <4> QED BY <3>2, <4>1, OneScanned
    <3>5. At(T, (q + 1) + 1) = Quote
      <4>1. (q + 1) + 1 = q + 2 /\ q + 2 \in DOMAIN T
        BY <1>1, <2>2, <3>2 DEF Text
      <4> QED BY <3>2, <4>1 DEF At
    <3>6. f[q + 1] = StateOf(r, w, Append(c, cell[k]), TRUE, TRUE)
      BY <2>5, <2>8, <3>2, <3>3, <3>5, Zenon DEF ByCharacter
    <3>7. f[q + 2] = Inside(r, w, Append(c, cell[k]))
      BY <3>4, <3>6, Zenon DEF ByCharacter, Inside
    <3> QED BY <2>1, <2>4, <2>6, <3>1, <3>7
  <2> QED BY <2>7, <2>8
<1>6. P = 0 .. n
  <2>1. P \in SUBSET (0 .. n)
    OBVIOUS
  <2> HIDE DEF P, n
  <2> QED BY <1>1, <1>4, <1>5, <2>1, RowAfterRow
<1>7. n \in P /\ First(cell, n) = cell
  <2>1. First(cell, n) = cell
    BY FirstGrows DEF Text
  <2> HIDE DEF P
  <2> QED BY <1>1, <1>6, <2>1
<1> QED BY <1>7

\* The scanner reads a cell that csvCell wrote, unless a quote comes after it.
LEMMA CellScanned ==
    ASSUME NEW T \in Text, NEW f, Scanning(T, f), NEW p \in Nat,
           NEW cell \in Text, Has(T, p, Cell(cell)),
           At(T, p + Len(Cell(cell)) + 1) # Quote,
           NEW r, NEW w, f[p] = Outside(r, w, <<>>)
    PROVE  f[p + Len(Cell(cell))] = Outside(r, w, cell)
<1>1. PICK d : /\ Grown(d, Len(cell), <<>>, Pieces(cell))
               /\ Cell(cell) = IF Special(cell)
                               THEN <<Quote>> \o d[Len(cell)] \o <<Quote>> ELSE cell
  BY CellText
<1>2. CASE ~Special(cell)
  <2>1. Cell(cell) = cell
    BY <1>1, <1>2
  <2> QED BY <1>2, <2>1, PlainCell
<1>3. CASE Special(cell)
  <2> DEFINE u == d[Len(cell)]
             q == p + 1
             e == q + Len(u)
  <2>1. u \in Text /\ <<Quote>> \in Text /\ Len(u) \in Nat /\ Len(T) \in Nat
    <3>1. Len(cell) \in 0 .. Len(cell)
      BY DEF Text
    <3>2. u \in Text
      BY <1>1, <3>1 DEF Grown
    <3>3. Len(u) \in Nat /\ Len(T) \in Nat
      BY <3>2 DEF Text
    <3> QED BY <3>2, <3>3, CharsDiffer DEF Text
  <2>2. Cell(cell) = (<<Quote>> \o u) \o <<Quote>>
    BY <1>1, <1>3
  <2> HIDE DEF u
  <2>3. /\ <<Quote>> \o u \in Text /\ Len(<<Quote>> \o u) = 1 + Len(u)
        /\ Len(<<Quote>>) = 1 /\ <<Quote>>[1] = Quote /\ Len(Cell(cell)) = Len(u) + 2
    BY <2>1, <2>2 DEF Text
  <2>4. Has(T, p, <<Quote>> \o u) /\ Has(T, p + (1 + Len(u)), <<Quote>>)
    <3> DEFINE v == <<Quote>> \o u
    <3>1. Has(T, p, v \o <<Quote>>)
      BY <2>2
    <3>2. v \in Text /\ Len(v) = 1 + Len(u)
      BY <2>3
    <3> HIDE DEF v
    <3>3. Has(T, p, v) /\ Has(T, p + Len(v), <<Quote>>)
      BY <2>1, <3>1, <3>2, HasParts
    <3> QED BY <3>2, <3>3, Zenon DEF v
  <2>5. Has(T, p, <<Quote>>) /\ Has(T, p + 1, u)
    BY <2>1, <2>3, <2>4, HasParts
  <2>6. q \in Nat /\ e \in Nat /\ e = p + (1 + Len(u)) /\ e + 1 = p + Len(Cell(cell))
    BY <2>1, <2>3
  <2>7. /\ p + 1 <= Len(T) /\ T[p + 1] = Quote
        /\ e + 1 <= Len(T) /\ T[e + 1] = Quote
    <3>1. Has(T, e, <<Quote>>)
      BY <2>4, <2>6
    <3> QED BY <2>3, <2>5, <3>1 DEF Has
  <2> HIDE DEF e
  <2>8. f[p + 1] = Scan(T, p + 1, f[p]) /\ ByCharacter(T, p + 1, r, w, <<>>)
    BY <2>7, OneScanned
  <2>9. f[q] = Inside(r, w, <<>>)
    BY <2>7, <2>8, Zenon DEF ByCharacter
  <2>10. f[e] = Inside(r, w, cell)
    <3>1. Has(T, q, d[Len(cell)])
      BY <2>5 DEF u
    <3> HIDE DEF q
    <3>2. f[q + Len(d[Len(cell)])] = Inside(r, w, cell)
      BY <1>1, <2>6, <2>9, <3>1, QuotedCell
    <3> QED BY <3>2 DEF u, e
  <2>11. f[e + 1] = Scan(T, e + 1, f[e]) /\ ByCharacter(T, e + 1, r, w, cell)
    BY <2>6, <2>7, OneScanned
  <2>12. At(T, (e + 1) + 1) # Quote
    BY <2>6
  <2>13. f[e + 1] = Outside(r, w, cell)
    BY <2>7, <2>10, <2>11, <2>12, Zenon DEF ByCharacter
  <2> QED BY <2>6, <2>13
<1> QED BY <1>2, <1>3

-----------------------------------------------------------------------------
(* Lines. *)

Separator(i) == IF i = 1 THEN <<>> ELSE <<Comma>>
Cells(row) == [i \in 1 .. Len(row) |-> Separator(i) \o Cell(row[i])]

\* What a line is put together from, a piece for each cell.
LEMMA CellsAreText ==
    ASSUME NEW row \in Seq(Text)
    PROVE  /\ Len(row) \in Nat /\ Cells(row) \in [1 .. Len(row) -> Text]
           /\ \A i \in 1 .. Len(row) : /\ row[i] \in Text /\ Cells(row)[i] = Separator(i) \o Cell(row[i])
                                       /\ Cell(row[i]) \in Text /\ Separator(i) \in Text
<1>1. Len(row) \in Nat /\ \A i \in 1 .. Len(row) : row[i] \in Text
  OBVIOUS
<1>2. \A i : Separator(i) \in Text
  BY CharsDiffer DEF Separator, Text
<1>3. \A i \in 1 .. Len(row) : Cell(row[i]) \in Text
  BY <1>1, CellText
<1>4. \A u, v \in Text : u \o v \in Text
  BY DEF Text
<1>5. \A i \in 1 .. Len(row) : Separator(i) \o Cell(row[i]) \in Text
  BY <1>2, <1>3, <1>4
<1> QED BY <1>1, <1>2, <1>3, <1>5 DEF Cells

\* A line is its cells, with commas between them.
LEMMA LineText ==
    ASSUME NEW row \in Seq(Text), row # <<>>
    PROVE  \E g : Grown(g, Len(row), <<>>, Cells(row)) /\ Line(row) = g[Len(row)]
<1> DEFINE n == Len(row)
           C == [i \in DOMAIN row |-> (IF i = 1 THEN <<>> ELSE <<Comma>>) \o Cell(row[i])]
           flatten[i \in 1 .. n] == IF i = 1 THEN C[i] ELSE flatten[i - 1] \o C[i]
<1>1. n \in Nat /\ n # 0 /\ <<>> \in Text /\ Cells(row) \in [1 .. n -> Text]
  BY CellsAreText DEF Text
<1>2. PICK g : Grown(g, n, <<>>, Cells(row))
  <2> HIDE DEF n
  <2> QED BY <1>1, TextGrows
<1>3. /\ g \in [0 .. n -> Text] /\ g[0] = <<>>
      /\ \A i \in 1 .. n : g[i] = g[i - 1] \o Cells(row)[i]
  BY <1>2 DEF Grown
<1>4. C = Cells(row) /\ Len(C) = n
  <2>1. DOMAIN row = 1 .. n
    OBVIOUS
  <2>2. C = Cells(row)
    BY <2>1, Zenon DEF Cells, Separator
  <2>3. Cells(row) \in Seq(Text) /\ Len(Cells(row)) = n
    BY <1>1
  <2> QED BY <2>2, <2>3
<1> HIDE DEF C
<1> DEFINE h == [i \in 1 .. n |-> g[i]]
<1>5. h[1] = C[1] /\ \A i \in 1 .. n : i # 1 => h[i] = h[i - 1] \o C[i]
  <2>1. 1 \in 1 .. n /\ g[1] = <<>> \o C[1] /\ C[1] \in Text
    <3>1. 1 \in 1 .. n /\ 1 - 1 = 0
      BY <1>1
    <3> HIDE DEF n
    <3>2. g[1] = g[1 - 1] \o Cells(row)[1] /\ Cells(row)[1] \in Text
      BY <1>1, <1>3, <3>1
    <3> QED BY <1>3, <1>4, <3>1, <3>2
  <2>2. <<>> \o C[1] = C[1]
    BY <2>1 DEF Text
  <2>3. \A i \in 1 .. n : i # 1 => i - 1 \in 1 .. n
    BY <1>1
  <2> HIDE DEF n
  <2> QED BY <1>3, <1>4, <2>1, <2>2, <2>3
<1>6. h = [i \in 1 .. n |-> IF i = 1 THEN C[i] ELSE h[i - 1] \o C[i]]
  <2>1. h = [i \in 1 .. n |-> h[i]]
    OBVIOUS
  <2> HIDE DEF h, n
  <2>2. \A i \in 1 .. n : h[i] = IF i = 1 THEN C[i] ELSE h[i - 1] \o C[i]
    BY <1>5, Zenon
  <2> QED BY <2>1, <2>2, Zenon
<1>7. flatten = [i \in 1 .. n |-> IF i = 1 THEN C[i] ELSE flatten[i - 1] \o C[i]]
  <2> HIDE DEF h, n
  <2>1. \E k : k = [i \in 1 .. n |-> IF i = 1 THEN C[i] ELSE k[i - 1] \o C[i]]
    BY <1>6, Zenon
  <2> QED BY <2>1, Zenon
<1>8. Line(row) = flatten[n]
  <2>1. Line(row) = FlattenSeq(C)
    BY DEF Line, C
  <2>2. FlattenSeq(C) =
            LET fl[i \in 1 .. Len(C)] == IF i = 1 THEN C[i] ELSE fl[i - 1] \o C[i]
            IN  fl[Len(C)]
    <3>1. Len(C) # 0
      BY <1>1, <1>4
    <3> QED BY <3>1, Zenon DEF FlattenSeq
  <2> HIDE DEF n
  <2> QED BY <1>4, <2>1, <2>2, Zenon
<1> HIDE DEF flatten
<1>9. flatten[n] = g[n]
  <2> DEFINE P == {i \in 0 .. n : i = 0 \/ flatten[i] = g[i]}
  <2>1. 0 \in P
    BY <1>1
  <2>2. ASSUME NEW i \in 1 .. n, i - 1 \in P PROVE i \in P
    <3>1. i \in 0 .. n /\ (i # 1 => i - 1 # 0 /\ i - 1 \in 1 .. n) /\ 1 \in 1 .. n
      BY <1>1
    <3>2. h[i] = g[i] /\ (i # 1 => h[i - 1] = g[i - 1])
      BY <3>1
    <3>3. CASE i = 1
      <4> HIDE DEF n, h
      <4>1. flatten[1] = C[1]
        BY <1>7, <3>1
      <4> QED BY <1>5, <3>1, <3>2, <3>3, <4>1
    <3>4. CASE i # 1
      <4>1. flatten[i - 1] = g[i - 1]
        BY <2>2, <3>1, <3>4
      <4> HIDE DEF n, h
      <4>2. flatten[i] = flatten[i - 1] \o C[i]
        BY <1>7, <3>4
      <4> QED BY <1>5, <3>1, <3>2, <3>4, <4>1, <4>2
    <3> QED BY <3>3, <3>4
  <2>3. P = 0 .. n
    <3>1. P \in SUBSET (0 .. n)
      OBVIOUS
    <3> HIDE DEF P, n
    <3> QED BY <1>1, <2>1, <2>2, <3>1, RowAfterRow
  <2>4. n \in P
    <3> HIDE DEF P
    <3> QED BY <1>1, <2>3
  <2> QED BY <1>1, <2>4
<1> HIDE DEF n
<1> QED BY <1>2, <1>8, <1>9 DEF n

\* Every piece stands where the ones before it end.
Laid(T, p, n, u, g) ==
    /\ \A k \in 0 .. n : g[k] \in Text /\ Len(g[k]) \in Nat /\ p + Len(g[k]) \in Nat
    /\ \A k \in 1 .. n :
         /\ Has(T, p + Len(g[k - 1]), u[k])
         /\ p + Len(g[k]) = p + Len(g[k - 1]) + Len(u[k])

\* They do in a text that has all of them put together.
LEMMA PiecesAreThere ==
    ASSUME NEW T \in Text, NEW p \in Nat, NEW n \in Nat, NEW c, NEW u,
           NEW g, Grown(g, n, c, u), Has(T, p, g[n])
    PROVE  Laid(T, p, n, u, g)
<1>1. /\ g \in [0 .. n -> Text] /\ u \in [1 .. n -> Text]
      /\ \A i \in 1 .. n : g[i] = g[i - 1] \o u[i]
  BY DEF Grown
<1>2. \A k \in 0 .. n : g[k] \in Text
  BY <1>1
<1>3. \A k \in 0 .. n : Len(g[k]) \in Nat /\ p + Len(g[k]) \in Nat
  BY <1>2 DEF Text
<1>4. \A k \in 0 .. n : Has(g[n], 0, g[k])
  <2>1. \A i \in 1 .. n : \E v \in Text : g[i] = g[i - 1] \o v
    BY <1>1
  <2>2. \A j \in 0 .. n : \A k \in 0 .. j : Has(g[j], 0, g[k])
    BY <1>1, <2>1, StagesAreThere
  <2> QED BY <2>2
<1>5. ASSUME NEW k \in 1 .. n
      PROVE  /\ Has(T, p + Len(g[k - 1]), u[k])
             /\ p + Len(g[k]) = p + Len(g[k - 1]) + Len(u[k])
  <2>1. k \in 0 .. n /\ k - 1 \in 0 .. n /\ n \in 0 .. n
    OBVIOUS
  <2>2. Has(T, p, g[k])
    BY <1>2, <1>4, <2>1, HasWithin
  <2>3. g[k] = g[k - 1] \o u[k] /\ g[k - 1] \in Text /\ u[k] \in Text
    BY <1>1, <1>2, <2>1
  <2>4. Has(T, p, g[k - 1] \o u[k])
    BY <2>2, <2>3
  <2>5. Has(T, p + Len(g[k - 1]), u[k])
    BY <2>3, <2>4, HasParts
  <2>6. Len(g[k - 1] \o u[k]) = Len(g[k - 1]) + Len(u[k]) /\ Len(g[k - 1]) \in Nat /\ Len(u[k]) \in Nat
    BY <2>3 DEF Text
  <2>7. \A x, y \in Nat : p + (x + y) = p + x + y
    OBVIOUS
  <2>8. p + (Len(g[k - 1]) + Len(u[k])) = p + Len(g[k - 1]) + Len(u[k])
    BY <2>6, <2>7
  <2>9. p + Len(g[k]) = p + Len(g[k - 1]) + Len(u[k])
    BY <2>3, <2>6, <2>8, Zenon
  <2> QED BY <2>5, <2>9
<1> QED BY <1>2, <1>3, <1>5 DEF Laid

\* The scanner reads a line cell after cell; the last one is still open at its end.
LEMMA LineScanned ==
    ASSUME NEW T \in Text, NEW f, Scanning(T, f), NEW p \in Nat,
           NEW row \in Seq(Text), row # <<>>, Has(T, p, Line(row)),
           At(T, p + Len(Line(row)) + 1) # Quote,
           NEW r, f[p] = Outside(r, <<>>, <<>>)
    PROVE  f[p + Len(Line(row))] = Outside(r, First(row, Len(row) - 1), row[Len(row)])
<1> DEFINE n == Len(row)
<1>1. PICK g : Grown(g, n, <<>>, Cells(row)) /\ Line(row) = g[n]
  BY LineText
<1>2. /\ n \in Nat /\ n # 0 /\ Cells(row) \in [1 .. n -> Text] /\ <<>> \in Text
      /\ \A i \in 1 .. n : /\ row[i] \in Text /\ Cells(row)[i] = Separator(i) \o Cell(row[i])
                           /\ Cell(row[i]) \in Text /\ Separator(i) \in Text
  BY CellsAreText DEF Text
<1>3. \A k \in 1 .. n : Append(First(row, k - 1), row[k]) = First(row, k)
  BY FirstGrows
<1>4. First(row, 0) = <<>>
  BY FirstGrows
<1> HIDE DEF n
<1>5. /\ \A k \in 0 .. n : g[k] \in Text /\ Len(g[k]) \in Nat /\ p + Len(g[k]) \in Nat
      /\ \A k \in 1 .. n :
            /\ Has(T, p + Len(g[k - 1]), Cells(row)[k])
            /\ p + Len(g[k]) = p + Len(g[k - 1]) + Len(Cells(row)[k])
  <2>1. Has(T, p, g[n]) /\ Grown(g, n, <<>>, Cells(row))
    BY <1>1
  <2>2. n \in Nat
    BY <1>2
  <2>3. Laid(T, p, n, Cells(row), g)
    BY <2>1, <2>2, PiecesAreThere
  <2> QED BY <2>3, Zenon DEF Laid
<1> DEFINE spot(k) == p + Len(g[k])
           P == {k \in 0 .. n : k = 0 \/ f[spot(k)] = Outside(r, First(row, k - 1), row[k])}
<1>6. ASSUME NEW k \in 1 .. n PROVE At(T, spot(k) + 1) # Quote
  <2>1. CASE k = n
    BY <1>1, <2>1
  <2>2. CASE k # n
    <3>1. k + 1 \in 1 .. n /\ k + 1 # 1 /\ (k + 1) - 1 = k /\ k \in 0 .. n
      BY <1>2, <2>2
    <3>2. Has(T, spot(k), Separator(k + 1) \o Cell(row[k + 1])) /\ spot(k) \in Nat
      BY <1>2, <1>5, <3>1
    <3> HIDE DEF spot
    <3>3. Has(T, spot(k), Separator(k + 1))
      BY <1>2, <3>1, <3>2, HasParts
    <3>4. Separator(k + 1) = <<Comma>> /\ Len(Separator(k + 1)) = 1
      BY <3>1 DEF Separator
    <3>5. T[spot(k) + 1] = Comma /\ spot(k) + 1 \in 1 .. Len(T) /\ DOMAIN T = 1 .. Len(T)
      <4> DEFINE q == spot(k)
      <4>1. Len(T) \in Nat /\ DOMAIN T = 1 .. Len(T)
        BY DEF Text
      <4>2. Has(T, q, <<Comma>>) /\ q \in Nat
        BY <3>2, <3>3, <3>4
      <4> HIDE DEF q
      <4>3. q + 1 <= Len(T) /\ T[q + 1] = Comma
        BY <4>1, <4>2 DEF Has
      <4>4. q + 1 \in 1 .. Len(T)
        BY <4>1, <4>2, <4>3
      <4> QED BY <4>1, <4>3, <4>4 DEF q
    <3> QED BY <3>5, CharsDiffer DEF At
  <2> QED BY <2>1, <2>2
<1>7. ASSUME NEW k \in 1 .. n, k - 1 \in P PROVE k \in P
  <2> DEFINE q == spot(k - 1)
             m == q + Len(Separator(k))
  <2>1. /\ k \in 0 .. n /\ k - 1 \in 0 .. n /\ q \in Nat
        /\ row[k] \in Text /\ Cell(row[k]) \in Text /\ Separator(k) \in Text
        /\ Has(T, q, Separator(k) \o Cell(row[k]))
        /\ spot(k) = q + Len(Separator(k) \o Cell(row[k]))
    <3>1. k \in 0 .. n /\ k - 1 \in 0 .. n
      BY <1>2
    <3> QED BY <1>2, <1>5, <3>1
  <2>2. Len(Separator(k) \o Cell(row[k])) = Len(Separator(k)) + Len(Cell(row[k]))
        /\ Len(Separator(k)) \in Nat /\ Len(Cell(row[k])) \in Nat
    BY <2>1 DEF Text
  <2> HIDE DEF q, spot
  <2>3. Has(T, q, Separator(k)) /\ Has(T, m, Cell(row[k]))
    BY <2>1, HasParts
  <2>4. m \in Nat /\ m + Len(Cell(row[k])) = spot(k)
    BY <2>1, <2>2
  <2>5. f[m] = Outside(r, First(row, k - 1), <<>>)
    <3>1. CASE k = 1
      <4>1. Separator(k) = <<>> /\ Len(Separator(k)) = 0 /\ k - 1 = 0
        BY <3>1 DEF Separator
      <4>2. q = p
        <5>1. g[0] = <<>>
          BY <1>1 DEF Grown
        <5> QED BY <3>1, <5>1 DEF q, spot
      <4> QED BY <1>4, <2>1, <4>1, <4>2
    <3>2. CASE k # 1
      <4>1. Separator(k) = <<Comma>> /\ Len(Separator(k)) = 1 /\ m = q + 1
        BY <3>2 DEF Separator
      <4>2. T[q + 1] = Comma /\ q + 1 <= Len(T)
        BY <2>1, <2>3, <4>1, SMTT(30) DEF Has
      <4>3. k - 1 \in 1 .. n /\ k - 1 # 0
        BY <1>2, <3>2
      <4>4. f[q] = Outside(r, First(row, (k - 1) - 1), row[k - 1])
        BY <1>7, <4>3 DEF q
      <4>5. f[q + 1] = Scan(T, q + 1, f[q])
            /\ ByCharacter(T, q + 1, r, First(row, (k - 1) - 1), row[k - 1])
        BY <2>1, <4>2, OneScanned
      <4>6. f[q + 1] = Outside(r, Append(First(row, (k - 1) - 1), row[k - 1]), <<>>)
        BY <4>2, <4>4, <4>5, Zenon DEF ByCharacter
      <4>7. Append(First(row, (k - 1) - 1), row[k - 1]) = First(row, k - 1)
        BY <1>3, <4>3
      <4> QED BY <4>1, <4>6, <4>7
    <3> QED BY <3>1, <3>2
  <2>6. At(T, m + Len(Cell(row[k])) + 1) # Quote
    BY <1>6, <2>4
  <2> HIDE DEF m
  <2>7. f[m + Len(Cell(row[k]))] = Outside(r, First(row, k - 1), row[k])
    BY <2>1, <2>3, <2>4, <2>5, <2>6, CellScanned
  <2> QED BY <2>1, <2>4, <2>7
<1>8. 0 \in P
  BY <1>2
<1>9. P = 0 .. n
  <2>1. P \in SUBSET (0 .. n)
    OBVIOUS
  <2> HIDE DEF P
  <2> QED BY <1>2, <1>7, <1>8, <2>1, RowAfterRow
<1>10. n \in P
  <2> HIDE DEF P
  <2> QED BY <1>2, <1>9
<1>11. f[spot(n)] = Outside(r, First(row, n - 1), row[n])
  BY <1>2, <1>10
<1> QED BY <1>1, <1>11 DEF n

-----------------------------------------------------------------------------
(* Files. *)

\* A line of a table has one cell at least.
TableLine == Seq(Text) \ {<<>>}
Lines(rows) == [k \in 1 .. Len(rows) |-> <<Newline>> \o Line(rows[k])]

\* What a file is put together from, a piece for each line after its heading.
LEMMA LinesAreText ==
    ASSUME NEW rows \in Seq(TableLine)
    PROVE  /\ Len(rows) \in Nat /\ Lines(rows) \in [1 .. Len(rows) -> Text]
           /\ Heading \in Seq(Text) /\ Heading # <<>> /\ Line(Heading) \in Text
           /\ <<Newline>> \in Text
           /\ \A k \in 1 .. Len(rows) :
                /\ rows[k] \in Seq(Text) /\ rows[k] # <<>> /\ Line(rows[k]) \in Text
                /\ Lines(rows)[k] = <<Newline>> \o Line(rows[k])
<1>1. Len(rows) \in Nat /\ \A k \in 1 .. Len(rows) : rows[k] \in TableLine
  OBVIOUS
<1>2. \A k \in 1 .. Len(rows) : rows[k] \in Seq(Text) /\ rows[k] # <<>>
  BY <1>1 DEF TableLine
<1>3. <<"a">> \in Text /\ <<Newline>> \in Text
  BY CharsDiffer DEF Text
<1>4. ASSUME NEW row \in Seq(Text), row # <<>> PROVE Line(row) \in Text
  <2>1. PICK g : Grown(g, Len(row), <<>>, Cells(row)) /\ Line(row) = g[Len(row)]
    BY <1>4, LineText
  <2>2. Len(row) \in 0 .. Len(row)
    OBVIOUS
  <2> QED BY <2>1, <2>2 DEF Grown
<1>7. Heading \in Seq(Text) /\ Heading # <<>>
  BY <1>3 DEF Heading
<1>8. Line(Heading) \in Text /\ \A k \in 1 .. Len(rows) : Line(rows[k]) \in Text
  BY <1>2, <1>4, <1>7
<1>5. \A u, v \in Text : u \o v \in Text
  BY DEF Text
<1>6. \A k \in 1 .. Len(rows) : <<Newline>> \o Line(rows[k]) \in Text
  BY <1>3, <1>5, <1>8
<1> QED BY <1>1, <1>2, <1>3, <1>6, <1>7, <1>8 DEF Lines

\* A file is its heading and its lines.
LEMMA FileText ==
    ASSUME NEW rows \in Seq(TableLine)
    PROVE  \E t : Grown(t, Len(rows), Line(Heading), Lines(rows)) /\ Printed(rows) = t[Len(rows)]
<1> DEFINE n == Len(rows)
           text[k \in 0 .. n] ==
                IF k = 0 THEN Line(Heading) ELSE text[k - 1] \o <<Newline>> \o Line(rows[k])
<1>1. /\ n \in Nat /\ Line(Heading) \in Text /\ <<Newline>> \in Text /\ Lines(rows) \in [1 .. n -> Text]
      /\ \A k \in 1 .. n : /\ Line(rows[k]) \in Text
                           /\ Lines(rows)[k] = <<Newline>> \o Line(rows[k])
  BY LinesAreText
<1>2. PICK t : Grown(t, n, Line(Heading), Lines(rows))
  <2> HIDE DEF n
  <2> QED BY <1>1, TextGrows
<1>3. /\ t \in [0 .. n -> Text] /\ t[0] = Line(Heading)
      /\ \A k \in 1 .. n : t[k] = t[k - 1] \o Lines(rows)[k]
  BY <1>2 DEF Grown
<1>4. \A u, v, w \in Text : u \o (v \o w) = (u \o v) \o w
  BY ConcatAssociative DEF Text
<1>5. \A k \in 1 .. n : t[k] = t[k - 1] \o <<Newline>> \o Line(rows[k])
  <2> SUFFICES ASSUME NEW k \in 1 .. n PROVE t[k] = t[k - 1] \o <<Newline>> \o Line(rows[k])
    OBVIOUS
  <2>1. k - 1 \in 0 .. n
    BY <1>1
  <2>2. t[k - 1] \in Text /\ Line(rows[k]) \in Text
    BY <1>1, <1>3, <2>1
  <2>3. t[k] = t[k - 1] \o (<<Newline>> \o Line(rows[k]))
    BY <1>1, <1>3
  <2>4. t[k - 1] \o (<<Newline>> \o Line(rows[k])) = (t[k - 1] \o <<Newline>>) \o Line(rows[k])
    BY <1>1, <1>4, <2>2
  <2> QED BY <2>3, <2>4
<1>6. \E h : h = [k \in 0 .. n |->
                IF k = 0 THEN Line(Heading) ELSE h[k - 1] \o <<Newline>> \o Line(rows[k])]
  <2>1. t = [k \in 0 .. n |-> t[k]]
    BY <1>3
  <2>2. \A k \in 0 .. n : k # 0 => k \in 1 .. n
    BY <1>1
  <2> HIDE DEF n
  <2>3. \A k \in 0 .. n :
            t[k] = IF k = 0 THEN Line(Heading) ELSE t[k - 1] \o <<Newline>> \o Line(rows[k])
    BY <1>3, <1>5, <2>2, Zenon
  <2> QED BY <2>1, <2>3, Zenon
<1>7. text = [k \in 0 .. n |->
                IF k = 0 THEN Line(Heading) ELSE text[k - 1] \o <<Newline>> \o Line(rows[k])]
  BY <1>6, Zenon
<1>8. Printed(rows) = text[n]
  BY DEF Printed
<1> HIDE DEF text
<1>9. text[n] = t[n]
  <2> DEFINE P == {k \in 0 .. n : text[k] = t[k]}
  <2>1. 0 \in P
    <3>1. 0 \in 0 .. n
      BY <1>1
    <3> HIDE DEF n
    <3>2. text[0] = Line(Heading)
      BY <1>7, <3>1, Zenon
    <3> QED BY <1>3, <3>1, <3>2
  <2>2. ASSUME NEW k \in 1 .. n, k - 1 \in P PROVE k \in P
    <3>1. k \in 0 .. n /\ k # 0 /\ text[k - 1] = t[k - 1]
      BY <1>1, <2>2
    <3> HIDE DEF n
    <3>2. text[k] = text[k - 1] \o <<Newline>> \o Line(rows[k])
      BY <1>7, <3>1, Zenon
    <3> QED BY <1>5, <3>1, <3>2
  <2>3. P = 0 .. n
    <3>1. P \in SUBSET (0 .. n)
      OBVIOUS
    <3> HIDE DEF P, n
    <3> QED BY <1>1, <2>1, <2>2, <3>1, RowAfterRow
  <2>4. n \in P
    <3> HIDE DEF P
    <3> QED BY <1>1, <2>3
  <2> QED BY <2>4
<1> HIDE DEF n
<1> QED BY <1>2, <1>8, <1>9 DEF n

\* The state of the scanner in whose row and field the line row is being read.
Reading(r, row) == Outside(r, First(row, Len(row) - 1), row[Len(row)])

\* After an end of line outside quotes the line has been read.
LEMMA LineEnds ==
    ASSUME NEW T \in Text, NEW f, Scanning(T, f), NEW p \in Nat, p + 1 <= Len(T),
           T[p + 1] = Newline, NEW r, NEW row \in Seq(Text), row # <<>>, f[p] = Reading(r, row)
    PROVE  f[p + 1] = Outside(Append(r, row), <<>>, <<>>)
<1> DEFINE w == First(row, Len(row) - 1)
           c == row[Len(row)]
<1>1. Append(w, c) = row
  <2>1. Len(row) \in 1 .. Len(row)
    OBVIOUS
  <2> QED BY <2>1, FirstGrows
<1>2. f[p] = Outside(r, w, c)
  BY DEF Reading
<1> HIDE DEF w, c
<1>3. f[p + 1] = Scan(T, p + 1, f[p]) /\ ByCharacter(T, p + 1, r, w, c)
  BY OneScanned
<1>4. f[p + 1] = StateOf(Append(r, Append(w, c)), <<>>, <<>>, FALSE,
                     Newline = Return /\ At(T, (p + 1) + 1) = Newline)
  BY <1>2, <1>3, Zenon DEF ByCharacter
<1>5. Newline # Return
  BY CharsDiffer
<1>6. f[p + 1] = StateOf(Append(r, Append(w, c)), <<>>, <<>>, FALSE, FALSE)
  <2>1. (Newline = Return /\ At(T, (p + 1) + 1) = Newline) = FALSE
    BY <1>5, Zenon
  <2> QED BY <1>4, <2>1, Zenon
<1> QED BY <1>1, <1>6, Zenon DEF Outside

\* The scanner reads a file line after line; the last one is still open at its end.
LEMMA FileScanned ==
    ASSUME NEW rows \in Seq(TableLine), NEW f, Scanning(Printed(rows), f)
    PROVE  LET all == <<Heading>> \o rows
               n == Len(rows)
           IN  /\ Printed(rows) \in Text
               /\ f[Len(Printed(rows))] = Reading(First(all, n), all[n + 1])
<1> DEFINE n == Len(rows)
           all == <<Heading>> \o rows
           T == Printed(rows)
<1>1. PICK t : Grown(t, n, Line(Heading), Lines(rows)) /\ T = t[n]
  BY FileText
<1>2. /\ n \in Nat /\ Lines(rows) \in [1 .. n -> Text] /\ <<Newline>> \in Text
      /\ Heading \in Seq(Text) /\ Heading # <<>> /\ Line(Heading) \in Text
      /\ \A k \in 1 .. n : /\ rows[k] \in Seq(Text) /\ rows[k] # <<>> /\ Line(rows[k]) \in Text
                           /\ Lines(rows)[k] = <<Newline>> \o Line(rows[k])
  BY LinesAreText
<1>3. /\ all \in Seq(Seq(Text)) /\ Len(all) = n + 1 /\ all[1] = Heading
      /\ \A k \in 1 .. n : all[k + 1] = rows[k]
      /\ \A k \in 1 .. n : all[k] \in Seq(Text) /\ all[k] # <<>>
  <2>1. Heading \in Seq(Text) /\ Heading # <<>> /\ rows \in Seq(Seq(Text))
    <3>1. rows \in Seq(Seq(Text))
      BY DEF TableLine
    <3> QED BY <1>2, <3>1
  <2>2. /\ all \in Seq(Seq(Text)) /\ Len(all) = n + 1 /\ all[1] = Heading
        /\ \A k \in 1 .. n : all[k + 1] = rows[k]
    BY <2>1
  <2> HIDE DEF all
  <2>3. ASSUME NEW k \in 1 .. n PROVE all[k] \in Seq(Text) /\ all[k] # <<>>
    <3>1. CASE k = 1
      BY <2>1, <2>2, <3>1
    <3>2. CASE k # 1
      <4>1. k - 1 \in 1 .. n /\ (k - 1) + 1 = k
        BY <1>2, <3>2
      <4>2. all[(k - 1) + 1] = rows[k - 1] /\ rows[k - 1] \in Seq(Text) /\ rows[k - 1] # <<>>
        <5>1. \A j \in 1 .. n : all[j + 1] = rows[j] /\ rows[j] \in Seq(Text) /\ rows[j] # <<>>
          BY <1>2, <2>2
        <5> HIDE DEF n
        <5> QED BY <4>1, <5>1, Zenon
      <4> QED BY <4>1, <4>2
    <3> QED BY <3>1, <3>2
  <2> QED BY <2>2, <2>3
<1>4. First(all, 0) = <<>> /\ \A k \in 1 .. n : Append(First(all, k - 1), all[k]) = First(all, k)
  <2> HIDE DEF all, n
  <2>1. \A k \in 1 .. n : k \in 1 .. Len(all)
    BY <1>2, <1>3
  <2> QED BY <1>3, <2>1, FirstGrows
<1>5. T \in Text /\ Len(T) \in Nat /\ DOMAIN T = 1 .. Len(T)
  <2>1. n \in 0 .. n
    BY <1>2
  <2>2. T \in Text
    BY <1>1, <2>1 DEF Grown
  <2> HIDE DEF T
  <2> QED BY <2>2 DEF Text
<1> HIDE DEF all, n, T
<1>6. Laid(T, 0, n, Lines(rows), t)
  <2>1. Has(T, 0, T)
    BY <1>5 DEF Has
  <2>2. Has(T, 0, t[n])
    BY <1>1, <2>1
  <2> QED BY <1>1, <1>2, <1>5, <2>2, PiecesAreThere
<1> DEFINE spot(k) == 0 + Len(t[k])
<1>7. /\ \A k \in 0 .. n : spot(k) \in Nat
      /\ \A k \in 1 .. n : /\ Has(T, spot(k - 1), Lines(rows)[k])
                           /\ spot(k) = spot(k - 1) + Len(Lines(rows)[k])
  BY <1>6, Zenon DEF Laid
<1>8. t[0] = Line(Heading) /\ spot(0) = Len(Line(Heading)) /\ spot(n) = Len(T)
  <2>1. t[0] = Line(Heading)
    BY <1>1 DEF Grown
  <2>2. Len(Line(Heading)) \in Nat
    BY <1>2 DEF Text
  <2>3. spot(n) = Len(T)
    BY <1>1, <1>5
  <2> QED BY <2>1, <2>2, <2>3
<1> HIDE DEF spot
<1>9. Scanning(T, f) /\ f[0] = Outside(<<>>, <<>>, <<>>)
  <2>1. Scanning(T, f)
    BY DEF T
  <2>2. Start = Outside(<<>>, <<>>, <<>>)
    BY Zenon DEF Start, Outside, StateOf
  <2> QED BY <2>1, <2>2 DEF Scanning
<1>10. ASSUME NEW k \in 1 .. n
       PROVE  /\ spot(k - 1) \in Nat /\ spot(k - 1) + 1 \in Nat /\ spot(k - 1) + 1 <= Len(T)
              /\ T[spot(k - 1) + 1] = Newline
              /\ Has(T, spot(k - 1) + 1, Line(rows[k]))
              /\ spot(k) = spot(k - 1) + 1 + Len(Line(rows[k]))
  <2> DEFINE q == spot(k - 1)
  <2>1. q \in Nat /\ Has(T, q, <<Newline>> \o Line(rows[k])) /\ Line(rows[k]) \in Text
        /\ spot(k) = q + Len(<<Newline>> \o Line(rows[k]))
    <3>1. k - 1 \in 0 .. n
      BY <1>2
    <3> QED BY <1>2, <1>7, <3>1
  <2> HIDE DEF q
  <2>2. Len(<<Newline>>) = 1
        /\ Len(<<Newline>> \o Line(rows[k])) = 1 + Len(Line(rows[k]))
        /\ Len(Line(rows[k])) \in Nat
    BY <1>2, <2>1 DEF Text
  <2>3. Has(T, q, <<Newline>>) /\ Has(T, q + 1, Line(rows[k]))
    BY <1>2, <1>5, <2>1, <2>2, HasParts
  <2>4. q + 1 <= Len(T) /\ T[q + 1] = Newline
    BY <1>5, <2>1, <2>3 DEF Has
  <2>5. spot(k) = q + 1 + Len(Line(rows[k]))
    BY <2>1, <2>2
  <2> QED BY <2>1, <2>3, <2>4, <2>5 DEF q
<1>11. ASSUME NEW k \in 0 .. n PROVE At(T, spot(k) + 1) # Quote
  <2>1. CASE k = n
    <3>1. spot(k) + 1 \notin DOMAIN T
      BY <1>5, <1>8, <2>1
    <3> QED BY <3>1, CharsDiffer DEF At
  <2>2. CASE k # n
    <3>1. k + 1 \in 1 .. n /\ (k + 1) - 1 = k
      BY <1>2, <2>2
    <3>2. spot(k) \in Nat /\ spot(k) + 1 <= Len(T) /\ T[spot(k) + 1] = Newline
      BY <1>10, <3>1
    <3>3. spot(k) + 1 \in DOMAIN T
      BY <1>5, <3>2
    <3> QED BY <3>2, <3>3, CharsDiffer DEF At
  <2> QED BY <2>1, <2>2
<1> DEFINE P == {k \in 0 .. n : f[spot(k)] = Reading(First(all, k), all[k + 1])}
<1>12. 0 \in P
  <2>1. Has(T, 0, Line(Heading))
    <3>1. Has(T, 0, T) /\ 0 \in 0 .. n /\ n \in 0 .. n
      BY <1>2, <1>5 DEF Has
    <3>2. \A k \in 0 .. n : t[k] \in Text
      BY <1>1 DEF Grown
    <3>3. Has(t[n], 0, t[0])
      <4>1. \A i \in 1 .. n : \E v \in Text : t[i] = t[i - 1] \o v
        BY <1>1, <1>2 DEF Grown
      <4>2. t \in [0 .. n -> Text]
        BY <1>1 DEF Grown
      <4>3. \A j \in 0 .. n : \A k \in 0 .. j : Has(t[j], 0, t[k])
        BY <1>2, <4>1, <4>2, StagesAreThere
      <4> QED BY <1>2, <3>1, <4>3
    <3> QED BY <1>1, <1>8, <3>3
  <2>2. Len(Line(Heading)) \in Nat /\ 0 + Len(Line(Heading)) = spot(0)
    BY <1>2, <1>8 DEF Text
  <2>3. At(T, 0 + Len(Line(Heading)) + 1) # Quote
    <3>1. At(T, spot(0) + 1) # Quote
      BY <1>2, <1>11
    <3> QED BY <2>2, <3>1
  <2>4. f[0 + Len(Line(Heading))] =
            Outside(<<>>, First(Heading, Len(Heading) - 1), Heading[Len(Heading)])
    BY <1>2, <1>5, <1>9, <2>1, <2>3, LineScanned
  <2>5. f[spot(0)] = Reading(<<>>, Heading)
    BY <2>2, <2>4 DEF Reading
  <2>6. First(all, 0) = <<>> /\ all[0 + 1] = Heading /\ 0 \in 0 .. n
    BY <1>2, <1>3, <1>4
  <2> QED BY <2>5, <2>6
<1>13. ASSUME NEW k \in 1 .. n, k - 1 \in P PROVE k \in P
  <2> DEFINE q == spot(k - 1)
  <2>1. f[q] = Reading(First(all, k - 1), all[k])
    <3>1. (k - 1) + 1 = k
      OBVIOUS
    <3> QED BY <1>13, <3>1
  <2>2. /\ q \in Nat /\ q + 1 \in Nat /\ q + 1 <= Len(T) /\ T[q + 1] = Newline
        /\ Has(T, q + 1, Line(rows[k])) /\ spot(k) = q + 1 + Len(Line(rows[k]))
    BY <1>10
  <2> HIDE DEF q
  <2>3. f[q + 1] = Outside(Append(First(all, k - 1), all[k]), <<>>, <<>>)
    BY <1>3, <1>5, <1>9, <2>1, <2>2, LineEnds
  <2>4. f[q + 1] = Outside(First(all, k), <<>>, <<>>)
    BY <1>4, <2>3
  <2>5. At(T, (q + 1) + Len(Line(rows[k])) + 1) # Quote
    BY <1>11, <2>2
  <2>6. f[(q + 1) + Len(Line(rows[k]))] =
            Outside(First(all, k), First(rows[k], Len(rows[k]) - 1), rows[k][Len(rows[k])])
    <3> DEFINE m == q + 1
    <3>1. m \in Nat /\ Has(T, m, Line(rows[k])) /\ At(T, m + Len(Line(rows[k])) + 1) # Quote
          /\ f[m] = Outside(First(all, k), <<>>, <<>>)
      BY <2>2, <2>4, <2>5
    <3> HIDE DEF m
    <3>2. f[m + Len(Line(rows[k]))] =
            Outside(First(all, k), First(rows[k], Len(rows[k]) - 1), rows[k][Len(rows[k])])
      <4>1. rows[k] \in Seq(Text) /\ rows[k] # <<>>
        BY <1>2
      <4>2. T \in Text /\ Scanning(T, f)
        BY <1>5, <1>9
      <4> HIDE DEF T
      <4> QED BY <3>1, <4>1, <4>2, LineScanned
    <3> QED BY <3>2 DEF m
  <2>7. f[spot(k)] = Reading(First(all, k), rows[k])
    BY <2>2, <2>6 DEF Reading
  <2>8. k \in 0 .. n /\ all[k + 1] = rows[k]
    BY <1>2, <1>3
  <2> QED BY <2>7, <2>8
<1>14. P = 0 .. n
  <2>1. P \in SUBSET (0 .. n)
    OBVIOUS
  <2> HIDE DEF P
  <2> QED BY <1>2, <1>12, <1>13, <2>1, RowAfterRow
<1>15. n \in P
  <2> HIDE DEF P
  <2> QED BY <1>2, <1>14
<1>16. f[spot(n)] = Reading(First(all, n), all[n + 1])
  BY <1>15
<1>17. f[Len(T)] = Reading(First(all, n), all[n + 1])
  BY <1>8, <1>16
<1> QED BY <1>5, <1>17 DEF n, all, T

\* parseCsvText finds the lines again; a last one that is a single empty cell is
\* an end of line to it and no line.
LEMMA FileParsed ==
    ASSUME NEW rows \in Seq(TableLine)
    PROVE  LET all == <<Heading>> \o rows
               n == Len(rows)
           IN  /\ all \in Seq(Seq(Text)) /\ Len(all) = n + 1
               /\ \/ Parsed(Printed(rows)) = all
                  \/ Parsed(Printed(rows)) = First(all, n) /\ all[n + 1] = <<<<>>>>
<1> DEFINE n == Len(rows)
           all == <<Heading>> \o rows
           T == Printed(rows)
           row == all[n + 1]
           m == Len(row)
<1>1. /\ all \in Seq(Seq(Text)) /\ Len(all) = n + 1 /\ n \in Nat
      /\ row \in Seq(Text) /\ row # <<>>
  <2>1. Heading \in Seq(Text) /\ Heading # <<>> /\ rows \in Seq(Seq(Text)) /\ n \in Nat
    <3>2. Heading \in Seq(Text) /\ Heading # <<>>
      BY LinesAreText
    <3>3. rows \in Seq(Seq(Text))
      BY DEF TableLine
    <3> QED BY <3>2, <3>3
  <2>2. all \in Seq(Seq(Text)) /\ Len(all) = n + 1
    BY <2>1
  <2>3. CASE n = 0
    <3>1. row = Heading
      BY <2>1, <2>3
    <3> QED BY <2>1, <2>2, <3>1
  <2>4. CASE n # 0
    <3>1. n \in 1 .. n /\ rows[n] \in TableLine
      BY <2>1, <2>4
    <3>2. row = rows[n]
      BY <2>1, <2>4
    <3> QED BY <2>1, <2>2, <3>1, <3>2 DEF TableLine
  <2> QED BY <2>3, <2>4
<1>2. T \in Text
  <2>1. PICK t : Grown(t, n, Line(Heading), Lines(rows)) /\ T = t[n]
    BY FileText
  <2>2. n \in 0 .. n
    BY <1>1
  <2> QED BY <2>1, <2>2 DEF Grown
<1>3. PICK f : /\ Scanning(T, f)
               /\ Parsed(T) = LET s == f[Len(T)]
                              IN  IF s.field # <<>> \/ s.row # <<>> THEN EndRow(s).rows ELSE s.rows
  <2> HIDE DEF T
  <2> QED BY <1>2, ParsedScan
<1>4. f[Len(T)] = Reading(First(all, n), row)
  BY <1>3, FileScanned
<1> DEFINE r == First(all, n)
           w == First(row, m - 1)
           c == row[m]
<1> HIDE DEF all, n, T, row, m
<1>5. /\ f[Len(T)].field = c /\ f[Len(T)].row = w /\ f[Len(T)].rows = r
      /\ EndRow(f[Len(T)]).rows = Append(r, Append(w, c))
  <2> HIDE DEF r, w, c
  <2>1. f[Len(T)] = StateOf(r, w, c, FALSE, FALSE)
    BY <1>4, Zenon DEF Reading, Outside, r, w, c, m
  <2>2. ASSUME NEW F
        PROVE  /\ EndRow(StateOf(r, w, c, F, F)) = StateOf(Append(r, Append(w, c)), <<>>, <<>>, F, F)
               /\ StateOf(r, w, c, F, F).rows = r /\ StateOf(r, w, c, F, F).row = w
               /\ StateOf(r, w, c, F, F).field = c
               /\ StateOf(Append(r, Append(w, c)), <<>>, <<>>, F, F).rows = Append(r, Append(w, c))
    <3>1. EndRow(StateOf(r, w, c, F, F)) = StateOf(Append(r, Append(w, c)), <<>>, <<>>, F, F)
      BY Ends
    <3> QED BY <3>1 DEF StateOf
  <2> QED BY <2>1, <2>2, Zenon
<1>6. Append(w, c) = row /\ Append(r, row) = all /\ m \in Nat /\ m # 0 /\ Len(w) = m - 1
  <2>1. m \in 1 .. m /\ m \in Nat /\ m # 0 /\ m - 1 \in 0 .. m
    BY <1>1 DEF m
  <2>2. Append(w, c) = row
    BY <1>1, <2>1, FirstGrows DEF m
  <2>3. Len(w) = m - 1
    BY <1>1, <2>1, FirstGrows DEF m
  <2>4. Append(First(all, (n + 1) - 1), all[n + 1]) = First(all, n + 1) /\ First(all, n + 1) = all
    <3>1. n + 1 \in 1 .. Len(all) /\ n + 1 = Len(all)
      BY <1>1
    <3> QED BY <1>1, <3>1, FirstGrows
  <2>5. (n + 1) - 1 = n
    BY <1>1
  <2> QED BY <2>1, <2>2, <2>3, <2>4, <2>5 DEF row
<1>7. CASE c # <<>> \/ w # <<>>
  <2>1. Parsed(T) = Append(r, Append(w, c))
    <3> HIDE DEF c, w, r
    <3> QED BY <1>3, <1>5, <1>7, Zenon
  <2>2. Parsed(T) = all
    BY <1>6, <2>1, Zenon
  <2> QED BY <1>1, <2>2 DEF all, n, T
<1>8. CASE c = <<>> /\ w = <<>>
  <2>1. Parsed(T) = r
    <3> HIDE DEF c, w, r
    <3> QED BY <1>3, <1>5, <1>8, Zenon
  <2>2. row = <<<<>>>>
    <3>1. Append(<<>>, <<>>) = <<<<>>>>
      OBVIOUS
    <3> QED BY <1>6, <1>8, <3>1, Zenon
  <2>3. Parsed(T) = First(all, n) /\ all[n + 1] = <<<<>>>>
    BY <2>1, <2>2 DEF row
  <2> QED BY <1>1, <2>3 DEF all, n, T
<1> QED BY <1>7, <1>8

-----------------------------------------------------------------------------
(* The lines that have something in them. *)

Inked(line) == \E j \in DOMAIN line : Trimmed(line[j]) # <<>>

Keeps(kept, lines, S) ==
    /\ kept \in [0 .. Len(lines) -> Seq(S)]
    /\ kept[0] = <<>>
    /\ \A i \in 1 .. Len(lines) :
        kept[i] = IF Inked(lines[i]) THEN Append(kept[i - 1], lines[i]) ELSE kept[i - 1]

\* Filled goes through the lines and keeps those.
LEMMA FilledKeeps ==
    ASSUME NEW S, NEW lines \in Seq(S)
    PROVE  \E kept : Keeps(kept, lines, S) /\ Filled(lines) = kept[Len(lines)]
<1> DEFINE n == Len(lines)
           V == Seq(S)
           step == [p \in (1 .. n) \X V |->
                        IF Inked(lines[p[1]]) THEN Append(p[2], lines[p[1]]) ELSE p[2]]
           kept[i \in 0 .. n] ==
                IF i = 0 THEN <<>>
                ELSE IF \E j \in DOMAIN lines[i] : Trimmed(lines[i][j]) # <<>>
                THEN Append(kept[i - 1], lines[i]) ELSE kept[i - 1]
<1>1. n \in Nat /\ <<>> \in V /\ \A i \in 1 .. n : lines[i] \in S
  OBVIOUS
<1>2. step \in [(1 .. n) \X V -> V]
  <2>1. \A p \in (1 .. n) \X V : p[2] \in V /\ Append(p[2], lines[p[1]]) \in V
    BY <1>1
  <2> HIDE DEF V, n
  <2> QED BY <2>1
<1>3. \A i \in 1 .. n, v \in V :
        step[<<i, v>>] = IF Inked(lines[i]) THEN Append(v, lines[i]) ELSE v
  <2> HIDE DEF V, n
  <2> QED OBVIOUS
<1> HIDE DEF step
<1>4. PICK h : Follows(h, n, V, <<>>, step)
  <2>1. Goes(step, n, V)
    BY <1>2 DEF Goes
  <2> HIDE DEF n, V
  <2> QED BY <1>1, <2>1, Iterates
<1>5. h \in [0 .. n -> V] /\ h[0] = <<>> /\ \A i \in 1 .. n : h[i] = step[<<i, h[i - 1]>>]
  BY <1>4 DEF Follows
<1>6. \A i \in 1 .. n : h[i] = IF Inked(lines[i]) THEN Append(h[i - 1], lines[i]) ELSE h[i - 1]
  <2> SUFFICES ASSUME NEW i \in 1 .. n
               PROVE h[i] = IF Inked(lines[i]) THEN Append(h[i - 1], lines[i]) ELSE h[i - 1]
    OBVIOUS
  <2>1. i - 1 \in 0 .. n
    BY <1>1
  <2> HIDE DEF n, V
  <2>2. h[i - 1] \in V
    BY <1>5, <2>1
  <2> QED BY <1>3, <1>5, <2>2, Zenon
<1>7. \E k : k = [i \in 0 .. n |->
                IF i = 0 THEN <<>>
                ELSE IF \E j \in DOMAIN lines[i] : Trimmed(lines[i][j]) # <<>>
                THEN Append(k[i - 1], lines[i]) ELSE k[i - 1]]
  <2>1. h = [i \in 0 .. n |-> h[i]]
    BY <1>5
  <2>2. \A i \in 0 .. n : i # 0 => i \in 1 .. n
    BY <1>1
  <2> HIDE DEF n
  <2>3. \A i \in 0 .. n : h[i] =
                IF i = 0 THEN <<>>
                ELSE IF \E j \in DOMAIN lines[i] : Trimmed(lines[i][j]) # <<>>
                THEN Append(h[i - 1], lines[i]) ELSE h[i - 1]
    BY <1>5, <1>6, <2>2, Zenon DEF Inked
  <2> QED BY <2>1, <2>3, Zenon
<1>8. kept = [i \in 0 .. n |->
                IF i = 0 THEN <<>>
                ELSE IF \E j \in DOMAIN lines[i] : Trimmed(lines[i][j]) # <<>>
                THEN Append(kept[i - 1], lines[i]) ELSE kept[i - 1]]
  BY <1>7, Zenon
<1>9. Filled(lines) = kept[n]
  BY DEF Filled
<1> HIDE DEF kept
<1>10. kept[n] = h[n]
  <2> DEFINE P == {i \in 0 .. n : kept[i] = h[i]}
  <2>1. 0 \in P
    <3>1. 0 \in 0 .. n
      BY <1>1
    <3> HIDE DEF n
    <3>2. kept[0] = <<>>
      BY <1>8, <3>1, Zenon
    <3> QED BY <1>5, <3>1, <3>2
  <2>2. ASSUME NEW i \in 1 .. n, i - 1 \in P PROVE i \in P
    <3>1. i \in 0 .. n /\ i # 0 /\ kept[i - 1] = h[i - 1]
      BY <1>1, <2>2
    <3> HIDE DEF n
    <3>2. kept[i] = IF Inked(lines[i]) THEN Append(kept[i - 1], lines[i]) ELSE kept[i - 1]
      BY <1>8, <3>1, Zenon DEF Inked
    <3>3. h[i] = IF Inked(lines[i]) THEN Append(h[i - 1], lines[i]) ELSE h[i - 1]
      BY <1>6, <2>2, Zenon
    <3>4. kept[i] = h[i]
      <4>1. CASE Inked(lines[i])
        BY <3>1, <3>2, <3>3, <4>1
      <4>2. CASE ~Inked(lines[i])
        BY <3>1, <3>2, <3>3, <4>2
      <4> QED BY <4>1, <4>2
    <3> QED BY <3>1, <3>4
  <2>3. P = 0 .. n
    <3>1. P \in SUBSET (0 .. n)
      OBVIOUS
    <3> HIDE DEF P, n
    <3> QED BY <1>1, <2>1, <2>2, <3>1, RowAfterRow
  <2>4. n \in P
    <3> HIDE DEF P
    <3> QED BY <1>1, <2>3
  <2> QED BY <2>4
<1>11. Keeps(h, lines, S)
  BY <1>5, <1>6, Zenon DEF Keeps
<1> HIDE DEF n
<1> QED BY <1>9, <1>10, <1>11 DEF n

\* A line that has something in it is kept in front of what is kept of the others.
LEMMA FilledFront ==
    ASSUME NEW S, NEW h \in S, NEW lines \in Seq(S), Inked(h)
    PROVE  /\ Filled(lines) \in Seq(S)
           /\ Filled(<<h>> \o lines) = <<h>> \o Filled(lines)
<1> DEFINE n == Len(lines)
           all == <<h>> \o lines
<1>1. /\ all \in Seq(S) /\ Len(all) = n + 1 /\ n \in Nat /\ all[1] = h
      /\ \A i \in 1 .. n : all[i + 1] = lines[i] /\ lines[i] \in S
  OBVIOUS
<1> HIDE DEF all, n
<1>2. PICK A : Keeps(A, all, S) /\ Filled(all) = A[n + 1]
  BY <1>1, FilledKeeps
<1>3. PICK B : Keeps(B, lines, S) /\ Filled(lines) = B[n]
  BY FilledKeeps DEF n
<1>4. /\ A[0] = <<>>
      /\ \A i \in 1 .. n + 1 : A[i] = IF Inked(all[i]) THEN Append(A[i - 1], all[i]) ELSE A[i - 1]
  BY <1>1, <1>2 DEF Keeps
<1>5. /\ B \in [0 .. n -> Seq(S)] /\ B[0] = <<>>
      /\ \A i \in 1 .. n : B[i] = IF Inked(lines[i]) THEN Append(B[i - 1], lines[i]) ELSE B[i - 1]
  BY <1>3 DEF Keeps, n
<1> DEFINE P == {i \in 0 .. n : A[i + 1] = <<h>> \o B[i]}
<1>6. 0 \in P
  <2>1. 1 \in 1 .. n + 1 /\ 1 - 1 = 0 /\ 0 + 1 = 1 /\ 0 \in 0 .. n
    BY <1>1
  <2>2. A[1] = Append(<<>>, h)
    BY <1>1, <1>4, <2>1
  <2>3. Append(<<>>, h) = <<h>> \o <<>>
    OBVIOUS
  <2> QED BY <1>5, <2>1, <2>2, <2>3
<1>7. ASSUME NEW i \in 1 .. n, i - 1 \in P PROVE i \in P
  <2>1. i + 1 \in 1 .. n + 1 /\ (i + 1) - 1 = i /\ (i - 1) + 1 = i /\ i - 1 \in 0 .. n /\ i \in 0 .. n
    BY <1>1
  <2>2. A[i] = <<h>> \o B[i - 1]
    BY <1>7, <2>1
  <2>3. all[i + 1] = lines[i] /\ lines[i] \in S /\ B[i - 1] \in Seq(S)
    BY <1>1, <1>5, <2>1
  <2> HIDE DEF P
  <2>4. A[i + 1] = IF Inked(lines[i]) THEN Append(A[i], lines[i]) ELSE A[i]
    BY <1>4, <2>1, <2>3
  <2>5. B[i] = IF Inked(lines[i]) THEN Append(B[i - 1], lines[i]) ELSE B[i - 1]
    BY <1>5
  <2>6. Append(<<h>> \o B[i - 1], lines[i]) = <<h>> \o Append(B[i - 1], lines[i])
    <3>1. \A s \in Seq(S), x \in S : Append(<<h>> \o s, x) = <<h>> \o Append(s, x)
      <4> TAKE s \in Seq(S), x \in S
      <4>1. <<h>> \in Seq(S) /\ <<x>> \in Seq(S) /\ <<h>> \o s \in Seq(S)
        OBVIOUS
      <4>2. (<<h>> \o s) \o <<x>> = <<h>> \o (s \o <<x>>)
        BY <4>1, ConcatAssociative
      <4>3. Append(<<h>> \o s, x) = (<<h>> \o s) \o <<x>> /\ Append(s, x) = s \o <<x>>
        BY <4>1, AppendIsConcat
      <4> QED BY <4>2, <4>3
    <3> QED BY <2>3, <3>1
  <2>7. A[i + 1] = <<h>> \o B[i]
    <3>1. CASE Inked(lines[i])
      BY <2>2, <2>4, <2>5, <2>6, <3>1
    <3>2. CASE ~Inked(lines[i])
      BY <2>2, <2>4, <2>5, <3>2
    <3> QED BY <3>1, <3>2
  <2> QED BY <2>1, <2>7 DEF P
<1>8. P = 0 .. n
  <2>1. P \in SUBSET (0 .. n)
    OBVIOUS
  <2> HIDE DEF P
  <2> QED BY <1>1, <1>6, <1>7, <2>1, RowAfterRow
<1>9. n \in P /\ n \in 0 .. n
  <2> HIDE DEF P
  <2> QED BY <1>1, <1>8
<1>10. A[n + 1] = <<h>> \o B[n] /\ B[n] \in Seq(S)
  BY <1>5, <1>9
<1> QED BY <1>2, <1>3, <1>10 DEF all

\* A last line with nothing in it makes no difference.
LEMMA FilledBack ==
    ASSUME NEW S, NEW lines \in Seq(S), NEW n \in Nat, Len(lines) = n + 1, ~Inked(lines[n + 1])
    PROVE  Filled(First(lines, n)) = Filled(lines)
<1> DEFINE front == First(lines, n)
<1>1. front \in Seq(S) /\ Len(front) = n
  <2>1. n \in 0 .. Len(lines)
    OBVIOUS
  <2> QED BY <2>1, FirstGrows
<1>2. \A i \in 1 .. n : front[i] = lines[i]
  BY DEF First
<1> HIDE DEF front
<1>3. PICK A : Keeps(A, lines, S) /\ Filled(lines) = A[n + 1]
  BY FilledKeeps
<1>4. PICK B : Keeps(B, front, S) /\ Filled(front) = B[n]
  BY <1>1, FilledKeeps
<1>5. /\ A[0] = <<>>
      /\ \A i \in 1 .. n + 1 : A[i] = IF Inked(lines[i]) THEN Append(A[i - 1], lines[i]) ELSE A[i - 1]
  BY <1>3 DEF Keeps
<1>6. /\ B[0] = <<>>
      /\ \A i \in 1 .. n : B[i] = IF Inked(front[i]) THEN Append(B[i - 1], front[i]) ELSE B[i - 1]
  BY <1>1, <1>4 DEF Keeps
<1> DEFINE P == {i \in 0 .. n : A[i] = B[i]}
<1>7. 0 \in P
  BY <1>5, <1>6
<1>8. ASSUME NEW i \in 1 .. n, i - 1 \in P PROVE i \in P
  <2>1. i \in 1 .. n + 1 /\ i \in 0 .. n /\ front[i] = lines[i] /\ A[i - 1] = B[i - 1]
    BY <1>2, <1>8
  <2> HIDE DEF P
  <2>2. A[i] = IF Inked(lines[i]) THEN Append(A[i - 1], lines[i]) ELSE A[i - 1]
    BY <1>5, <2>1, Zenon
  <2>3. B[i] = IF Inked(lines[i]) THEN Append(A[i - 1], lines[i]) ELSE A[i - 1]
    BY <1>6, <2>1, Zenon
  <2>4. A[i] = B[i]
    <3>1. CASE Inked(lines[i])
      BY <2>2, <2>3, <3>1
    <3>2. CASE ~Inked(lines[i])
      BY <2>2, <2>3, <3>2
    <3> QED BY <3>1, <3>2
  <2> QED BY <2>1, <2>4 DEF P
<1>9. P = 0 .. n
  <2>1. P \in SUBSET (0 .. n)
    OBVIOUS
  <2> HIDE DEF P
  <2> QED BY <1>7, <1>8, <2>1, RowAfterRow
<1>10. A[n] = B[n]
  <2>1. n \in P
    <3> HIDE DEF P
    <3> QED BY <1>9
  <2> QED BY <2>1
<1>11. A[n + 1] = A[n]
  <2>1. n + 1 \in 1 .. n + 1 /\ (n + 1) - 1 = n
    OBVIOUS
  <2> QED BY <1>5, <2>1
<1> QED BY <1>3, <1>4, <1>10, <1>11 DEF front

\* The heading has something in it, a single empty cell has not.
LEMMA HeadingInked == Inked(Heading) /\ ~Inked(<<<<>>>>)
<1>1. Trimmed(<<>>) = <<>>
  <2>1. {i \in DOMAIN <<>> : <<>>[i] \notin {Blank, Newline, Return}} = {}
    OBVIOUS
  <2> QED BY <2>1 DEF Trimmed
<1>2. ~Inked(<<<<>>>>)
  <2>1. DOMAIN <<<<>>>> = {1} /\ <<<<>>>>[1] = <<>>
    OBVIOUS
  <2> QED BY <1>1, <2>1 DEF Inked
<1>3. Trimmed(<<"a">>) # <<>>
  <2> DEFINE inked == {i \in DOMAIN <<"a">> : <<"a">>[i] \notin {Blank, Newline, Return}}
  <2>1. inked = {1}
    <3>1. "a" \notin {Blank, Newline, Return}
      BY CharsDiffer
    <3>2. DOMAIN <<"a">> = {1} /\ <<"a">>[1] = "a"
      OBVIOUS
    <3> QED BY <3>1, <3>2
  <2>2. (CHOOSE i \in inked : \A j \in inked : i <= j) = 1
        /\ (CHOOSE i \in inked : \A j \in inked : j <= i) = 1
    <3> HIDE DEF inked
    <3>1. \E i \in inked : \A j \in inked : i <= j
      BY <2>1
    <3>2. \E i \in inked : \A j \in inked : j <= i
      BY <2>1
    <3>3. (CHOOSE i \in inked : \A j \in inked : i <= j) \in inked
      BY <3>1
    <3>4. (CHOOSE i \in inked : \A j \in inked : j <= i) \in inked
      BY <3>2
    <3> QED BY <2>1, <3>3, <3>4
  <2>3. Trimmed(<<"a">>) = SubSeq(<<"a">>, CHOOSE i \in inked : \A j \in inked : i <= j,
                                           CHOOSE i \in inked : \A j \in inked : j <= i)
    <3>1. inked # {}
      BY <2>1
    <3> QED BY <3>1, Zenon DEF Trimmed
  <2>4. Trimmed(<<"a">>) = SubSeq(<<"a">>, 1, 1)
    <3> HIDE DEF inked
    <3> QED BY <2>2, <2>3
  <2>5. Len(SubSeq(<<"a">>, 1, 1)) = 1 /\ Len(<<>>) = 0
    OBVIOUS
  <2> QED BY <2>4, <2>5
<1>4. Inked(Heading)
  <2>1. 1 \in DOMAIN Heading /\ Heading[1] = <<"a">>
    BY DEF Heading
  <2> QED BY <1>3, <2>1 DEF Inked
<1> QED BY <1>2, <1>4

-----------------------------------------------------------------------------
(* Printing and reading. *)

\* A table of any number of lines, of any number of cells each, with anything in
\* them, is read back as it was printed, but for blanks around a cell and lines
\* of nothing else.
THEOREM TablesAreReadBack ==
    ASSUME NEW rows \in Seq(TableLine)
    PROVE  Imported(Printed(rows)) = Cleaned(Filled(rows))
<1> DEFINE all == <<Heading>> \o rows
           n == Len(rows)
           F == Filled(rows)
           lines == Filled(Parsed(Printed(rows)))
<1>1. Heading \in Seq(Text) /\ rows \in Seq(Seq(Text)) /\ n \in Nat
  <2>2. Heading \in Seq(Text)
    BY LinesAreText
  <2>3. rows \in Seq(Seq(Text))
    BY DEF TableLine
  <2> QED BY <2>2, <2>3
<1>2. F \in Seq(Seq(Text)) /\ Filled(all) = <<Heading>> \o F
  BY <1>1, HeadingInked, FilledFront
<1>3. lines = Filled(all)
  <2>1. all \in Seq(Seq(Text)) /\ Len(all) = n + 1
    BY FileParsed
  <2>2. CASE Parsed(Printed(rows)) = all
    BY <2>2
  <2>3. CASE Parsed(Printed(rows)) = First(all, n) /\ all[n + 1] = <<<<>>>>
    <3>1. ~Inked(all[n + 1])
      BY <2>3, HeadingInked
    <3> HIDE DEF all, n
    <3>2. Filled(First(all, n)) = Filled(all)
      BY <1>1, <2>1, <3>1, FilledBack
    <3> QED BY <2>3, <3>2
  <2> QED BY <2>2, <2>3, FileParsed
<1>4. /\ Len(lines) - 1 = Len(F) /\ DOMAIN F = 1 .. Len(F)
      /\ \A k \in 1 .. Len(F) : lines[k + 1] = F[k]
  <2>1. lines = <<Heading>> \o F
    BY <1>2, <1>3
  <2> HIDE DEF lines, F
  <2> QED BY <1>1, <1>2, <2>1
<1>5. Imported(Printed(rows)) =
        [k \in 1 .. Len(lines) - 1 |-> [i \in DOMAIN lines[k + 1] |-> Trimmed(lines[k + 1][i])]]
  BY DEF Imported
<1>6. Cleaned(F) = [k \in DOMAIN F |-> [i \in DOMAIN F[k] |-> Trimmed(F[k][i])]]
  BY DEF Cleaned
<1> HIDE DEF lines, F
<1>7. \A k \in 1 .. Len(F) : [i \in DOMAIN lines[k + 1] |-> Trimmed(lines[k + 1][i])] =
                             [i \in DOMAIN F[k] |-> Trimmed(F[k][i])]
  BY <1>4
<1>8. [k \in 1 .. Len(F) |-> [i \in DOMAIN lines[k + 1] |-> Trimmed(lines[k + 1][i])]] =
      [k \in 1 .. Len(F) |-> [i \in DOMAIN F[k] |-> Trimmed(F[k][i])]]
  BY <1>7, Zenon
<1>9. Len(lines) - 1 = Len(F) /\ DOMAIN F = 1 .. Len(F) /\ Filled(rows) = F
  BY <1>4 DEF F
<1> QED BY <1>5, <1>6, <1>8, <1>9, Zenon

-----------------------------------------------------------------------------
(* Rows that passed. *)

USE EmployeeAssumption, RowAssumption, SizeAssumption, FileAssumption, NothingAssumption,
    TableAssumption DEF Number

\* A file is a sequence of rows.
LEMMA RowsOfFile ==
    ASSUME NEW rows \in File
    PROVE  /\ Len(rows) \in Nat /\ DOMAIN rows = 1 .. Len(rows) /\ Len(rows) <= MaxRows
           /\ \A i \in DOMAIN rows : rows[i].number \in Number
                                     /\ rows[i].manager \in ManagerOrNone
                                     /\ rows[i].email \in Email \cup {Invalid}
<1>1. PICK n \in 0 .. MaxRows : rows \in [1 .. n -> RowChoice]
  BY DEF File
<1>2. rows \in Seq(RowChoice) /\ Len(rows) = n
  BY <1>1
<1> QED BY <1>1, <1>2

\* What is known of rows that pass: no two have a number or an address in common,
\* the addresses are good, managers are known, and no row is in a loop.
Passed(p, rows) ==
    /\ \A i, j \in DOMAIN rows :
          i # j => rows[i].number # rows[j].number /\ rows[i].email # rows[j].email
    /\ \A i \in DOMAIN rows : rows[i].email \in Email /\ KnownManager(p, rows, i)
    /\ InLoop(p, rows) = {}

\* Rows that are not blocked pass, and their addresses are nobody else's.
LEMMA WhatPasses ==
    ASSUME NEW p, NEW d, NEW rows \in File, Blocked(p, d, rows) = {}
    PROVE  /\ Passed(p, rows)
           /\ \A i \in DOMAIN rows :
                  \A n \in Present(d) \ {rows[i].number} : d[n].email # rows[i].email
BY RowsOfFile DEF Passed, Blocked, Duplicates, Same, Taken, Malformed, NumberOf, EmailOf

\* The structure a file asks for has the managers of its rows, and who is not in
\* it keeps a manager who is present.
LEMMA CombinedManagers ==
    ASSUME NEW p \in Table, NEW rows \in File, Passed(p, rows)
    PROVE  /\ Combined(p, rows) \in Structure
           /\ \A i \in DOMAIN rows : Combined(p, rows)[rows[i].number] = rows[i].manager
           /\ \A n \in Number : (\A i \in DOMAIN rows : rows[i].number # n)
                                    => Combined(p, rows)[n] = ActiveEdges(p)[n]
<1> DEFINE of(n) == {i \in DOMAIN rows : rows[i].number = n}
           last(n) == CHOOSE i \in of(n) : \A j \in of(n) : j <= i
           h == Combined(p, rows)
<1>1. \A n \in Number :
          h[n] = IF of(n) = {} THEN ActiveEdges(p)[n]
                 ELSE IF KnownManager(p, rows, last(n)) THEN rows[last(n)].manager ELSE NoManager
  BY DEF Combined
<1>2. ASSUME NEW i \in DOMAIN rows
      PROVE  /\ h[rows[i].number] = rows[i].manager
             /\ rows[i].manager \in ManagerOrNone
  <2>1. of(rows[i].number) = {i} /\ i \in Int /\ rows[i].number \in Number
    BY RowsOfFile DEF Passed
  <2>2. last(rows[i].number) = i
    BY <2>1
  <2>3. KnownManager(p, rows, i)
    BY DEF Passed
  <2> HIDE DEF of, last, h
  <2> QED BY <1>1, <2>1, <2>2, <2>3, RowsOfFile
<1>3. ASSUME NEW n \in Number, \A i \in DOMAIN rows : rows[i].number # n
      PROVE  h[n] = ActiveEdges(p)[n]
  BY <1>1, <1>3
<1>4. ActiveEdges(p) \in Structure
  BY DEF ActiveEdges, Present, Structure, ManagerOrNone, Table, Record
<1>5. \A n \in Number : h[n] \in ManagerOrNone
  BY <1>2, <1>3, <1>4 DEF Structure
<1> QED BY <1>2, <1>3, <1>5 DEF Combined, Structure

-----------------------------------------------------------------------------
(* What others do. *)

\* Records are what they are made of.
LEMMA RecordOf ==
    ASSUME NEW d \in Table, NEW n \in Number
    PROVE  /\ d[n] = Nothing \/ d[n] \in Record
           /\ d[n] \in Record => /\ d[n] # Nothing
                                 /\ d[n].email \in Email /\ d[n].manager \in ManagerOrNone
                                 /\ d[n].edge \in ManagerOrNone /\ d[n].gone \in BOOLEAN
BY DEF Table, Record

\* What is due lands: only the manager changes, and of those only to whom it is due.
LEMMA LandedIs ==
    ASSUME NEW d \in Table
    PROVE  /\ Landed(d) \in Table
           /\ \A n \in Number : n \notin Due(d) => Landed(d)[n] = d[n]
           /\ \A n \in Number : d[n] # Nothing =>
                 /\ Landed(d)[n] # Nothing
                 /\ Landed(d)[n].email = d[n].email /\ Landed(d)[n].gone = d[n].gone
                 /\ Landed(d)[n].edge = d[n].edge
                 /\ Landed(d)[n].manager \in {d[n].manager, d[n].edge}
           /\ \A n \in Number : d[n] = Nothing => Landed(d)[n] = Nothing
           /\ Refers(d) => Refers(Landed(d))
<1>1. \A n \in Number : n \in Due(d) => d[n] \in Record /\ d[n] # Nothing
  BY DEF Due, Present, Table
<1>2. ASSUME NEW n \in Number
      PROVE  /\ Landed(d)[n] \in Record \cup {Nothing}
             /\ n \notin Due(d) => Landed(d)[n] = d[n]
             /\ d[n] # Nothing =>
                 /\ Landed(d)[n] # Nothing
                 /\ Landed(d)[n].email = d[n].email /\ Landed(d)[n].gone = d[n].gone
                 /\ Landed(d)[n].edge = d[n].edge
                 /\ Landed(d)[n].manager \in {d[n].manager, d[n].edge}
             /\ d[n] = Nothing => Landed(d)[n] = Nothing
  <2>1. CASE n \notin Due(d)
    BY <2>1, RecordOf DEF Landed
  <2>2. CASE n \in Due(d)
    <3>1. Landed(d)[n] = [d[n] EXCEPT !.manager = d[n].edge]
      BY <2>2 DEF Landed
    <3>2. d[n] \in Record /\ d[n] # Nothing
      BY <1>1, <2>2
    <3>3. /\ Landed(d)[n] \in Record
          /\ Landed(d)[n].email = d[n].email /\ Landed(d)[n].gone = d[n].gone
          /\ Landed(d)[n].edge = d[n].edge /\ Landed(d)[n].manager = d[n].edge
      BY <3>1, <3>2 DEF Record
    <3> QED BY <2>2, <3>2, <3>3
  <2> QED BY <2>1, <2>2
<1>3. Landed(d) \in Table
  BY <1>2 DEF Landed, Table
<1>4. Refers(d) => Refers(Landed(d))
  BY <1>2 DEF Refers
<1> QED BY <1>2, <1>3, <1>4

\* The stages in which the rows are not loaded yet.
Before == {"none", "addresses", "load"}

\* A commit of others leaves the rows alone that this transaction has written, and
\* marks as overtaken whom it changes once the rows are loaded.
OthersLeave ==
    /\ db' \in Table /\ Refers(db')
    /\ \A k \in Number : own[k] # Nothing => db'[k] = db[k]
    /\ \A k \in Number : db[k] # Nothing => db'[k] # Nothing
    /\ overtaken \subseteq overtaken' /\ overtaken' \subseteq Number
    /\ stage \in Before => overtaken' = overtaken
    /\ stage \notin Before => \A k \in Number : k \notin overtaken' => db'[k] = db[k]
    /\ alone' = FALSE
    /\ UNCHANGED <<writing, stage, at, people, loaded, own, updates>>

\* So it is.
LEMMA OthersDo ==
    ASSUME ServiceTypeOK, Refers(db), NEW n \in Number,
           OthersDelete(n) \/ \E r \in OtherRow[n] : OthersWrite(n, r)
    PROVE  OthersLeave
<1>1. db \in Table /\ overtaken \subseteq Number /\ own \in Table
  BY DEF ServiceTypeOK
<1>2. PICK r \in Record :
          /\ OthersCommit(n, r)
          /\ {r.manager, r.edge} \subseteq
                {NoManager, n} \cup {m \in Number : Landed(db)[m] # Nothing}
  <2>1. CASE OthersDelete(n)
    <3>1. OthersCommit(n, [Landed(db)[n] EXCEPT !.gone = TRUE]) /\ n \in Present(db)
      BY <2>1 DEF OthersDelete
    <3>2. Landed(db)[n] \in Record
      BY <1>1, <3>1, LandedIs, RecordOf DEF Present
    <3> DEFINE r == [Landed(db)[n] EXCEPT !.gone = TRUE]
    <3>3. r \in Record /\ r.manager = Landed(db)[n].manager /\ r.edge = Landed(db)[n].edge
      BY <3>2 DEF Record
    <3>4. Refers(Landed(db)) /\ Landed(db)[n] # Nothing
      BY <1>1, <3>1, LandedIs DEF Present
    <3>5. {r.manager, r.edge} \subseteq {NoManager} \cup {m \in Number : Landed(db)[m] # Nothing}
      <4> HIDE DEF r
      <4> QED BY <3>3, <3>4 DEF Refers
    <3> QED BY <3>1, <3>3, <3>5
  <2>2. CASE \E r \in OtherRow[n] : OthersWrite(n, r)
    <3>1. PICK r \in OtherRow[n] : OthersWrite(n, r)
      BY <2>2
    <3>2. r \in Record /\ OthersCommit(n, r) /\ Refers([db EXCEPT ![n] = r])
      BY <3>1 DEF OthersWrite
    <3> DEFINE e == [db EXCEPT ![n] = r]
    <3>3. e[n] = r /\ \A m \in Number : m # n => e[m] = db[m]
      BY <1>1 DEF Table
    <3>4. r # Nothing /\ Refers(e)
      BY <3>2
    <3> HIDE DEF e
    <3>5. {r.manager, r.edge} \subseteq {NoManager} \cup {m \in Number : e[m] # Nothing}
      BY <3>3, <3>4 DEF Refers
    <3>6. \A m \in Number : e[m] # Nothing => m = n \/ Landed(db)[m] # Nothing
      BY <1>1, <3>3, LandedIs
    <3> QED BY <3>2, <3>5, <3>6
  <2> QED BY <2>1, <2>2
<1>3. /\ Locked \cap ({n} \cup Due(db)) = {}
      /\ db' = [Landed(db) EXCEPT ![n] = r]
      /\ overtaken' = IF stage \in Before THEN overtaken ELSE overtaken \cup {n} \cup Due(db)
      /\ alone' = FALSE
      /\ UNCHANGED <<writing, stage, at, people, loaded, own, updates>>
  BY <1>2 DEF OthersCommit, Before, remembered
<1> DEFINE L == Landed(db)
<1>4. /\ L \in Table /\ Refers(L)
      /\ \A k \in Number : k \notin Due(db) => L[k] = db[k]
      /\ \A k \in Number : db[k] # Nothing => L[k] # Nothing
  BY <1>1, LandedIs
<1> HIDE DEF L
<1>5. r # Nothing /\ db'[n] = r /\ \A k \in Number : k # n => db'[k] = L[k]
  BY <1>3, <1>4 DEF Table, L
<1>6. db' \in Table
  BY <1>3, <1>4 DEF Table, L
<1>7. Refers(db')
  <2>1. \A m \in Number : L[m] # Nothing => db'[m] # Nothing
    BY <1>5
  <2>2. {r.manager, r.edge} \subseteq {NoManager} \cup {m \in Number : db'[m] # Nothing}
    BY <1>2, <1>5, <2>1 DEF L
  <2> QED BY <1>4, <1>5, <2>1, <2>2 DEF Refers
<1>8. \A k \in Number : own[k] # Nothing => k # n /\ k \notin Due(db)
  BY <1>3 DEF Locked
<1>9. Due(db) \subseteq Number
  BY DEF Due, Present
<1> QED BY <1>1, <1>3, <1>4, <1>5, <1>6, <1>7, <1>8, <1>9 DEF OthersLeave

-----------------------------------------------------------------------------
(* How far the transaction is. *)

\* Rows that are written, and rows that are moved.
IsWritten(i) == stage \in {"move", "trigger", "commit"} \/ (stage \in {"find", "write"} /\ i < at)
IsMoved(i) == stage \in {"trigger", "commit"} \/ (stage = "move" /\ i < at)

\* The first row has synced.
Synced == stage \in {"write", "move", "trigger", "commit"} \/ (stage = "find" /\ at > 1)

Num(i) == writing[i].number

\* What is true of the transaction at any time.  Rows of this transaction are of
\* the file, or what was due has landed in them; and whoever they refer to has a
\* row that is seen.
Shape ==
    /\ ServiceTypeOK
    /\ Refers(db) /\ Refers(Seen)
    /\ stage \in Before => /\ at = 1 /\ loaded = Nobody /\ own = Nobody
                           /\ updates = {} /\ overtaken = {}
    /\ stage = "none" => alone = FALSE
    /\ stage \notin {"none", "addresses"} => Passed(people, writing)
    /\ \A n \in Number : loaded[n] # Nothing => db[n] # Nothing
    /\ stage = "write" => New(at) \/ loaded[Num(at)] # Nothing
    /\ stage # "none" => \A i \in DOMAIN writing :
          IsWritten(i) => own[Num(i)] # Nothing /\ (New(i) \/ loaded[Num(i)] # Nothing)
    /\ \A n \in Number : own[n] # Nothing =>
          \/ \E i \in DOMAIN writing : IsWritten(i) /\ n = Num(i)
          \/ db[n] # Nothing /\ own[n] = Landed(db)[n]

\* What is seen are rows; a row that is written changes nothing else.
LEMMA SeenIs ==
    ASSUME ServiceTypeOK
    PROVE  /\ Seen \in Table
           /\ \A n \in Number : Seen[n] = IF own[n] # Nothing THEN own[n] ELSE db[n]
BY DEF ServiceTypeOK, Seen, Table

\* A row of this transaction is written: the shape of the tables.
LEMMA RowPut ==
    ASSUME ServiceTypeOK, Refers(db), Refers(Seen), NEW n \in Number, NEW r \in Record,
           {r.manager, r.edge} \subseteq {NoManager, n} \cup {m \in Number : Seen[m] # Nothing},
           own' = [own EXCEPT ![n] = r], db' = db
    PROVE  /\ own' \in Table /\ own'[n] = r /\ r # Nothing
           /\ \A k \in Number \ {n} : own'[k] = own[k]
           /\ Seen' = [Seen EXCEPT ![n] = r] /\ Seen'[n] = r
           /\ \A k \in Number \ {n} : Seen'[k] = Seen[k]
           /\ Refers(Seen')
<1>1. own \in Table /\ Seen \in Table /\ r # Nothing
  <2>1. own \in Table
    BY DEF ServiceTypeOK
  <2>2. Seen \in Table
    BY SeenIs
  <2>3. r # Nothing
    BY NothingAssumption, Zenon
  <2> QED BY <2>1, <2>2, <2>3
<1>2. own' \in Table /\ own'[n] = r /\ \A k \in Number \ {n} : own'[k] = own[k]
  BY <1>1 DEF Table
<1>3. \A k \in Number : Seen'[k] = IF k = n THEN r ELSE Seen[k]
  BY <1>1, <1>2 DEF Seen
<1>4. Seen' = [k \in Number |-> Seen'[k]]
  BY DEF Seen
<1>5. Seen' = [Seen EXCEPT ![n] = r]
  BY <1>1, <1>3, <1>4 DEF Table
<1>6. Refers(Seen')
  <2> DEFINE S == Seen
             T == Seen'
  <2>1. \A k \in Number : T[k] = IF k = n THEN r ELSE S[k]
    BY <1>3
  <2>2. Refers(S) /\ {r.manager, r.edge} \subseteq {NoManager, n} \cup {m \in Number : S[m] # Nothing}
    OBVIOUS
  <2> HIDE DEF S, T
  <2>3. \A m \in Number : S[m] # Nothing => T[m] # Nothing
    BY <1>1, <2>1
  <2>4. Refers(T)
    BY <1>1, <2>1, <2>2, <2>3 DEF Refers
  <2> QED BY <2>4 DEF T
<1> QED BY <1>1, <1>2, <1>3, <1>5, <1>6

\* What a transaction begins with, and ends with.
Begins ==
    /\ db \in Table /\ Refers(db) /\ own = Nobody /\ loaded = Nobody /\ updates = {}
    /\ overtaken = {} /\ at = 1 /\ stage \in Before /\ alone \in BOOLEAN /\ people \in Table
    /\ writing \in File \cup {Nothing} /\ (stage # "none" => writing # Nothing)
    /\ (stage = "none" => alone = FALSE) /\ (stage = "load" => Passed(people, writing))

\* Its shape then.
LEMMA ShapeBefore == Begins => Shape
<1> SUFFICES ASSUME db \in Table, Refers(db), own = Nobody, loaded = Nobody, updates = {},
                    overtaken = {}, at = 1, stage \in Before, alone \in BOOLEAN, people \in Table,
                    writing \in File \cup {Nothing}, stage # "none" => writing # Nothing,
                    stage = "none" => alone = FALSE, stage = "load" => Passed(people, writing)
             PROVE  Shape
  BY DEF Begins
<1>1. Nobody \in Table /\ \A n \in Number : Nobody[n] = Nothing
  BY DEF Nobody, Table
<1>2. ServiceTypeOK
  <2>1. {db, people, loaded, own} \subseteq Table
    BY <1>1
  <2>2. stage \in Stages /\ stage \notin {"find", "write", "move"}
    BY DEF Before, Stages
  <2>3. at \in 1 .. MaxRows + 1
    BY SizeAssumption
  <2> QED BY <2>1, <2>2, <2>3 DEF ServiceTypeOK
<1>3. Seen = db
  BY <1>1 DEF Seen, Table
<1>4. \A i : ~IsWritten(i)
  BY DEF IsWritten, Before
<1> QED BY <1>1, <1>2, <1>3, <1>4 DEF Shape, Before

\* The first statements.
LEMMA ShapeReads ==
    ASSUME Shape, ReadPeople \/ ReadAddresses
    PROVE  Shape'
<1>1. /\ db' = db /\ own' = own /\ loaded' = loaded /\ updates' = updates
      /\ overtaken' = overtaken /\ at' = at /\ stage' \in Before /\ stage' # "none"
      /\ people' \in Table /\ alone' \in BOOLEAN /\ writing' = writing /\ writing # Nothing
      /\ stage \in Before
      /\ stage' = "load" => Passed(people', writing')
  <2>1. CASE ReadPeople
    BY <2>1 DEF ReadPeople, written, Before, Shape, ServiceTypeOK
  <2>2. CASE ReadAddresses
    <3>1. Passed(people, writing)
      BY <2>2, WhatPasses DEF ReadAddresses, Shape, ServiceTypeOK
    <3> QED BY <2>2, <3>1 DEF ReadAddresses, remembered, written, Before, Shape, ServiceTypeOK
  <2> QED BY <2>1, <2>2
<1>2. /\ db' \in Table /\ Refers(db') /\ own' = Nobody /\ loaded' = Nobody /\ updates' = {}
      /\ overtaken' = {} /\ at' = 1 /\ writing' \in File \cup {Nothing}
  BY <1>1 DEF Shape, ServiceTypeOK
<1>3. Begins'
  BY <1>1, <1>2 DEF Begins
<1> QED BY <1>3, ShapeBefore, PTL

\* The end of the transaction.
LEMMA ShapeEnds ==
    ASSUME Shape, Writes \/ Raises \/ Lost \/ Blocks
    PROVE  Shape'
<1>1. /\ db' \in {db, Seen} /\ writing' = Nothing /\ stage' = "none" /\ at' = 1
      /\ people' = Nobody /\ loaded' = Nobody /\ own' = Nobody
      /\ updates' = {} /\ overtaken' = {} /\ alone' = FALSE
  BY DEF Writes, Raises, Lost, Blocks, Ended
<1>2. db \in Table /\ Seen \in Table /\ Nobody \in Table /\ Refers(db) /\ Refers(Seen)
  <2>1. Nobody \in Table
    BY DEF Nobody, Table
  <2>2. db \in Table
    BY DEF Shape, ServiceTypeOK
  <2> QED BY <2>1, <2>2, SeenIs DEF Shape
<1>3. Begins'
  BY <1>1, <1>2 DEF Begins, Before
<1> QED BY <1>3, ShapeBefore, PTL

\* The rows wait, or the page does something else.
LEMMA ShapeWaits ==
    ASSUME Shape, UNCHANGED <<db, stage, at, remembered, written, alone>>,
           writing' = writing \/ (writing = Nothing /\ writing' \in File)
    PROVE  Shape'
<1>1. /\ db' = db /\ stage' = stage /\ at' = at /\ people' = people /\ loaded' = loaded
      /\ own' = own /\ updates' = updates /\ overtaken' = overtaken /\ alone' = alone
  BY DEF remembered, written
<1>2. CASE writing' = writing
  <2>1. UNCHANGED <<db, writing, stage, at, people, loaded, own, updates, overtaken, alone>>
    BY <1>1, <1>2
  <2>2. Seen' = Seen /\ Landed(db)' = Landed(db)
    BY <2>1 DEF Seen, Landed, Due, Present
  <2>3. \A i : (New(i)' <=> New(i)) /\ Num(i)' = Num(i) /\ (IsWritten(i)' <=> IsWritten(i))
    BY <2>1 DEF New, Num, IsWritten
  <2>4. ServiceTypeOK'
    BY <2>1 DEF Shape, ServiceTypeOK
  <2> QED BY <2>1, <2>2, <2>3, <2>4 DEF Shape
<1>3. CASE writing = Nothing /\ writing' \in File
  <2>1. stage = "none"
    BY <1>3 DEF Shape, ServiceTypeOK
  <2>2. Begins'
    BY <1>1, <1>3, <2>1 DEF Begins, Shape, ServiceTypeOK, Before
  <2> QED BY <2>2, ShapeBefore, PTL
<1> QED BY <1>2, <1>3

\* What others do.
LEMMA ShapeOthers ==
    ASSUME Shape, OthersLeave
    PROVE  Shape'
<1>1. /\ stage' = stage /\ at' = at /\ people' = people /\ loaded' = loaded
      /\ own' = own /\ updates' = updates /\ writing' = writing /\ alone' = FALSE
      /\ \A k \in Number : own[k] # Nothing => db'[k] = db[k]
      /\ \A k \in Number : db[k] # Nothing => db'[k] # Nothing
      /\ db' \in Table /\ Refers(db') /\ overtaken' \subseteq Number
      /\ stage \in Before => overtaken' = overtaken
  BY DEF OthersLeave
<1>2. ServiceTypeOK'
  BY <1>1 DEF Shape, ServiceTypeOK
<1>3. Refers(Seen')
  <2> DEFINE S == Seen
             T == Seen'
  <2>1. \A k \in Number : T[k] = IF own[k] # Nothing THEN own[k] ELSE db'[k]
    BY <1>1 DEF Seen
  <2>2. \A k \in Number : S[k] = IF own[k] # Nothing THEN own[k] ELSE db[k]
    BY DEF Seen
  <2>3. Refers(S) /\ Refers(db')
    BY <1>1 DEF Shape
  <2> HIDE DEF S, T
  <2>4. \A k \in Number : db'[k] # Nothing \/ S[k] # Nothing => T[k] # Nothing
    BY <1>1, <2>1, <2>2
  <2>5. \A k \in Number : T[k] = S[k] \/ T[k] = db'[k]
    BY <2>1, <2>2
  <2>6. \A k \in Number : T[k] = S[k] => S[k] # Nothing \/ T[k] = Nothing
    OBVIOUS
  <2>7. Refers(T)
    BY <2>3, <2>4, <2>5 DEF Refers
  <2> QED BY <2>7 DEF T
<1>4. \A n \in Number : own[n] # Nothing /\ db[n] # Nothing => Landed(db')[n] = Landed(db)[n]
  BY <1>1 DEF Landed, Due, Present
<1>5. \A i : IsWritten(i)' <=> IsWritten(i)
  BY <1>1 DEF IsWritten
<1>6. \A n \in Number : loaded'[n] # Nothing => db'[n] # Nothing
  BY <1>1 DEF Shape
<1>7. \A i : New(i)' <=> New(i)
  BY <1>1 DEF New
<1> QED BY <1>1, <1>2, <1>3, <1>4, <1>5, <1>6, <1>7 DEF Shape, Num

\* What is loaded.
LEMMA ShapeLoads ==
    ASSUME Shape, LoadRows
    PROVE  Shape'
<1>1. /\ stage = "load" /\ UNCHANGED <<db, writing, at, people, own, updates, overtaken, alone>>
      /\ loaded' = [n \in Number |-> IF n \in Mentioned(writing) \cap Present(db)
                                     THEN db[n] ELSE Nothing]
      /\ stage' = IF writing = <<>> THEN "trigger" ELSE "find"
  BY DEF LoadRows, written
<1>2. /\ writing \in File /\ at = 1 /\ own = Nobody /\ Passed(people, writing) /\ db \in Table
  BY <1>1 DEF Shape, ServiceTypeOK, Before
<1>3. loaded' \in Table /\ \A n \in Number : loaded'[n] # Nothing => db'[n] # Nothing
  BY <1>1, <1>2, RecordOf DEF Table
<1>4. \A i \in DOMAIN writing : ~IsWritten(i)'
  <2>1. CASE writing = <<>>
    BY <2>1
  <2>2. CASE writing # <<>>
    BY <1>1, <1>2, <2>2, RowsOfFile DEF IsWritten
  <2> QED BY <2>1, <2>2
<1>5. ServiceTypeOK'
  <2>1. stage' = "find" => 1 \in DOMAIN writing
    <3>1. CASE writing = <<>>
      BY <1>1, <3>1
    <3>2. CASE writing # <<>>
      <4>1. writing \in Seq(RowChoice)
        BY <1>2 DEF File
      <4> QED BY <3>2, <4>1
    <3> QED BY <3>1, <3>2
  <2>2. {db, people, loaded', own} \subseteq Table /\ stage' \in Stages
    BY <1>1, <1>3 DEF Shape, ServiceTypeOK, Stages
  <2> QED BY <1>1, <1>2, <2>1, <2>2 DEF Shape, ServiceTypeOK
<1>6. Refers(Seen') /\ Refers(db')
  BY <1>1 DEF Shape, Seen
<1>7. \A n : Nobody[n] # Nothing => n \notin Number
  BY DEF Nobody
<1> QED BY <1>1, <1>2, <1>3, <1>4, <1>5, <1>6, <1>7 DEF Shape, Before

\* The next row.
LEMMA OnwardIs ==
    ASSUME Shape, stage \in {"write", "move"}, NEW to, NEW then, Onward(to, then)
    PROVE  /\ writing \in File /\ at \in DOMAIN writing /\ Num(at) \in Number
           /\ DOMAIN writing = 1 .. Len(writing) /\ Len(writing) \in Nat
           /\ \/ stage' = to /\ at' = at + 1 /\ at' \in DOMAIN writing
              \/ stage' = then /\ at' = 1 /\ at = Len(writing)
           /\ at' \in 1 .. MaxRows + 1 /\ at' \in DOMAIN writing
           /\ \A i \in DOMAIN writing : i < at' => i < at \/ i = at
           /\ \A i \in DOMAIN writing : i # at => Num(i) # Num(at)
<1>1. writing \in File /\ at \in DOMAIN writing /\ Passed(people, writing)
  BY DEF Shape, ServiceTypeOK
<1>2. /\ Len(writing) \in Nat /\ DOMAIN writing = 1 .. Len(writing) /\ Len(writing) <= MaxRows
      /\ Num(at) \in Number
  BY <1>1, RowsOfFile DEF Num
<1>3. \/ stage' = to /\ at' = at + 1 /\ at < Len(writing)
      \/ stage' = then /\ at' = 1 /\ ~(at < Len(writing))
  BY DEF Onward
<1>4. \A i \in DOMAIN writing : i # at => Num(i) # Num(at)
  BY <1>1 DEF Passed, Num
<1>5. /\ \/ stage' = to /\ at' = at + 1 /\ at' \in DOMAIN writing
         \/ stage' = then /\ at' = 1 /\ at = Len(writing)
      /\ at' \in DOMAIN writing
  BY <1>1, <1>2, <1>3
<1>6. at' \in 1 .. MaxRows + 1
  <2> DEFINE l == Len(writing)
  <2>1. at' \in 1 .. l /\ l \in Nat /\ l <= MaxRows
    BY <1>2, <1>5, Zenon
  <2> HIDE DEF l
  <2> QED BY <2>1
<1>7. \A i \in DOMAIN writing : i < at' => i < at \/ i = at
  BY <1>1, <1>2, <1>5
<1> HIDE DEF Num
<1> QED BY <1>1, <1>2, <1>4, <1>5, <1>6, <1>7

\* A row is looked at.
LEMMA ShapeFinds ==
    ASSUME Shape, FindRow
    PROVE  Shape'
<1>1. /\ stage = "find" /\ stage' = "write" /\ Found(at)
      /\ UNCHANGED <<db, writing, at, people, loaded, alone>>
      /\ at \in DOMAIN writing /\ writing \in File
  BY DEF FindRow, remembered, Shape, ServiceTypeOK
<1>2. New(at) \/ loaded[Num(at)] # Nothing
  BY <1>1 DEF Found, Num
<1>3. \A i \in DOMAIN writing : IsWritten(i)' => IsWritten(i)
  BY <1>1 DEF IsWritten
<1>4. CASE at = 1
  <2>1. /\ own' = [n \in Number |-> IF n \in Due(db) THEN Landed(db)[n] ELSE Nothing]
        /\ updates' = {<<n, db[n].edge>> : n \in Due(db)}
        /\ overtaken' = overtaken \cup Due(db)
    BY <1>4 DEF FindRow
  <2>2. /\ db \in Table /\ Landed(db) \in Table /\ Refers(Landed(db))
        /\ \A n \in Number : n \notin Due(db) => Landed(db)[n] = db[n]
        /\ \A n \in Number : db[n] # Nothing => Landed(db)[n] # Nothing
    BY LandedIs DEF Shape, ServiceTypeOK
  <2>3. \A n \in Due(db) : n \in Number /\ db[n] # Nothing /\ db[n].edge \in ManagerOrNone
    BY <2>2, RecordOf DEF Due, Present
  <2>4. own' \in Table /\ updates' \subseteq Number \X ManagerOrNone /\ overtaken' \subseteq Number
    BY <2>1, <2>2, <2>3 DEF Table, Shape, ServiceTypeOK
  <2>5. Seen' = Landed(db)
    <3>1. Seen' = [n \in Number |-> IF own'[n] # Nothing THEN own'[n] ELSE db[n]]
      BY <1>1 DEF Seen
    <3>2. Landed(db) = [n \in Number |-> Landed(db)[n]]
      BY <2>2 DEF Table
    <3>3. \A n \in Number : (IF own'[n] # Nothing THEN own'[n] ELSE db[n]) = Landed(db)[n]
      BY <2>1, <2>2, <2>3
    <3> QED BY <3>1, <3>2, <3>3
  <2>6. \A n \in Number : own'[n] # Nothing => db[n] # Nothing /\ own'[n] = Landed(db)[n]
    BY <2>1, <2>3
  <2>7. ServiceTypeOK'
    BY <1>1, <2>4 DEF Shape, ServiceTypeOK, Stages
  <2>8. Landed(db)' = Landed(db)
    BY <1>1 DEF Landed, Due, Present
  <2>9. \A i \in DOMAIN writing : ~IsWritten(i)'
    BY <1>1, <1>4, RowsOfFile DEF IsWritten
  <2> QED BY <1>1, <1>2, <2>2, <2>5, <2>6, <2>7, <2>8, <2>9 DEF Shape, Before, New, Num
<1>5. CASE at # 1
  <2>1. own' = own /\ updates' = updates /\ overtaken' = overtaken
    BY <1>5 DEF FindRow, written
  <2>2. ServiceTypeOK'
    BY <1>1, <2>1 DEF Shape, ServiceTypeOK, Stages
  <2>3. Refers(Seen') /\ Refers(db')
    BY <1>1, <2>1 DEF Shape, Seen
  <2>4. Landed(db)' = Landed(db)
    BY <1>1 DEF Landed, Due, Present
  <2>5. \A i : IsWritten(i)' <=> IsWritten(i)
    BY <1>1 DEF IsWritten
  <2> QED BY <1>1, <1>2, <2>1, <2>2, <2>3, <2>4, <2>5 DEF Shape, Before, New, Num
<1> QED BY <1>4, <1>5

\* The row of somebody new, or of somebody who is there.
LEMMA PutIs ==
    ASSUME Shape, stage = "write"
    PROVE  LET n == Num(at)
               r == Put(at)
           IN  /\ r \in Record
               /\ New(at) => /\ r.email = writing[at].email /\ ~r.gone
                             /\ r.manager = NoManager /\ r.edge = NoManager
               /\ ~New(at) => /\ Seen[n] \in Record /\ Seen[n] # Nothing
                              /\ r.manager = Seen[n].manager /\ r.edge = Seen[n].edge
                              /\ r.gone = Seen[n].gone
                              /\ r.email = IF writing[at].email = loaded[n].email
                                           THEN Seen[n].email ELSE writing[at].email
<1> DEFINE n == Num(at)
           e == writing[at].email
<1>1. n \in Number /\ e \in Email /\ Seen \in Table
  BY RowsOfFile, SeenIs DEF Shape, ServiceTypeOK, Passed, Num
<1>2. CASE New(at)
  <2>1. Put(at) = [email |-> e, manager |-> NoManager, edge |-> NoManager, gone |-> FALSE]
    BY <1>2 DEF Put
  <2> HIDE DEF e
  <2>2. Put(at) \in Record
    BY <1>1, <2>1 DEF Record, ManagerOrNone
  <2> QED BY <1>2, <2>1, <2>2 DEF e
<1>3. CASE ~New(at)
  <2>1. Seen[n] # Nothing
    BY <1>1, <1>3, SeenIs DEF Shape
  <2>2. Seen[n] \in Record
    BY <1>1, <2>1, RecordOf
  <2>3. Put(at) = [Seen[n] EXCEPT !.email = IF e = loaded[n].email THEN Seen[n].email ELSE e]
    BY <1>3 DEF Put, Num
  <2> DEFINE f == IF e = loaded[n].email THEN Seen[n].email ELSE e
             s == Seen[n]
  <2>4. f \in Email
    BY <1>1, <2>2 DEF Record
  <2>5. s \in Record /\ Put(at) = [s EXCEPT !.email = f]
    BY <2>2, <2>3
  <2> HIDE DEF f, s
  <2>6. /\ Put(at) \in Record /\ Put(at).manager = s.manager /\ Put(at).edge = s.edge
        /\ Put(at).gone = s.gone /\ Put(at).email = f
    BY <2>4, <2>5 DEF Record
  <2> QED BY <1>3, <2>1, <2>2, <2>6 DEF f, s
<1> QED BY <1>2, <1>3

\* A row is written.
LEMMA ShapeWrites ==
    ASSUME Shape, WriteRow
    PROVE  Shape'
<1> DEFINE n == Num(at)
           r == Put(at)
<1>1. /\ stage = "write" /\ own' = [own EXCEPT ![n] = r] /\ Onward("find", "move")
      /\ UNCHANGED <<db, writing, people, loaded, updates, overtaken, alone>>
  BY DEF WriteRow, remembered, Num
<1>2. /\ writing \in File /\ at \in DOMAIN writing /\ n \in Number
      /\ DOMAIN writing = 1 .. Len(writing) /\ Len(writing) \in Nat
      /\ \/ stage' = "find" /\ at' = at + 1 /\ at' \in DOMAIN writing
         \/ stage' = "move" /\ at' = 1 /\ at = Len(writing)
      /\ at' \in 1 .. MaxRows + 1 /\ at' \in DOMAIN writing
      /\ \A i \in DOMAIN writing : i < at' => i < at \/ i = at
  BY <1>1, OnwardIs
<1>3. r \in Record /\ {r.manager, r.edge} \subseteq {NoManager, n} \cup {m \in Number : Seen[m] # Nothing}
  <2>1. CASE New(at)
    BY <1>1, <2>1, PutIs
  <2>2. CASE ~New(at)
    BY <1>1, <1>2, <2>2, PutIs DEF Shape, Refers
  <2> QED BY <1>1, <2>1, <2>2, PutIs
<1>4. /\ own' \in Table /\ own'[n] = r /\ r # Nothing
      /\ \A k \in Number \ {n} : own'[k] = own[k]
      /\ Refers(Seen')
  <2> HIDE DEF n, r
  <2> QED BY <1>1, <1>2, <1>3, RowPut DEF Shape
<1>5. ServiceTypeOK'
  BY <1>1, <1>2, <1>4 DEF Shape, ServiceTypeOK, Stages
<1>6. \A i \in DOMAIN writing : IsWritten(i) => IsWritten(i)'
  BY <1>1, <1>2 DEF IsWritten
<1>7. \A i \in DOMAIN writing : IsWritten(i)' => i = at \/ IsWritten(i)
  BY <1>1, <1>2 DEF IsWritten
<1>8. PICK now \in DOMAIN writing : now = at /\ IsWritten(now)'
  <2>1. PICK now \in DOMAIN writing : now = at
    BY <1>2
  <2>2. IsWritten(now)'
    BY <1>1, <1>2, <2>1 DEF IsWritten
  <2> QED BY <2>1, <2>2
<1>9. Landed(db)' = Landed(db) /\ (\A i : New(i)' <=> New(i)) /\ \A i : Num(i)' = Num(i)
  BY <1>1 DEF Landed, Due, Present, New, Num
<1>10. \A i \in DOMAIN writing' : IsWritten(i)' =>
            own'[Num(i)'] # Nothing /\ (New(i)' \/ loaded'[Num(i)'] # Nothing)
  <2> SUFFICES ASSUME NEW i \in DOMAIN writing, IsWritten(i)'
               PROVE  own'[Num(i)] # Nothing /\ (New(i) \/ loaded[Num(i)] # Nothing)
    BY <1>1, <1>9
  <2>1. CASE i = at
    BY <1>1, <1>4, <2>1 DEF Shape
  <2>2. CASE i # at
    <3>1. IsWritten(i) /\ Num(i) \in Number
      BY <1>2, <1>7, <2>2, RowsOfFile DEF Num
    <3>2. own[Num(i)] # Nothing /\ (New(i) \/ loaded[Num(i)] # Nothing)
      BY <1>1, <3>1 DEF Shape
    <3> QED BY <1>4, <3>1, <3>2
  <2> QED BY <2>1, <2>2
<1>11. \A k \in Number : own'[k] # Nothing =>
          \/ \E i \in DOMAIN writing' : IsWritten(i)' /\ k = Num(i)'
          \/ db'[k] # Nothing /\ own'[k] = Landed(db)'[k]
  <2> SUFFICES ASSUME NEW k \in Number, own'[k] # Nothing
               PROVE  \/ \E i \in DOMAIN writing : IsWritten(i)' /\ k = Num(i)
                      \/ db[k] # Nothing /\ own'[k] = Landed(db)[k]
    BY <1>1, <1>9
  <2>1. CASE k = n
    BY <1>8, <2>1
  <2>2. CASE k # n
    <3>1. own'[k] = own[k]
      BY <1>4, <2>2
    <3> QED BY <1>6, <3>1 DEF Shape
  <2> QED BY <2>1, <2>2
<1> HIDE DEF n, r
<1> QED BY <1>1, <1>2, <1>4, <1>5, <1>9, <1>10, <1>11 DEF Shape, Before

\* A row is moved, or is where it should be.
LEMMA ShapeMoves ==
    ASSUME Shape, MoveRow
    PROVE  Shape'
<1> DEFINE n == Num(at)
           m == writing[at].manager
           r == [Seen[n] EXCEPT !.manager = m, !.edge = m]
<1>1. /\ stage = "move" /\ Onward("move", "trigger")
      /\ UNCHANGED <<db, writing, people, loaded, overtaken, alone>>
      /\ \/ own' = own /\ updates' = updates
         \/ /\ Movable(at) /\ own' = [own EXCEPT ![n] = r]
            /\ updates' = updates \cup {<<n, m>>}
  BY DEF MoveRow, Moved, remembered, Num
<1>2. /\ writing \in File /\ at \in DOMAIN writing /\ n \in Number
      /\ \/ stage' = "move" /\ at' = at + 1 /\ at' \in DOMAIN writing
         \/ stage' = "trigger" /\ at' = 1 /\ at = Len(writing)
      /\ at' \in 1 .. MaxRows + 1 /\ at' \in DOMAIN writing
  BY <1>1, OnwardIs
<1>3. m \in ManagerOrNone
  BY <1>2, RowsOfFile
<1>4. Landed(db)' = Landed(db) /\ (\A i : New(i)' <=> New(i)) /\ \A i : Num(i)' = Num(i)
  BY <1>1 DEF Landed, Due, Present, New, Num
<1>5. \A i : IsWritten(i) /\ IsWritten(i)'
  BY <1>1, <1>2 DEF IsWritten
<1>6. /\ own' \in Table /\ Refers(Seen') /\ updates' \subseteq Number \X ManagerOrNone
      /\ own'[n] # Nothing /\ \A k \in Number \ {n} : own'[k] = own[k]
  <2>0. own \in Table /\ own[n] # Nothing /\ updates \subseteq Number \X ManagerOrNone /\ Refers(Seen)
    BY <1>1, <1>2, <1>5 DEF Shape, ServiceTypeOK
  <2>1. CASE own' = own /\ updates' = updates
    <3>1. Seen' = Seen
      BY <1>1, <2>1 DEF Seen
    <3> QED BY <2>0, <2>1, <3>1
  <2>2. CASE /\ Movable(at) /\ own' = [own EXCEPT ![n] = r]
             /\ updates' = updates \cup {<<n, m>>}
    <3>1. n \in Present(Seen) /\ (m # NoManager => m \in Present(Seen))
      BY <2>2 DEF Movable, Num
    <3>2. Seen[n] # Nothing /\ Seen[n] \in Record /\ (m # NoManager => m \in Number /\ Seen[m] # Nothing)
      BY <1>2, <3>1, SeenIs, RecordOf DEF Present, Shape
    <3>3. r \in Record /\ r.manager = m /\ r.edge = m
      <4> DEFINE s == Seen[n]
      <4>1. s \in Record /\ r = [s EXCEPT !.manager = m, !.edge = m]
        BY <3>2
      <4> HIDE DEF s, m, r
      <4> QED BY <1>3, <4>1 DEF Record
    <3>4. {r.manager, r.edge} \subseteq {NoManager, n} \cup {k \in Number : Seen[k] # Nothing}
      <4> HIDE DEF r
      <4> QED BY <3>2, <3>3
    <3> HIDE DEF n, r, m
    <3>5. /\ own' \in Table /\ own'[n] = r /\ r # Nothing
          /\ \A k \in Number \ {n} : own'[k] = own[k]
          /\ Refers(Seen')
      BY <1>1, <1>2, <2>2, <3>3, <3>4, RowPut DEF Shape
    <3>6. updates' \subseteq Number \X ManagerOrNone
      BY <1>2, <1>3, <2>0, <2>2
    <3> QED BY <3>5, <3>6
  <2> QED BY <1>1, <2>1, <2>2
<1> HIDE DEF n, m, r
<1>7. ServiceTypeOK'
  BY <1>1, <1>2, <1>6 DEF Shape, ServiceTypeOK, Stages
<1>8. \A i \in DOMAIN writing : own'[Num(i)] # Nothing /\ (New(i) \/ loaded[Num(i)] # Nothing)
  <2> TAKE i \in DOMAIN writing
  <2>1. own[Num(i)] # Nothing /\ (New(i) \/ loaded[Num(i)] # Nothing) /\ Num(i) \in Number
    BY <1>1, <1>2, <1>5, RowsOfFile DEF Shape, Num
  <2> QED BY <1>6, <2>1
<1>9. \A k \in Number : own'[k] # Nothing =>
          \/ \E i \in DOMAIN writing : k = Num(i)
          \/ db[k] # Nothing /\ own'[k] = Landed(db)[k]
  BY <1>2, <1>6, Zenon DEF Shape, n
<1> QED BY <1>1, <1>2, <1>4, <1>5, <1>6, <1>7, <1>8, <1>9 DEF Shape, Before

\* The trigger looks.
LEMMA ShapeChecks ==
    ASSUME Shape, CheckTrigger
    PROVE  Shape'
<1>1. /\ stage = "trigger" /\ stage' = "commit"
      /\ UNCHANGED <<db, writing, at, people, loaded, own, updates, overtaken, alone>>
  BY DEF CheckTrigger, remembered, written
<1>2. Seen' = Seen /\ Landed(db)' = Landed(db) /\ (\A i : New(i)' <=> New(i)) /\ \A i : Num(i)' = Num(i)
  BY <1>1 DEF Seen, Landed, Due, Present, New, Num
<1>3. \A i : IsWritten(i) /\ IsWritten(i)'
  BY <1>1 DEF IsWritten
<1>4. ServiceTypeOK'
  BY <1>1 DEF Shape, ServiceTypeOK, Stages
<1> QED BY <1>1, <1>2, <1>3, <1>4 DEF Shape, Before

\* What the service does, and what the page does to it.
ServiceNext ==
    \/ ServiceStep
    \/ Writes \/ Raises \/ Lost \/ Blocks
    \/ /\ UNCHANGED <<db, stage, at, remembered, written, alone>>
       /\ writing' = writing \/ (writing = Nothing /\ writing' \in File)

\* Every step keeps the shape.
LEMMA ShapeInductive ==
    ASSUME Shape, ServiceNext
    PROVE  Shape'
<1>1. ASSUME NEW n \in Number, OthersDelete(n) \/ \E r \in OtherRow[n] : OthersWrite(n, r)
      PROVE  Shape'
  BY <1>1, OthersDo, ShapeOthers DEF Shape
<1> QED BY <1>1, ShapeReads, ShapeLoads, ShapeFinds, ShapeWrites, ShapeMoves, ShapeChecks,
           ShapeEnds, ShapeWaits
        DEF ServiceNext, ServiceStep

-----------------------------------------------------------------------------
(* What is written. *)

\* A row that is written says what the file says, or what it said before if that
\* is the same and the employee was overtaken; a row that is still to be moved has
\* the manager that is remembered.
Stands(i) ==
    LET n == Num(i)
        r == own[n]
        w == writing[i]
    IN  /\ r.email = w.email \/ (n \in overtaken /\ loaded[n] # Nothing /\ w.email = loaded[n].email)
        /\ r.gone => n \in overtaken
        /\ IsMoved(i) =>
              \/ {r.manager, r.edge} = {w.manager}
              \/ n \in overtaken /\ loaded[n] # Nothing /\ w.manager = loaded[n].manager
        /\ ~IsMoved(i) =>
              \/ n \in overtaken /\ ~New(i)
              \/ r.manager = Remembers(i) /\ r.edge = Remembers(i)

\* Whoever was loaded and not overtaken is as they were loaded.
AsLoaded(n) ==
    /\ ~loaded[n].gone
    /\ n \notin overtaken =>
          /\ db[n] = loaded[n]
          /\ own[n] # Nothing => \E i \in DOMAIN writing : IsWritten(i) /\ n = Num(i)
          /\ Synced => loaded[n].edge = loaded[n].manager

Filed ==
    /\ \A n \in Number : loaded[n] # Nothing => AsLoaded(n)
    /\ stage # "none" => \A i \in DOMAIN writing : IsWritten(i) => Stands(i)

\* Before there are rows there is nothing to say.
LEMMA FiledBefore == Shape /\ stage \in Before => Filed
<1> SUFFICES ASSUME Shape, stage \in Before PROVE Filed
  OBVIOUS
<1>1. \A n \in Number : loaded[n] = Nothing
  BY DEF Shape, Nobody
<1>2. \A i : ~IsWritten(i)
  BY DEF IsWritten, Before
<1> QED BY <1>1, <1>2 DEF Filed

\* The steps that do not write.
LEMMA FiledLoads ==
    ASSUME Shape, Shape', LoadRows
    PROVE  Filed'
<1>1. /\ stage = "load" /\ UNCHANGED <<db, writing, at, people, own, updates, overtaken, alone>>
      /\ loaded' = [n \in Number |-> IF n \in Mentioned(writing) \cap Present(db)
                                     THEN db[n] ELSE Nothing]
      /\ stage' = IF writing = <<>> THEN "trigger" ELSE "find"
  BY DEF LoadRows, written
<1>2. at = 1 /\ own = Nobody /\ writing \in File
  BY <1>1 DEF Shape, ServiceTypeOK, Before
<1>3. ASSUME NEW n \in Number, loaded'[n] # Nothing
      PROVE  AsLoaded(n)'
  <2>1. n \in Mentioned(writing) /\ n \in Present(db) /\ loaded'[n] = db[n]
    BY <1>1, <1>3
  <2>2. ~loaded'[n].gone /\ db'[n] = loaded'[n]
    BY <1>1, <2>1 DEF Present
  <2>3. own'[n] = Nothing
    BY <1>1, <1>2 DEF Nobody
  <2>4. ~Synced'
    <3>1. writing # <<>>
      BY <2>1 DEF Mentioned
    <3> QED BY <1>1, <1>2, <3>1 DEF Synced
  <2> QED BY <2>2, <2>3, <2>4 DEF AsLoaded
<1>4. \A i \in DOMAIN writing : ~IsWritten(i)'
  <2>1. CASE writing = <<>>
    BY <2>1
  <2>2. CASE writing # <<>>
    BY <1>1, <1>2, <2>2, RowsOfFile DEF IsWritten
  <2> QED BY <2>1, <2>2
<1> QED BY <1>1, <1>3, <1>4 DEF Filed

\* What others do.
LEMMA FiledOthers ==
    ASSUME Shape, Shape', Filed, OthersLeave
    PROVE  Filed'
<1>1. /\ UNCHANGED <<writing, stage, at, people, loaded, own>>
      /\ overtaken \subseteq overtaken'
      /\ stage \notin Before => \A k \in Number : k \notin overtaken' => db'[k] = db[k]
  BY DEF OthersLeave
<1>2. CASE stage \in Before
  <2>1. (stage \in Before)'
    BY <1>1, <1>2 DEF Before
  <2> QED BY <2>1, FiledBefore, PTL
<1>3. CASE stage \notin Before
  <2>1. /\ Synced' = Synced
        /\ \A i : /\ IsWritten(i)' = IsWritten(i) /\ IsMoved(i)' = IsMoved(i) /\ Num(i)' = Num(i)
                  /\ New(i)' = New(i) /\ Remembers(i)' = Remembers(i)
    BY <1>1 DEF Synced, IsWritten, IsMoved, Num, New, Remembers
  <2>2. ASSUME NEW n \in Number, loaded[n] # Nothing PROVE AsLoaded(n)'
    <3>1. AsLoaded(n)
      BY <2>2 DEF Filed
    <3> QED BY <1>1, <1>3, <2>1, <3>1 DEF AsLoaded
  <2>3. ASSUME stage # "none", NEW i \in DOMAIN writing, IsWritten(i) PROVE Stands(i)'
    <3>1. Stands(i)
      BY <2>3 DEF Filed
    <3> QED BY <1>1, <2>1, <3>1 DEF Stands
  <2> QED BY <1>1, <2>1, <2>2, <2>3 DEF Filed
<1> QED BY <1>2, <1>3

\* A row is looked at; the first one syncs.
LEMMA FiledFinds ==
    ASSUME Shape, Shape', Filed, FindRow
    PROVE  Filed'
<1>1. /\ stage = "find" /\ stage' = "write"
      /\ UNCHANGED <<db, writing, at, people, loaded, alone>>
      /\ at \in DOMAIN writing /\ writing \in File /\ at \in Nat /\ at >= 1
  BY RowsOfFile DEF FindRow, remembered, Shape, ServiceTypeOK
<1>2. \A i : /\ IsWritten(i)' = IsWritten(i) /\ ~IsMoved(i) /\ ~IsMoved(i)' /\ Num(i)' = Num(i)
             /\ New(i)' = New(i) /\ Remembers(i)' = Remembers(i)
  BY <1>1 DEF IsWritten, IsMoved, Num, New, Remembers
<1>3. CASE at = 1
  <2>1. /\ own' = [n \in Number |-> IF n \in Due(db) THEN Landed(db)[n] ELSE Nothing]
        /\ overtaken' = overtaken \cup Due(db)
    BY <1>3 DEF FindRow
  <2>2. \A i \in DOMAIN writing : ~IsWritten(i)'
    BY <1>1, <1>3, RowsOfFile DEF IsWritten
  <2>3. ASSUME NEW n \in Number, loaded[n] # Nothing PROVE AsLoaded(n)'
    <3>1. AsLoaded(n)
      BY <2>3 DEF Filed
    <3>2. ASSUME n \notin overtaken'
          PROVE  db'[n] = loaded'[n] /\ own'[n] = Nothing /\ loaded'[n].edge = loaded'[n].manager
      <4>1. n \notin overtaken /\ n \notin Due(db)
        BY <2>1, <3>2
      <4>2. db[n] = loaded[n] /\ ~loaded[n].gone
        BY <3>1, <4>1 DEF AsLoaded
      <4>3. db[n].edge = db[n].manager
        BY <2>3, <4>1, <4>2 DEF Due, Present
      <4> QED BY <1>1, <2>1, <4>1, <4>2, <4>3
    <3> QED BY <1>1, <3>1, <3>2 DEF AsLoaded
  <2> QED BY <1>1, <2>2, <2>3 DEF Filed
<1>4. CASE at # 1
  <2>1. own' = own /\ overtaken' = overtaken
    BY <1>4 DEF FindRow, written
  <2>2. Synced
    BY <1>1, <1>4 DEF Synced
  <2>3. ASSUME NEW n \in Number, loaded[n] # Nothing PROVE AsLoaded(n)'
    <3>1. AsLoaded(n)
      BY <2>3 DEF Filed
    <3> QED BY <1>1, <1>2, <2>1, <2>2, <3>1 DEF AsLoaded
  <2>4. ASSUME NEW i \in DOMAIN writing, IsWritten(i) PROVE Stands(i)'
    <3>1. Stands(i)
      BY <1>1, <2>4 DEF Filed
    <3> QED BY <1>1, <1>2, <2>1, <3>1 DEF Stands
  <2> QED BY <1>1, <1>2, <2>3, <2>4 DEF Filed
<1> QED BY <1>3, <1>4

\* A row is written.
LEMMA FiledWrites ==
    ASSUME Shape, Shape', Filed, WriteRow
    PROVE  Filed'
<1> DEFINE n == Num(at)
           r == Put(at)
<1>1. /\ stage = "write" /\ own' = [own EXCEPT ![n] = r] /\ Onward("find", "move")
      /\ UNCHANGED <<db, writing, people, loaded, updates, overtaken, alone>>
  BY DEF WriteRow, remembered, Num
<1>2. /\ writing \in File /\ at \in DOMAIN writing /\ n \in Number
      /\ DOMAIN writing = 1 .. Len(writing) /\ Len(writing) \in Nat
      /\ \/ stage' = "find" /\ at' = at + 1 /\ at' \in DOMAIN writing
         \/ stage' = "move" /\ at' = 1 /\ at = Len(writing)
      /\ \A i \in DOMAIN writing : i < at' => i < at \/ i = at
      /\ \A i \in DOMAIN writing : i # at => Num(i) # n
  BY <1>1, OnwardIs
<1>3. own \in Table /\ own'[n] = r /\ \A k \in Number : k # n => own'[k] = own[k]
  BY <1>1, <1>2 DEF Shape, ServiceTypeOK, Table
<1>4. /\ Synced /\ Synced'
      /\ \A i : /\ ~IsMoved(i) /\ Num(i)' = Num(i) /\ New(i)' = New(i)
                /\ Remembers(i)' = Remembers(i)
      /\ \A i \in DOMAIN writing : ~IsMoved(i)'
  BY <1>1, <1>2 DEF Synced, IsMoved, Num, New, Remembers
<1>5. PICK now \in DOMAIN writing : now = at /\ IsWritten(now)' /\ ~IsWritten(now)
  <2>1. PICK now \in DOMAIN writing : now = at
    BY <1>2
  <2> QED BY <1>1, <1>2, <2>1 DEF IsWritten
<1>6. \A i \in DOMAIN writing : (IsWritten(i) => IsWritten(i)') /\ (IsWritten(i)' => i = at \/ IsWritten(i))
  BY <1>1, <1>2 DEF IsWritten
<1>7. ASSUME NEW k \in Number, loaded[k] # Nothing PROVE AsLoaded(k)'
  <2>1. AsLoaded(k)
    BY <1>7 DEF Filed
  <2>2. k \notin overtaken /\ own'[k] # Nothing => \E i \in DOMAIN writing : IsWritten(i)' /\ k = Num(i)
    <3>1. CASE k = n
      BY <1>5, <3>1
    <3>2. CASE k # n
      BY <1>3, <1>6, <2>1, <3>2 DEF AsLoaded
    <3> QED BY <3>1, <3>2
  <2> QED BY <1>1, <1>4, <2>1, <2>2 DEF AsLoaded
<1>8. Stands(now)'
  <2> DEFINE e == writing[at].email
  <2>1. /\ New(at) => r.email = e /\ ~r.gone /\ r.manager = NoManager /\ r.edge = NoManager
        /\ ~New(at) => /\ r.manager = Seen[n].manager /\ r.edge = Seen[n].edge
                       /\ r.gone = Seen[n].gone
                       /\ r.email = IF e = loaded[n].email THEN Seen[n].email ELSE e
    BY <1>1, PutIs
  <2>2. CASE New(at)
    <3>1. Remembers(at) = NoManager
      BY <2>2 DEF Remembers
    <3>2. own'[n] = r /\ r.email = e /\ ~r.gone /\ r.manager = NoManager /\ r.edge = NoManager
      BY <1>3, <2>1, <2>2
    <3> HIDE DEF n, r
    <3> QED BY <1>1, <1>4, <1>5, <3>1, <3>2 DEF Stands, n
  <2>3. CASE ~New(at)
    <3>1. loaded[n] # Nothing /\ Remembers(at) = loaded[n].manager
      BY <1>1, <2>3 DEF Shape, Remembers, Num
    <3>2. AsLoaded(n)
      BY <1>2, <3>1 DEF Filed
    <3>3. CASE n \notin overtaken
      <4>1. own[n] = Nothing
        <5> SUFFICES ASSUME own[n] # Nothing PROVE FALSE
          OBVIOUS
        <5>1. PICK i \in DOMAIN writing : IsWritten(i) /\ n = Num(i)
          BY <3>2, <3>3 DEF AsLoaded
        <5>2. i = now
          BY <1>2, <1>5, <5>1
        <5> QED BY <1>5, <5>1, <5>2
      <4>2. Seen[n] = loaded[n] /\ ~loaded[n].gone /\ loaded[n].edge = loaded[n].manager
        BY <1>2, <1>4, <3>2, <3>3, <4>1, SeenIs DEF AsLoaded, Shape
      <4>3. own'[n] = r /\ r.email = e /\ ~r.gone /\ r.manager = Remembers(at) /\ r.edge = Remembers(at)
        BY <1>3, <2>1, <2>3, <3>1, <4>2
      <4> HIDE DEF n, r
      <4> QED BY <1>1, <1>4, <1>5, <4>3 DEF Stands, n
    <3>4. CASE n \in overtaken
      <4>1. own'[n] = r /\ (r.email = e \/ e = loaded[n].email)
        BY <1>3, <2>1, <2>3
      <4> HIDE DEF n, r
      <4> QED BY <1>1, <1>4, <1>5, <2>3, <3>1, <3>4, <4>1 DEF Stands, n
    <3> QED BY <3>3, <3>4
  <2> QED BY <2>2, <2>3
<1>9. ASSUME NEW i \in DOMAIN writing, IsWritten(i)', i # at PROVE Stands(i)'
  <2>1. Stands(i) /\ Num(i) \in Number
    BY <1>1, <1>2, <1>6, <1>9, RowsOfFile DEF Filed, Num
  <2>2. own'[Num(i)] = own[Num(i)]
    BY <1>2, <1>3, <1>9, <2>1
  <2> HIDE DEF n, r
  <2> QED BY <1>1, <1>4, <2>1, <2>2 DEF Stands
<1> HIDE DEF n, r
<1> QED BY <1>1, <1>5, <1>7, <1>8, <1>9 DEF Filed

\* A row is moved, or is where it should be.
LEMMA FiledMoves ==
    ASSUME Shape, Shape', Filed, MoveRow
    PROVE  Filed'
<1> DEFINE n == Num(at)
           m == writing[at].manager
           r == [Seen[n] EXCEPT !.manager = m, !.edge = m]
<1>1. /\ stage = "move" /\ Onward("move", "trigger")
      /\ UNCHANGED <<db, writing, people, loaded, overtaken, alone>>
      /\ \/ Unmoved(at) /\ own' = own
         \/ Movable(at) /\ own' = [own EXCEPT ![n] = r]
  BY DEF MoveRow, Moved, remembered, Num
<1>2. /\ writing \in File /\ at \in DOMAIN writing /\ n \in Number
      /\ DOMAIN writing = 1 .. Len(writing) /\ Len(writing) \in Nat
      /\ \/ stage' = "move" /\ at' = at + 1 /\ at' \in DOMAIN writing
         \/ stage' = "trigger" /\ at' = 1 /\ at = Len(writing)
      /\ \A i \in DOMAIN writing : i < at' => i < at \/ i = at
      /\ \A i \in DOMAIN writing : i # at => Num(i) # n
  BY <1>1, OnwardIs
<1>3. /\ Synced /\ Synced'
      /\ \A i : /\ IsWritten(i) /\ IsWritten(i)' /\ Num(i)' = Num(i) /\ New(i)' = New(i)
                /\ Remembers(i)' = Remembers(i)
  BY <1>1, <1>2 DEF Synced, IsWritten, Num, New, Remembers
<1>4. /\ ~IsMoved(at)
      /\ \A i \in DOMAIN writing : i = at => IsMoved(i)'
      /\ \A i \in DOMAIN writing : i # at => (IsMoved(i)' <=> IsMoved(i))
  BY <1>1, <1>2 DEF IsMoved
<1>5. own \in Table /\ own[n] # Nothing /\ (New(at) \/ loaded[n] # Nothing)
  BY <1>1, <1>2, <1>3 DEF Shape, ServiceTypeOK
<1>6. /\ \A k \in Number : k # n => own'[k] = own[k]
      /\ own'[n] = own[n] \/ own'[n] = r
  BY <1>1, <1>2, <1>5 DEF Table
<1>7. ASSUME NEW k \in Number, loaded[k] # Nothing PROVE AsLoaded(k)'
  <2>1. AsLoaded(k)
    BY <1>7 DEF Filed
  <2>2. k \notin overtaken /\ own'[k] # Nothing => \E i \in DOMAIN writing : IsWritten(i)' /\ k = Num(i)
    <3>1. CASE k = n
      BY <1>2, <1>3, <3>1
    <3>2. CASE k # n
      BY <1>3, <1>6, <2>1, <3>2 DEF AsLoaded
    <3> QED BY <3>1, <3>2
  <2> QED BY <1>1, <1>3, <2>1, <2>2 DEF AsLoaded
<1>8. ASSUME NEW i \in DOMAIN writing, i = at PROVE Stands(i)'
  <2>1. Stands(i) /\ ~IsMoved(i) /\ IsMoved(i)'
    BY <1>1, <1>3, <1>4, <1>8 DEF Filed
  <2>2. CASE Unmoved(at) /\ own' = own
    <3>1. Remembers(i) = m /\ (New(i) \/ (loaded[n] # Nothing /\ Remembers(i) = loaded[n].manager))
      <4>1. Remembers(at) = m
        BY <2>2, Zenon DEF Unmoved
      <4>2. New(at) \/ (loaded[n] # Nothing /\ Remembers(at) = loaded[n].manager)
        BY <1>5 DEF Remembers, Num
      <4> QED BY <1>8, <4>1, <4>2, Zenon
    <3>2. \/ n \in overtaken /\ ~New(i)
          \/ own[n].manager = m /\ own[n].edge = m
      BY <1>8, <2>1, <3>1 DEF Stands
    <3>3. \/ {own[n].manager, own[n].edge} = {m}
          \/ n \in overtaken /\ loaded[n] # Nothing /\ m = loaded[n].manager
      BY <3>1, <3>2
    <3> HIDE DEF n, m, r
    <3>4. n = Num(i) /\ m = writing[i].manager
      BY <1>8 DEF n, m
    <3> QED BY <1>1, <1>3, <2>1, <2>2, <3>3, <3>4 DEF Stands
  <2>3. CASE Movable(at) /\ own' = [own EXCEPT ![n] = r]
    <3>1. own'[n] = r /\ Seen[n] = own[n] /\ ~own[n].gone /\ own[n] \in Record
      BY <1>2, <1>5, <2>3, SeenIs, RecordOf DEF Movable, Present, Num, Shape, Table
    <3>2. r.email = own[n].email /\ ~r.gone /\ r.manager = m /\ r.edge = m
      <4> DEFINE s == Seen[n]
      <4>1. s \in Record /\ r = [s EXCEPT !.manager = m, !.edge = m] /\ s = own[n]
        BY <3>1
      <4> HIDE DEF s, m, r
      <4> QED BY <3>1, <4>1 DEF Record
    <3> HIDE DEF n, m, r
    <3>3. n = Num(i) /\ m = writing[i].manager
      BY <1>8 DEF n, m
    <3> QED BY <1>1, <1>3, <2>1, <3>1, <3>2, <3>3 DEF Stands
  <2> QED BY <1>1, <2>2, <2>3
<1>9. ASSUME NEW i \in DOMAIN writing, i # at PROVE Stands(i)'
  <2>1. Stands(i) /\ Num(i) \in Number
    BY <1>1, <1>2, <1>3, RowsOfFile DEF Filed, Num
  <2>2. own'[Num(i)] = own[Num(i)] /\ (IsMoved(i)' <=> IsMoved(i))
    BY <1>2, <1>4, <1>6, <1>9, <2>1
  <2> HIDE DEF n, m, r
  <2> QED BY <1>1, <1>3, <2>1, <2>2 DEF Stands
<1> HIDE DEF n, m, r
<1> QED BY <1>1, <1>7, <1>8, <1>9 DEF Filed

\* The trigger looks.
LEMMA FiledChecks ==
    ASSUME Shape, Filed, CheckTrigger
    PROVE  Filed'
<1>1. /\ stage = "trigger" /\ stage' = "commit"
      /\ UNCHANGED <<db, writing, at, people, loaded, own, updates, overtaken, alone>>
  BY DEF CheckTrigger, remembered, written
<1>2. /\ Synced /\ Synced'
      /\ \A i : /\ IsWritten(i) /\ IsWritten(i)' /\ Num(i)' = Num(i) /\ New(i)' = New(i)
                /\ Remembers(i)' = Remembers(i) /\ IsMoved(i) /\ IsMoved(i)'
  BY <1>1 DEF Synced, IsWritten, IsMoved, Num, New, Remembers
<1>3. ASSUME NEW n \in Number, loaded[n] # Nothing PROVE AsLoaded(n)'
  <2>1. AsLoaded(n)
    BY <1>3 DEF Filed
  <2> QED BY <1>1, <1>2, <2>1 DEF AsLoaded
<1>4. ASSUME NEW i \in DOMAIN writing PROVE Stands(i)'
  <2>1. Stands(i)
    BY <1>1, <1>2 DEF Filed
  <2> QED BY <1>1, <1>2, <2>1 DEF Stands
<1> QED BY <1>1, <1>3, <1>4 DEF Filed

\* Every step keeps it.
LEMMA FiledInductive ==
    ASSUME Shape, Shape', Filed, ServiceNext
    PROVE  Filed'
<1>1. ASSUME NEW n \in Number, OthersDelete(n) \/ \E r \in OtherRow[n] : OthersWrite(n, r)
      PROVE  Filed'
  BY <1>1, OthersDo, FiledOthers DEF Shape
<1>2. CASE (stage \in Before)'
  BY <1>2, FiledBefore, PTL
<1>3. CASE ReadPeople \/ ReadAddresses \/ Writes \/ Raises \/ Lost \/ Blocks
  <2>1. (stage \in Before)'
    BY <1>3 DEF ReadPeople, ReadAddresses, Writes, Raises, Lost, Blocks, Ended, Before
  <2> QED BY <1>2, <2>1
<1>4. CASE /\ UNCHANGED <<db, stage, at, remembered, written, alone>>
           /\ writing' = writing \/ (writing = Nothing /\ writing' \in File)
  <2>1. CASE writing' = writing
    <3>1. UNCHANGED <<db, writing, stage, at, people, loaded, own, overtaken>>
      BY <1>4, <2>1 DEF remembered, written
    <3> QED BY <3>1 DEF Filed, AsLoaded, Stands, IsWritten, IsMoved, Synced, Num, New, Remembers
  <2>2. CASE writing = Nothing
    <3>1. (stage \in Before)'
      BY <1>4, <2>2 DEF Shape, ServiceTypeOK, Before
    <3> QED BY <1>2, <3>1
  <2> QED BY <1>4, <2>1, <2>2
<1> QED BY <1>1, <1>3, <1>4, FiledLoads, FiledFinds, FiledWrites, FiledMoves, FiledChecks
        DEF ServiceNext, ServiceStep

-----------------------------------------------------------------------------
(* Where nobody else writes. *)

\* What is true while nothing is due and others keep still: the tables are as
\* they were when the rows were checked, but for the rows that are written.
Quiet ==
    /\ people = db /\ Due(db) = {}
    /\ \A i \in DOMAIN writing : db[Num(i)] # Nothing => Num(i) \in Present(db)
    /\ stage # "addresses" =>
          \A i \in DOMAIN writing : \A n \in Present(db) \ {Num(i)} : db[n].email # writing[i].email
    /\ stage \notin Before =>
          \A n \in Number :
              loaded[n] = IF n \in Mentioned(writing) \cap Present(db) THEN db[n] ELSE Nothing
    /\ \A n \in Number : own[n] # Nothing => \E i \in DOMAIN writing : IsWritten(i) /\ n = Num(i)
    /\ \A i \in DOMAIN writing : IsWritten(i) =>
          /\ ~own[Num(i)].gone /\ own[Num(i)].email = writing[i].email
          /\ own[Num(i)].manager = IF IsMoved(i) THEN writing[i].manager ELSE Edges(db)[Num(i)]
    /\ \A u \in updates : \E i \in DOMAIN writing : IsMoved(i) /\ u = <<Num(i), writing[i].manager>>
    /\ Acyclic(Edges(db)) => Acyclic(Edges(Seen))

QuietWhenAlone == stage # "none" /\ alone => Quiet

\* The structures of tables.
LEMMA EdgesIs ==
    ASSUME NEW d \in Table
    PROVE  /\ Edges(d) \in Structure
           /\ \A n \in Number : Edges(d)[n] = IF d[n] = Nothing THEN NoManager ELSE d[n].manager
BY RecordOf DEF Edges, Structure, ManagerOrNone

\* A move that is not below the employee closes no loop.
LEMMA MoveKeepsAcyclic ==
    ASSUME NEW g \in Structure, Acyclic(g), NEW n \in Employee, NEW m \in ManagerOrNone,
           m # NoManager => ~IsDescendant(g, m, n)
    PROVE  Acyclic([g EXCEPT ![n] = m])
<1> DEFINE h == [g EXCEPT ![n] = m]
<1>1. h[n] = m /\ \A x \in Employee : x # n => h[x] = g[x]
  BY DEF Structure
<1> HIDE DEF h
<1> SUFFICES ASSUME NEW S \in SUBSET Employee, S # {}, \A x \in S : h[x] \in S PROVE FALSE
  BY DEF Acyclic, h
<1>2. n \in S
  <2> SUFFICES ASSUME n \notin S PROVE FALSE
    OBVIOUS
  <2>1. \A x \in S : g[x] \in S
    BY <1>1
  <2> QED BY <2>1 DEF Acyclic
<1>3. m \in S /\ m # NoManager
  BY <1>1, <1>2
<1>4. PICK T \in SUBSET Employee : n \in T /\ DownClosed(g, T) /\ m \notin T
  BY <1>3 DEF IsDescendant
<1>5. \A x \in S \ T : g[x] \in S \ T
  BY <1>1, <1>4 DEF DownClosed
<1>6. S \ T # {} /\ S \ T \in SUBSET Employee
  BY <1>3, <1>4
<1> HIDE DEF Structure
<1> QED BY <1>5, <1>6 DEF Acyclic

\* Where there is no loop the walk up from a manager does not come back, and ends.
LEMMA WalksEnd ==
    ASSUME NEW g \in Structure, Acyclic(g), NEW n \in Employee, NEW m \in Employee, g[n] = m
    PROVE  /\ ~Reaches(g, m, n)
           /\ \E top \in Employee : Reaches(g, m, top) /\ g[top] = NoManager
<1>1. ASSUME Reaches(g, m, n) PROVE FALSE
  <2> DEFINE C == {x \in Employee : Reaches(g, x, n)}
  <2>1. ASSUME NEW x \in C PROVE g[x] \in C
    <3>0. x \in Employee /\ Reaches(g, x, n)
      OBVIOUS
    <3>1. CASE x = n
      BY <1>1, <3>1
    <3>2. CASE x # n
      <4>1. g[x] \in Employee
        <5> SUFFICES ASSUME g[x] = NoManager PROVE FALSE
          BY DEF Structure, ManagerOrNone
        <5>1. UpClosed(g, {x})
          BY DEF UpClosed
        <5>2. n \in {x}
          BY <3>0, <5>1 DEF Reaches
        <5> QED BY <3>2, <5>2
      <4>2. ASSUME NEW S \in SUBSET Employee, g[x] \in S, UpClosed(g, S) PROVE n \in S
        <5>1. UpClosed(g, S \cup {x})
          BY <4>2 DEF UpClosed
        <5>2. n \in S \cup {x}
          BY <3>0, <5>1 DEF Reaches
        <5> QED BY <3>2, <5>2
      <4>3. Reaches(g, g[x], n)
        BY <4>2 DEF Reaches
      <4> QED BY <4>1, <4>3
    <3> QED BY <3>1, <3>2
  <2>2. C # {} /\ C \in SUBSET Employee
    BY <1>1
  <2> HIDE DEF C
  <2> QED BY <2>1, <2>2 DEF Acyclic
<1>2. \E top \in Employee : Reaches(g, m, top) /\ g[top] = NoManager
  <2> DEFINE U == {x \in Employee : Reaches(g, m, x)}
  <2>1. m \in U /\ U \in SUBSET Employee
    BY DEF Reaches
  <2>2. ASSUME NEW x \in U, g[x] # NoManager PROVE g[x] \in U
    <3>1. g[x] \in Employee
      BY <2>2 DEF Structure, ManagerOrNone
    <3>2. ASSUME NEW S \in SUBSET Employee, m \in S, UpClosed(g, S) PROVE g[x] \in S
      <4>1. x \in S
        BY <3>2 DEF Reaches
      <4> QED BY <2>2, <3>2, <4>1 DEF UpClosed
    <3> QED BY <3>1, <3>2 DEF Reaches
  <2>3. PICK top \in U : g[top] \notin U
    <3> HIDE DEF U
    <3> QED BY <2>1 DEF Acyclic
  <2> QED BY <2>2, <2>3
<1> QED BY <1>1, <1>2

\* The first statements.
LEMMA QuietReads ==
    ASSUME Shape, Shape', QuietWhenAlone, ReadPeople \/ ReadAddresses, alone'
    PROVE  Quiet'
<1>1. /\ UNCHANGED <<db, own, loaded, updates, writing>>
      /\ own = Nobody /\ updates = {} /\ stage' \in {"addresses", "load"} /\ db \in Table
  BY DEF ReadPeople, ReadAddresses, remembered, written, Shape, Before, ServiceTypeOK
<1>2. \A i : ~IsWritten(i)'
  BY <1>1 DEF IsWritten
<1>3. Seen' = db
  BY <1>1 DEF Seen, Nobody, Table
<1>4. /\ people' = db /\ Due(db) = {}
      /\ \A i \in DOMAIN writing : db[Num(i)] # Nothing => Num(i) \in Present(db)
  BY DEF ReadPeople, ReadAddresses, QuietWhenAlone, Quiet, remembered, Num
<1>5. stage' # "addresses" =>
        \A i \in DOMAIN writing : \A n \in Present(db) \ {Num(i)} : db[n].email # writing[i].email
  <2> SUFFICES ASSUME ReadAddresses
               PROVE  \A i \in DOMAIN writing :
                          \A n \in Present(db) \ {Num(i)} : db[n].email # writing[i].email
    BY DEF ReadPeople
  <2>1. Blocked(people, db, writing) = {} /\ writing \in File
    BY DEF ReadAddresses, Shape, ServiceTypeOK
  <2> QED BY <2>1, WhatPasses DEF Num
<1>6. Due(db)' = Due(db) /\ Present(db)' = Present(db) /\ Edges(db)' = Edges(db)
      /\ Edges(Seen)' = Edges(db)
      /\ \A i : Num(i)' = Num(i)
  BY <1>1, <1>3 DEF Due, Present, Edges, Num
<1>7. \A n \in Number : own'[n] = Nothing
  BY <1>1 DEF Nobody
<1> QED BY <1>1, <1>2, <1>3, <1>4, <1>5, <1>6, <1>7 DEF Quiet, Before

\* What is loaded.
LEMMA QuietLoads ==
    ASSUME Shape, Shape', Quiet, LoadRows
    PROVE  Quiet'
<1>1. /\ stage = "load" /\ UNCHANGED <<db, writing, at, people, own, updates, overtaken, alone>>
      /\ loaded' = [n \in Number |-> IF n \in Mentioned(writing) \cap Present(db)
                                     THEN db[n] ELSE Nothing]
      /\ stage' = IF writing = <<>> THEN "trigger" ELSE "find"
  BY DEF LoadRows, written
<1>2. at = 1 /\ own = Nobody /\ updates = {} /\ writing \in File
  BY <1>1 DEF Shape, ServiceTypeOK, Before
<1>3. \A i \in DOMAIN writing : ~IsWritten(i)'
  <2>1. CASE writing = <<>>
    BY <2>1
  <2>2. CASE writing # <<>>
    BY <1>1, <1>2, <2>2, RowsOfFile DEF IsWritten
  <2> QED BY <2>1, <2>2
<1>4. \A n \in Number : own'[n] = Nothing
  BY <1>1, <1>2 DEF Nobody
<1>5. /\ Due(db)' = Due(db) /\ Present(db)' = Present(db) /\ Edges(db)' = Edges(db)
      /\ Edges(Seen)' = Edges(Seen) /\ \A i : Num(i)' = Num(i)
  BY <1>1 DEF Due, Present, Edges, Num, Seen
<1> QED BY <1>1, <1>2, <1>3, <1>4, <1>5 DEF Quiet, Before

\* A row is looked at, and nothing is due.
LEMMA QuietFinds ==
    ASSUME Shape, Shape', Quiet, FindRow
    PROVE  Quiet'
<1>1. /\ stage = "find" /\ stage' = "write"
      /\ UNCHANGED <<db, writing, at, people, loaded, alone>> /\ writing \in File
  BY DEF FindRow, remembered, Shape, ServiceTypeOK
<1>2. own' = own /\ updates' \subseteq updates
  <2>1. CASE at = 1
    <3>1. Due(db) = {} /\ own \in Table
      BY DEF Quiet, Shape, ServiceTypeOK
    <3>2. own' = [n \in Number |-> Nothing] /\ updates' = {}
      BY <2>1, <3>1 DEF FindRow
    <3>3. \A i \in DOMAIN writing : ~IsWritten(i)
      BY <1>1, <2>1, RowsOfFile DEF IsWritten
    <3>4. \A n \in Number : own[n] = Nothing
      BY <3>3 DEF Quiet
    <3> QED BY <3>1, <3>2, <3>4 DEF Table
  <2>2. CASE at # 1
    BY <2>2 DEF FindRow, written
  <2> QED BY <2>1, <2>2
<1>3. /\ Due(db)' = Due(db) /\ Present(db)' = Present(db) /\ Edges(db)' = Edges(db)
      /\ Edges(Seen)' = Edges(Seen)
      /\ \A i : Num(i)' = Num(i) /\ IsWritten(i)' = IsWritten(i) /\ IsMoved(i)' = IsMoved(i)
  BY <1>1, <1>2 DEF Due, Present, Edges, Num, Seen, IsWritten, IsMoved
<1> QED BY <1>1, <1>2, <1>3 DEF Quiet, Before

\* The row of the employee whose turn it is has not been written.
LEMMA NotYetWritten ==
    ASSUME Shape, Quiet, stage \in {"find", "write"}
    PROVE  /\ own[Num(at)] = Nothing /\ Seen[Num(at)] = db[Num(at)] /\ Num(at) \in Number
           /\ New(at) => db[Num(at)] = Nothing
           /\ ~New(at) => /\ Num(at) \in Present(db) /\ loaded[Num(at)] = db[Num(at)]
                          /\ db[Num(at)] # Nothing
<1>1. at \in DOMAIN writing /\ writing \in File /\ Passed(people, writing)
  BY DEF Shape, ServiceTypeOK
<1>2. Num(at) \in Number /\ at \in Nat
  BY <1>1, RowsOfFile DEF Num
<1>3. own[Num(at)] = Nothing
  <2> SUFFICES ASSUME own[Num(at)] # Nothing PROVE FALSE
    OBVIOUS
  <2>1. PICK i \in DOMAIN writing : IsWritten(i) /\ Num(at) = Num(i)
    BY <1>2 DEF Quiet
  <2>2. i = at
    BY <1>1, <2>1 DEF Passed, Num
  <2> QED BY <1>2, <2>1, <2>2 DEF IsWritten
<1>4. Seen[Num(at)] = db[Num(at)]
  BY <1>2, <1>3 DEF Seen
<1>5. New(at) => db[Num(at)] = Nothing
  BY <1>1 DEF New, Quiet, Num
<1>6. ~New(at) => Num(at) \in Present(db) /\ loaded[Num(at)] = db[Num(at)] /\ db[Num(at)] # Nothing
  <2>1. Num(at) \in Mentioned(writing)
    BY <1>1 DEF Mentioned, Num
  <2>2. ~New(at) => Num(at) \in Present(db)
    BY DEF New, Quiet, Num
  <2> QED BY <1>2, <2>1, <2>2 DEF Quiet, Before, Present
<1> QED BY <1>2, <1>3, <1>4, <1>5, <1>6

\* And will be written as the file says, with the manager it has.
LEMMA PutAsFiled ==
    ASSUME Shape, Quiet, stage = "write"
    PROVE  /\ Put(at) \in Record /\ Put(at).email = writing[at].email /\ ~Put(at).gone
           /\ Put(at).manager = Edges(db)[Num(at)]
<1>1. /\ Put(at) \in Record
      /\ New(at) => /\ Put(at).email = writing[at].email /\ ~Put(at).gone
                    /\ Put(at).manager = NoManager /\ Put(at).edge = NoManager
      /\ ~New(at) => /\ Put(at).manager = Seen[Num(at)].manager
                     /\ Put(at).gone = Seen[Num(at)].gone
                     /\ Put(at).email = IF writing[at].email = loaded[Num(at)].email
                                        THEN Seen[Num(at)].email ELSE writing[at].email
  BY PutIs
<1>2. db \in Table
  BY DEF Shape, ServiceTypeOK
<1>3. Edges(db)[Num(at)] = IF db[Num(at)] = Nothing THEN NoManager ELSE db[Num(at)].manager
  BY <1>2, NotYetWritten, EdgesIs
<1>4. ~New(at) => ~db[Num(at)].gone
  BY NotYetWritten DEF Present
<1> HIDE DEF Num
<1> QED BY <1>1, <1>3, <1>4, NotYetWritten

\* A row is written, and the structure stays.
LEMMA QuietWrites ==
    ASSUME Shape, Shape', Quiet, WriteRow
    PROVE  Quiet'
<1> DEFINE n == Num(at)
           r == Put(at)
<1>1. /\ stage = "write" /\ own' = [own EXCEPT ![n] = r] /\ Onward("find", "move")
      /\ UNCHANGED <<db, writing, people, loaded, updates, overtaken, alone>>
  BY DEF WriteRow, remembered, Num
<1>2. /\ writing \in File /\ at \in DOMAIN writing /\ n \in Number
      /\ DOMAIN writing = 1 .. Len(writing) /\ Len(writing) \in Nat
      /\ \/ stage' = "find" /\ at' = at + 1 /\ at' \in DOMAIN writing
         \/ stage' = "move" /\ at' = 1 /\ at = Len(writing)
      /\ \A i \in DOMAIN writing : i < at' => i < at \/ i = at
      /\ \A i \in DOMAIN writing : i # at => Num(i) # n
  BY <1>1, OnwardIs
<1>3. /\ r \in Record /\ r # Nothing /\ r.email = writing[at].email /\ ~r.gone
      /\ r.manager = Edges(db)[n]
  BY <1>1, PutAsFiled
<1>4. own \in Table /\ own'[n] = r /\ \A k \in Number : k # n => own'[k] = own[k]
  BY <1>1, <1>2 DEF Shape, ServiceTypeOK, Table
<1>5. /\ \A i : ~IsMoved(i) /\ Num(i)' = Num(i)
      /\ \A i \in DOMAIN writing : ~IsMoved(i)'
  BY <1>1, <1>2 DEF IsMoved, Num
<1>6. PICK now \in DOMAIN writing : now = at /\ IsWritten(now)'
  <2>1. PICK now \in DOMAIN writing : now = at
    BY <1>2
  <2> QED BY <1>1, <1>2, <2>1 DEF IsWritten
<1>7. \A i \in DOMAIN writing : (IsWritten(i) => IsWritten(i)') /\ (IsWritten(i)' => i = at \/ IsWritten(i))
  BY <1>1, <1>2 DEF IsWritten
<1>8. \A k \in Number : own'[k] # Nothing => \E i \in DOMAIN writing : IsWritten(i)' /\ k = Num(i)
  <2> TAKE k \in Number
  <2>1. CASE k = n
    BY <1>6, <2>1
  <2>2. CASE k # n
    BY <1>4, <1>7, <2>2 DEF Quiet
  <2> QED BY <2>1, <2>2
<1>9. ASSUME NEW i \in DOMAIN writing, IsWritten(i)'
      PROVE  /\ ~own'[Num(i)].gone /\ own'[Num(i)].email = writing[i].email
             /\ own'[Num(i)].manager = Edges(db)[Num(i)]
  <2>1. CASE i = at
    <3>1. Num(i) = n
      BY <2>1
    <3> HIDE DEF n, r
    <3> QED BY <1>3, <1>4, <2>1, <3>1
  <2>2. CASE i # at
    <3>1. Num(i) \in Number /\ IsWritten(i)
      BY <1>2, <1>7, <1>9, <2>2, RowsOfFile DEF Num
    <3>2. own'[Num(i)] = own[Num(i)]
      BY <1>2, <1>4, <2>2, <3>1
    <3> HIDE DEF n, r
    <3> QED BY <1>5, <3>1, <3>2 DEF Quiet
  <2> QED BY <2>1, <2>2
<1>10. Edges(Seen)' = Edges(Seen)
  <2>1. Seen[n] = db[n] /\ own[n] = Nothing /\ db \in Table
    BY <1>1, NotYetWritten DEF Shape, ServiceTypeOK
  <2> DEFINE S == Seen
             T == Seen'
  <2>2. \A k \in Number : T[k] = IF k = n THEN r ELSE S[k]
    BY <1>1, <1>3, <1>4 DEF Seen
  <2>3. Edges(db)[n] = IF db[n] = Nothing THEN NoManager ELSE db[n].manager
    BY <1>2, <2>1, EdgesIs
  <2>4. Edges(Seen)' = [k \in Number |-> IF T[k] = Nothing THEN NoManager ELSE T[k].manager]
    BY DEF Edges
  <2>5. Edges(Seen) = [k \in Number |-> IF S[k] = Nothing THEN NoManager ELSE S[k].manager]
    BY DEF Edges
  <2>6. S[n] = db[n]
    BY <2>1
  <2> HIDE DEF S, T, n, r
  <2>7. \A k \in Number : (IF T[k] = Nothing THEN NoManager ELSE T[k].manager)
                          = (IF S[k] = Nothing THEN NoManager ELSE S[k].manager)
    BY <1>3, <2>2, <2>3, <2>6
  <2> QED BY <2>4, <2>5, <2>7
<1>11. /\ Due(db)' = Due(db) /\ Present(db)' = Present(db) /\ Edges(db)' = Edges(db)
  BY <1>1 DEF Due, Present, Edges
<1>12. \A u : u \in updates => FALSE
  BY <1>5 DEF Quiet
<1> HIDE DEF n, r
<1> QED BY <1>1, <1>2, <1>5, <1>8, <1>9, <1>10, <1>11, <1>12 DEF Quiet, Before

\* A row is moved, or is where it should be.
LEMMA QuietMoves ==
    ASSUME Shape, Shape', Quiet, MoveRow
    PROVE  Quiet'
<1> DEFINE n == Num(at)
           m == writing[at].manager
           r == [Seen[n] EXCEPT !.manager = m, !.edge = m]
<1>1. /\ stage = "move" /\ Onward("move", "trigger")
      /\ UNCHANGED <<db, writing, people, loaded, overtaken, alone>>
      /\ \/ Unmoved(at) /\ own' = own /\ updates' = updates
         \/ Movable(at) /\ own' = [own EXCEPT ![n] = r] /\ updates' = updates \cup {<<n, m>>}
  BY DEF MoveRow, Moved, remembered, Num
<1>2. /\ writing \in File /\ at \in DOMAIN writing /\ n \in Number
      /\ DOMAIN writing = 1 .. Len(writing) /\ Len(writing) \in Nat
      /\ \/ stage' = "move" /\ at' = at + 1 /\ at' \in DOMAIN writing
         \/ stage' = "trigger" /\ at' = 1 /\ at = Len(writing)
      /\ \A i \in DOMAIN writing : i < at' => i < at \/ i = at
      /\ \A i \in DOMAIN writing : i # at => Num(i) # n
  BY <1>1, OnwardIs
<1>3. m \in ManagerOrNone
  BY <1>2, RowsOfFile
<1>4. \A i : IsWritten(i) /\ IsWritten(i)' /\ Num(i)' = Num(i)
  BY <1>1, <1>2 DEF IsWritten, Num
<1>5. /\ ~IsMoved(at)
      /\ \A i \in DOMAIN writing : i = at => IsMoved(i)'
      /\ \A i \in DOMAIN writing : i # at => (IsMoved(i)' <=> IsMoved(i))
      /\ \A i \in DOMAIN writing : IsMoved(i) => IsMoved(i)'
  BY <1>1, <1>2 DEF IsMoved
<1>6. own \in Table /\ db \in Table /\ own[n] # Nothing /\ own[n] \in Record
  <2>1. own \in Table /\ db \in Table /\ own[n] # Nothing
    BY <1>1, <1>2, <1>4 DEF Shape, ServiceTypeOK
  <2> QED BY <1>2, <2>1, RecordOf
<1>7. /\ own'[n].manager = m /\ ~own'[n].gone /\ own'[n].email = writing[at].email
      /\ own'[n] # Nothing
      /\ \A k \in Number : k # n => own'[k] = own[k]
      /\ \/ Edges(Seen)' = Edges(Seen)
         \/ Edges(Seen)' = [Edges(Seen) EXCEPT ![n] = m] /\ Movable(at)
      /\ \A u \in updates' : u \in updates \/ u = <<n, m>>
  <2>1. /\ ~own[n].gone /\ own[n].email = writing[at].email /\ own[n].manager = Edges(db)[n]
    BY <1>2, <1>4, <1>5 DEF Quiet
  <2>2. CASE Unmoved(at) /\ own' = own /\ updates' = updates
    <3>1. Remembers(at) = Edges(db)[n]
      <4>1. CASE New(at)
        <5>1. db[n] = Nothing
          BY <1>2, <4>1 DEF New, Quiet, Num
        <5> QED BY <1>2, <1>6, <4>1, <5>1, EdgesIs DEF Remembers
      <4>2. CASE ~New(at)
        <5>1. n \in Present(db) /\ n \in Mentioned(writing)
          BY <1>2, <4>2 DEF New, Quiet, Num, Mentioned
        <5>2. loaded[n] = db[n] /\ db[n] # Nothing
          BY <1>1, <1>2, <5>1 DEF Quiet, Before, Present
        <5>3. Remembers(at) = loaded[n].manager
          BY <4>2 DEF Remembers, Num
        <5> QED BY <1>2, <1>6, <5>2, <5>3, EdgesIs
      <4> QED BY <4>1, <4>2
    <3>2. Remembers(at) = m
      BY <2>2, Zenon DEF Unmoved
    <3>3. Edges(Seen)' = Edges(Seen)
      BY <1>1, <2>2 DEF Edges, Seen
    <3> HIDE DEF n, m, r
    <3> QED BY <1>6, <2>1, <2>2, <3>1, <3>2, <3>3
  <2>3. CASE Movable(at) /\ own' = [own EXCEPT ![n] = r] /\ updates' = updates \cup {<<n, m>>}
    <3>1. Seen[n] = own[n]
      BY <1>2, <1>6 DEF Seen
    <3>2. r.email = own[n].email /\ r.gone = own[n].gone /\ r.manager = m /\ r \in Record /\ r # Nothing
      <4> DEFINE s == Seen[n]
      <4>1. s \in Record /\ r = [s EXCEPT !.manager = m, !.edge = m] /\ s = own[n]
        BY <1>6, <3>1
      <4> HIDE DEF s, m, r
      <4> QED BY <1>3, <4>1 DEF Record
    <3> HIDE DEF r
    <3>3. own'[n] = r /\ \A k \in Number : k # n => own'[k] = own[k]
      BY <1>2, <1>6, <2>3 DEF Table
    <3> DEFINE S == Seen
               T == Seen'
    <3>4. \A k \in Number : T[k] = IF k = n THEN r ELSE S[k]
      BY <1>1, <3>2, <3>3 DEF Seen
    <3>5. Edges(Seen)' = [k \in Number |-> IF T[k] = Nothing THEN NoManager ELSE T[k].manager]
      BY DEF Edges
    <3>6. Edges(Seen) = [k \in Number |-> IF S[k] = Nothing THEN NoManager ELSE S[k].manager]
      BY DEF Edges
    <3> HIDE DEF S, T, n, m
    <3>7. \A k \in Number : (IF T[k] = Nothing THEN NoManager ELSE T[k].manager)
                            = IF k = n THEN m ELSE Edges(Seen)[k]
      BY <3>2, <3>4, <3>6
    <3>8. Edges(Seen)' = [Edges(Seen) EXCEPT ![n] = m]
      BY <3>5, <3>6, <3>7
    <3> QED BY <2>1, <2>3, <3>2, <3>3, <3>8
  <2> QED BY <1>1, <2>2, <2>3
<1> HIDE DEF m, n, r
<1>8. Acyclic(Edges(db)) => Acyclic(Edges(Seen)')
  <2> SUFFICES ASSUME Acyclic(Edges(db)), Edges(Seen)' = [Edges(Seen) EXCEPT ![n] = m], Movable(at)
               PROVE  Acyclic(Edges(Seen)')
    BY <1>7 DEF Quiet
  <2>1. Acyclic(Edges(Seen)) /\ Edges(Seen) \in Structure
    BY SeenIs, EdgesIs DEF Quiet, Shape
  <2>2. m # NoManager => ~IsDescendant(Edges(Seen), m, n)
    BY Zenon DEF Movable, m, n, Num
  <2> DEFINE g == Edges(Seen)
  <2>3. g \in Structure /\ Acyclic(g) /\ (m # NoManager => ~IsDescendant(g, m, n))
        /\ Edges(Seen)' = [g EXCEPT ![n] = m]
    BY <2>1, <2>2
  <2> HIDE DEF g
  <2>4. Acyclic([g EXCEPT ![n] = m])
    BY <1>2, <1>3, <2>3, MoveKeepsAcyclic
  <2> QED BY <2>3, <2>4
<1>9. \A k \in Number : own'[k] # Nothing => \E i \in DOMAIN writing : k = Num(i)
  <2> TAKE k \in Number
  <2>1. CASE k = n
    BY <1>2, <2>1 DEF n
  <2>2. CASE k # n
    BY <1>7, <2>2 DEF Quiet
  <2> QED BY <2>1, <2>2
<1>10. ASSUME NEW i \in DOMAIN writing
       PROVE  /\ ~own'[Num(i)].gone /\ own'[Num(i)].email = writing[i].email
              /\ IsMoved(i)' => own'[Num(i)].manager = writing[i].manager
              /\ ~IsMoved(i)' => own'[Num(i)].manager = Edges(db)[Num(i)]
  <2>1. CASE i = at
    BY <1>5, <1>7, <2>1 DEF n, m
  <2>2. CASE i # at
    <3>1. Num(i) \in Number /\ Num(i) # n /\ (IsMoved(i)' <=> IsMoved(i))
      BY <1>2, <1>5, <2>2, RowsOfFile DEF Num
    <3>2. own'[Num(i)] = own[Num(i)]
      BY <1>7, <3>1
    <3> QED BY <1>4, <3>1, <3>2 DEF Quiet
  <2> QED BY <2>1, <2>2
<1>11. \A u \in updates' : \E i \in DOMAIN writing : IsMoved(i)' /\ u = <<Num(i), writing[i].manager>>
  <2> TAKE u \in updates'
  <2>1. CASE u \in updates
    BY <1>5, <2>1 DEF Quiet
  <2>2. CASE u = <<n, m>>
    BY <1>2, <1>5, <2>2 DEF n, m
  <2> QED BY <1>7, <2>1, <2>2
<1>12. /\ Due(db)' = Due(db) /\ Present(db)' = Present(db) /\ Edges(db)' = Edges(db)
  BY <1>1 DEF Due, Present, Edges
<1> QED BY <1>1, <1>2, <1>4, <1>8, <1>9, <1>10, <1>11, <1>12 DEF Quiet, Before

\* The trigger looks.
LEMMA QuietChecks ==
    ASSUME Shape, Quiet, CheckTrigger
    PROVE  Quiet'
<1>1. /\ stage = "trigger" /\ stage' = "commit"
      /\ UNCHANGED <<db, writing, at, people, loaded, own, updates, overtaken, alone>>
  BY DEF CheckTrigger, remembered, written
<1>2. \A i : IsWritten(i) /\ IsWritten(i)' /\ IsMoved(i) /\ IsMoved(i)' /\ Num(i)' = Num(i)
  BY <1>1 DEF IsWritten, IsMoved, Num
<1>3. /\ Due(db)' = Due(db) /\ Present(db)' = Present(db) /\ Edges(db)' = Edges(db)
      /\ Edges(Seen)' = Edges(Seen)
  BY <1>1 DEF Due, Present, Edges, Seen
<1> QED BY <1>1, <1>2, <1>3 DEF Quiet, Before

\* Every step keeps it.
LEMMA QuietInductive ==
    ASSUME Shape, Shape', QuietWhenAlone, ServiceNext
    PROVE  QuietWhenAlone'
<1> SUFFICES ASSUME stage' # "none", alone' PROVE Quiet'
  BY DEF QuietWhenAlone
<1>1. ASSUME NEW n \in Number, OthersDelete(n) \/ \E r \in OtherRow[n] : OthersWrite(n, r)
      PROVE  FALSE
  BY <1>1 DEF OthersDelete, OthersWrite, OthersCommit
<1>2. ~(Writes \/ Raises \/ Lost \/ Blocks)
  BY DEF Writes, Raises, Lost, Blocks, Ended
<1>3. CASE ReadPeople \/ ReadAddresses
  BY <1>3, QuietReads
<1>4. CASE LoadRows \/ FindRow \/ WriteRow \/ MoveRow \/ CheckTrigger
  <2>1. stage # "none" /\ alone
    BY <1>4 DEF LoadRows, FindRow, WriteRow, MoveRow, CheckTrigger, written
  <2>2. Quiet
    BY <2>1 DEF QuietWhenAlone
  <2> QED BY <1>4, <2>2, QuietLoads, QuietFinds, QuietWrites, QuietMoves, QuietChecks
<1>5. CASE /\ UNCHANGED <<db, stage, at, remembered, written, alone>>
           /\ writing' = writing \/ (writing = Nothing /\ writing' \in File)
  <2>1. stage # "none" /\ alone
    BY <1>5
  <2>2. writing' = writing
    BY <1>5, <2>1 DEF Shape, ServiceTypeOK
  <2>3. Quiet
    BY <2>1 DEF QuietWhenAlone
  <2>4. UNCHANGED <<db, writing, stage, at, people, loaded, own, updates, overtaken, alone>>
    BY <1>5, <2>2 DEF remembered, written
  <2> QED BY <2>3, <2>4 DEF Quiet, Seen, Edges, Due, Present, IsWritten, IsMoved, Num
<1> QED BY <1>1, <1>2, <1>3, <1>4, <1>5 DEF ServiceNext, ServiceStep

-----------------------------------------------------------------------------
(* The page. *)

\* The rows that are blocked are rows.
LEMMA BlockedAreRows ==
    ASSUME NEW p, NEW d, NEW rows
    PROVE  Blocked(p, d, rows) \subseteq DOMAIN rows
BY DEF Blocked, Duplicates, Same, Taken, Malformed, InLoop, KnownManager

\* A check is added to those in flight.
LEMMA ChecksOne ==
    ASSUME NEW rows, NEW submits, Checks(rows, submits)
    PROVE  /\ isChecking' = TRUE
           /\ \E id \in 1 .. 2 :
                  checks' = checks \cup {[id |-> id, rows |-> rows, submits |-> submits]}
BY DEF Checks

\* Files that are being read.
LEMMA Loading ==
    ASSUME reading \in UNION {[1 .. n -> FileChoice] : n \in 0 .. 2}
    PROVE  /\ reading \in Seq(FileChoice) /\ Len(reading) \in 0 .. 2
           /\ DOMAIN reading = 1 .. Len(reading)
           /\ \A s \in Seq(FileChoice) :
                  Len(s) \in 0 .. 2 => s \in UNION {[1 .. n -> FileChoice] : n \in 0 .. 2}
<1>1. PICK n \in 0 .. 2 : reading \in [1 .. n -> FileChoice]
  OBVIOUS
<1>2. reading \in Seq(FileChoice) /\ Len(reading) = n
  BY <1>1
<1>3. \A s \in Seq(FileChoice) : s \in [1 .. Len(s) -> FileChoice]
  OBVIOUS
<1> QED BY <1>1, <1>2, <1>3

\* No rows are a file.
LEMMA NoRows == <<>> \in File
<1>1. 0 \in 0 .. MaxRows /\ <<>> \in [1 .. 0 -> RowChoice]
  BY SizeAssumption
<1> QED BY <1>1 DEF File

\* What the page does leaves the service alone, but for the rows it hands it.
LEMMA StepsOfService ==
    ASSUME TypeOK, [Next]_vars
    PROVE  ServiceNext
<1> USE DEF ServiceNext
<1>1. CASE UserStep
  <2>1. \/ UNCHANGED <<db, import>>
        \/ /\ UNCHANGED <<db, stage, at, remembered, written, alone>>
           /\ writing' = writing \/ (writing = Nothing /\ writing' = table)
    BY <1>1 DEF UserStep, LoadFile, EditCell, AskDiscard, Discard, ImportAnother, CloseDialog,
                CheckAgain, Submit, Commit
  <2>2. table \in File
    BY DEF TypeOK
  <2> QED BY <2>1, <2>2 DEF import
<1>2. CASE FileRead \/ FileRefused \/ UNCHANGED vars
  BY <1>2 DEF FileRead, FileRefused, vars, import
<1>3. CASE Answer
  <2>1. CASE \E c \in checks : Checked(c) \/ CheckFails(c)
    BY <2>1 DEF Checked, CheckFails, import
  <2>2. CASE Commits \/ CommitBlocked \/ CommitFails
    BY <2>2 DEF Commits, CommitBlocked, CommitFails
  <2> QED BY <1>3, <2>1, <2>2 DEF Answer
<1>4. CASE ServiceStep
  BY <1>4
<1> QED BY <1>1, <1>2, <1>3, <1>4 DEF Next

\* The types of the page.
PageTypeOK ==
    /\ table \in File
    /\ named \in BOOLEAN /\ isChecking \in BOOLEAN
    /\ committed \in BOOLEAN /\ crowded \in BOOLEAN
    /\ issues \subseteq 1 .. MaxRows
    /\ dialog \in {"none", "commit", "discard"}
    /\ reading \in UNION {[1 .. n -> FileChoice] : n \in 0 .. 2}
    /\ checks \subseteq [id : 1 .. 2, rows : File, submits : BOOLEAN]

\* Every step of the page and of the server keeps them.
LEMMA PageInductive ==
    ASSUME TypeOK, [Next]_vars
    PROVE  PageTypeOK'
<1>0. /\ table \in File /\ issues \subseteq 1 .. MaxRows
      /\ reading \in UNION {[1 .. n -> FileChoice] : n \in 0 .. 2}
      /\ checks \subseteq [id : 1 .. 2, rows : File, submits : BOOLEAN]
      /\ PageTypeOK
  BY DEF TypeOK, PageTypeOK
<1>r. ASSUME NEW p, NEW rows \in File PROVE Blocked(p, db, rows) \subseteq 1 .. MaxRows
  <2>1. Blocked(p, db, rows) \subseteq DOMAIN rows
    BY BlockedAreRows
  <2> QED BY <2>1, RowsOfFile
<1>1. ASSUME NEW f \in FileChoice, LoadFile(f) PROVE PageTypeOK'
  <2>1. /\ reading' = Append(reading, f) /\ Len(reading) < 2
        /\ crowded' = (crowded \/ reading # <<>> \/ checks # {})
        /\ UNCHANGED <<table, named, verdicts, requests>>
    BY <1>1 DEF LoadFile
  <2>2. reading' \in UNION {[1 .. n -> FileChoice] : n \in 0 .. 2}
    <3>1. reading' \in Seq(FileChoice) /\ Len(reading') \in 0 .. 2
      BY <1>0, <2>1, Loading
    <3> QED BY <1>0, <3>1, Loading
  <2>3. crowded' \in BOOLEAN
    BY <1>0, <2>1 DEF PageTypeOK
  <2> QED BY <1>0, <2>1, <2>2, <2>3 DEF PageTypeOK, verdicts, requests
<1>2. CASE FileRead
  <2>1. PICK i \in DOMAIN reading :
            /\ reading' = RemoveAt(reading, i)
            /\ table' = reading[i]
            /\ Checks(reading[i], FALSE)
    BY <1>2 DEF FileRead
  <2>2. named' = TRUE /\ committed' = FALSE /\ UNCHANGED <<issues, dialog, crowded>>
    BY <1>2 DEF FileRead
  <2>3. reading[i] \in FileChoice /\ i \in 1 .. Len(reading) /\ Len(reading) \in 0 .. 2
        /\ reading \in Seq(FileChoice)
    BY <1>0, <2>1, Loading
  <2>4. reading' \in Seq(FileChoice) /\ Len(reading') \in 0 .. 2
    <3> DEFINE s == SubSeq(reading, 1, i - 1)
               t == SubSeq(reading, i + 1, Len(reading))
    <3>1. s \in Seq(FileChoice) /\ Len(s) = i - 1
      BY <2>3
    <3>2. t \in Seq(FileChoice) /\ Len(t) = Len(reading) - i
      BY <2>3
    <3>3. reading' = s \o t
      BY <2>1 DEF RemoveAt
    <3> HIDE DEF s, t
    <3>4. s \o t \in Seq(FileChoice) /\ Len(s \o t) = Len(s) + Len(t)
      BY <3>1, <3>2, ConcatProperties, ZenonT(30)
    <3>5. Len(s) + Len(t) \in 0 .. 2
      <4> DEFINE l == Len(reading)
      <4>1. i \in 1 .. l /\ l \in 0 .. 2
        BY <2>3
      <4>2. Len(s) + Len(t) = (i - 1) + (l - i)
        BY <3>1, <3>2
      <4> HIDE DEF l
      <4>3. (i - 1) + (l - i) \in 0 .. 2
        BY <4>1
      <4> QED BY <4>2, <4>3
    <3> QED BY <3>3, <3>4, <3>5
  <2>5. reading' \in UNION {[1 .. n -> FileChoice] : n \in 0 .. 2}
    BY <1>0, <2>4, Loading
  <2>6. /\ isChecking' = TRUE
        /\ \E id \in 1 .. 2 :
               checks' = checks \cup {[id |-> id, rows |-> reading[i], submits |-> FALSE]}
    BY <2>1, ChecksOne
  <2>7. checks' \subseteq [id : 1 .. 2, rows : File, submits : BOOLEAN]
    <3>1. PICK id \in 1 .. 2 :
              checks' = checks \cup {[id |-> id, rows |-> reading[i], submits |-> FALSE]}
      BY <2>6
    <3>2. [id |-> id, rows |-> reading[i], submits |-> FALSE]
              \in [id : 1 .. 2, rows : File, submits : BOOLEAN]
      BY <2>3, FileAssumption
    <3> QED BY <1>0, <3>1, <3>2
  <2>8. table' \in File
    BY <2>1, <2>3, FileAssumption
  <2> QED BY <1>0, <2>2, <2>5, <2>6, <2>7, <2>8 DEF PageTypeOK
<1>3. CASE FileRefused
  <2>1. reading # <<>> /\ reading' = Tail(reading)
        /\ UNCHANGED <<table, named, verdicts, requests, crowded>>
    BY <1>3 DEF FileRefused
  <2>2. reading' \in Seq(FileChoice) /\ Len(reading') \in 0 .. 2
    BY <1>0, <2>1, Loading
  <2>3. reading' \in UNION {[1 .. n -> FileChoice] : n \in 0 .. 2}
    BY <1>0, <2>2, Loading
  <2> QED BY <1>0, <2>1, <2>3 DEF PageTypeOK, verdicts, requests
<1>4. ASSUME NEW i \in DOMAIN table, NEW r \in RowChoice, EditCell(i, r) PROVE PageTypeOK'
  <2>1. table' = [table EXCEPT ![i] = r] /\ issues' = issues \ {i}
        /\ UNCHANGED <<named, reading, committed, dialog, requests, crowded>>
    BY <1>4 DEF EditCell
  <2>2. table' \in File
    BY <1>0, <2>1 DEF File
  <2> QED BY <1>0, <2>1, <2>2 DEF PageTypeOK, requests
<1>5. CASE AskDiscard \/ CloseDialog
  BY <1>0, <1>5 DEF AskDiscard, CloseDialog, PageTypeOK, inputs, requests
<1>6. CASE Discard \/ ImportAnother
  BY <1>0, <1>6, NoRows DEF Discard, ImportAnother, Cleared, PageTypeOK, requests
<1>7. CASE CheckAgain \/ Submit
  <2>1. UNCHANGED <<inputs, verdicts, crowded>>
    BY <1>7 DEF CheckAgain, Submit
  <2>2. PICK submits \in BOOLEAN : Checks(table, submits)
    BY <1>7 DEF CheckAgain, Submit
  <2>3. /\ isChecking' = TRUE
        /\ \E id \in 1 .. 2 :
               checks' = checks \cup {[id |-> id, rows |-> table, submits |-> submits]}
    BY <2>2, ChecksOne
  <2>4. checks' \subseteq [id : 1 .. 2, rows : File, submits : BOOLEAN]
    BY <1>0, <2>3
  <2> QED BY <1>0, <2>1, <2>3, <2>4 DEF PageTypeOK, inputs, verdicts
<1>8. ASSUME NEW c \in checks, Checked(c) \/ CheckFails(c) PROVE PageTypeOK'
  <2>1. /\ isChecking' = FALSE /\ checks' = checks \ {c}
        /\ issues' = issues \/ issues' = Blocked(db, db, c.rows)
        /\ dialog' = dialog \/ dialog' = "commit"
        /\ UNCHANGED <<inputs, committed, crowded>>
    BY <1>8 DEF Checked, CheckFails, verdicts
  <2>2. Blocked(db, db, c.rows) \subseteq 1 .. MaxRows
    <3>1. c.rows \in File
      BY <1>0
    <3> QED BY <1>r, <3>1
  <2>3. issues' \subseteq 1 .. MaxRows
    BY <1>0, <2>1, <2>2
  <2> QED BY <1>0, <2>1, <2>3 DEF PageTypeOK, inputs
<1>9. CASE Commit
  BY <1>0, <1>9 DEF Commit, PageTypeOK, inputs, requests
<1>10. CASE Commits
  BY <1>0, <1>10, NoRows DEF Commits, PageTypeOK, requests
<1>11. CASE CommitBlocked
  <2>1. /\ issues' = Blocked(people, db, writing) /\ writing # Nothing
        /\ UNCHANGED <<inputs, committed, dialog, requests, crowded>>
    BY <1>11 DEF CommitBlocked, Blocks, TypeOK, ServiceTypeOK
  <2>2. writing \in File
    BY <2>1 DEF TypeOK, ServiceTypeOK
  <2>3. issues' \subseteq 1 .. MaxRows
    BY <1>r, <2>1, <2>2
  <2> QED BY <1>0, <2>1, <2>3 DEF PageTypeOK, inputs, requests
<1>12. CASE UNCHANGED <<inputs, verdicts, requests, crowded>>
  BY <1>0, <1>12 DEF PageTypeOK, inputs, verdicts, requests
<1> QED BY <1>1, <1>2, <1>3, <1>4, <1>5, <1>6, <1>7, <1>8, <1>9, <1>10, <1>11, <1>12
        DEF Next, UserStep, Answer, CommitFails, vars

-----------------------------------------------------------------------------
(* The specification. *)

\* What every behaviour keeps.
ImportInv == TypeOK /\ Shape /\ Filed /\ QuietWhenAlone

\* It holds at first,
LEMMA InitImport == Init => ImportInv
<1> SUFFICES ASSUME Init PROVE ImportInv
  OBVIOUS
<1>1. db \in FirstTable /\ writing = Nothing /\ stage = "none" /\ at = 1
      /\ people = Nobody /\ loaded = Nobody /\ own = Nobody
      /\ updates = {} /\ overtaken = {} /\ alone = FALSE
  BY DEF Init, ServiceInit, NoImport
<1>2. db \in Table /\ Refers(db) /\ Nobody \in Table
  BY <1>1 DEF Nobody, Table
<1>3. Begins
  BY <1>1, <1>2 DEF Begins, Before
<1>4. Shape /\ ServiceTypeOK
  BY <1>3, ShapeBefore DEF Shape
<1>5. Filed /\ QuietWhenAlone
  BY <1>1, <1>4, FiledBefore DEF QuietWhenAlone, Before
<1>6. TypeOK
  <2>1. 0 \in 0 .. 2 /\ <<>> \in [1 .. 0 -> FileChoice]
    OBVIOUS
  <2>2. <<>> \in UNION {[1 .. n -> FileChoice] : n \in 0 .. 2}
    BY <2>1
  <2> QED BY <1>4, <2>2, NoRows DEF Init, TypeOK
<1> QED BY <1>4, <1>5, <1>6 DEF ImportInv

\* and every step keeps it.
LEMMA ImportInductive ==
    ASSUME ImportInv, [Next]_vars
    PROVE  ImportInv'
<1>1. TypeOK /\ Shape /\ Filed /\ QuietWhenAlone /\ ServiceNext
  BY StepsOfService DEF ImportInv
<1>2. Shape'
  BY <1>1, ShapeInductive
<1>3. TypeOK'
  <2>1. ServiceTypeOK'
    BY <1>2 DEF Shape
  <2>2. PageTypeOK'
    BY <1>1, PageInductive
  <2> QED BY <2>1, <2>2 DEF TypeOK, PageTypeOK
<1>4. Filed' /\ QuietWhenAlone'
  BY <1>1, <1>2, FiledInductive, QuietInductive
<1> QED BY <1>2, <1>3, <1>4 DEF ImportInv

\* So it holds always.
LEMMA ImportKept == Spec => []ImportInv
BY InitImport, ImportInductive, PTL DEF Spec

\* TypeOK, of the page and of the transaction: whatever others commit between its
\* statements, and however far it has come.
THEOREM TypeCorrect == Spec => []TypeOK
<1>1. ImportInv => TypeOK
  BY DEF ImportInv
<1> QED BY <1>1, ImportKept, PTL

\* WrittenAsTheFileSays: whatever the file and the order of its rows, and whatever
\* others commit meanwhile, a commit that writes leaves the employees of the file
\* as it says, but for the cells that were not written because they were
\* remembered so, and nobody else changes but by what was due.
THEOREM FileIsWritten == Spec => WrittenAsTheFileSays
<1> DEFINE AsSaid ==
        \A n \in Number :
            LET of == {i \in DOMAIN writing : writing[i].number = n}
                stays(cell, before) == n \in overtaken /\ loaded[n] # Nothing /\ cell = before
            IN
            IF of = {} THEN db'[n] \in {db[n], Landed(db)[n]}
            ELSE \A i \in of :
                /\ \/ db'[n].email = writing[i].email
                   \/ stays(writing[i].email, loaded[n].email)
                /\ \/ {db'[n].manager, db'[n].edge} = {writing[i].manager}
                   \/ stays(writing[i].manager, loaded[n].manager)
                /\ db'[n].gone => n \in overtaken
<1>1. ASSUME ImportInv, Writes PROVE AsSaid
  <2>1. stage = "commit" /\ db' = Seen /\ Shape /\ Filed
    BY <1>1 DEF Writes, ImportInv
  <2>2. \A i : IsWritten(i) /\ IsMoved(i)
    BY <2>1 DEF IsWritten, IsMoved
  <2>3. ASSUME NEW n \in Number, \A i \in DOMAIN writing : writing[i].number # n
        PROVE  db'[n] \in {db[n], Landed(db)[n]}
    <3>1. db'[n] = IF own[n] # Nothing THEN own[n] ELSE db[n]
      BY <2>1 DEF Seen
    <3>2. own[n] # Nothing => own[n] = Landed(db)[n]
      BY <2>1, <2>3 DEF Shape, Num
    <3> QED BY <3>1, <3>2
  <2>4. ASSUME NEW i \in DOMAIN writing, NEW n \in Number, n = writing[i].number
        PROVE  /\ \/ db'[n].email = writing[i].email
                  \/ n \in overtaken /\ loaded[n] # Nothing /\ writing[i].email = loaded[n].email
               /\ \/ {db'[n].manager, db'[n].edge} = {writing[i].manager}
                  \/ n \in overtaken /\ loaded[n] # Nothing /\ writing[i].manager = loaded[n].manager
               /\ db'[n].gone => n \in overtaken
    <3>1. own[n] # Nothing /\ Stands(i) /\ n = Num(i)
      BY <2>1, <2>2, <2>4 DEF Shape, Filed, Num
    <3>2. db'[n] = own[n]
      BY <2>1, <3>1 DEF Seen
    <3> QED BY <2>2, <3>1, <3>2 DEF Stands
  <2> QED BY <2>3, <2>4
<1> HIDE DEF AsSaid
<1>2. ImportInv /\ [Next]_vars => [Writes => AsSaid]_vars
  BY <1>1
<1>3. Spec => [][Writes => AsSaid]_vars
  BY <1>2, ImportKept, PTL DEF Spec
<1> QED BY <1>3, PTL DEF WrittenAsTheFileSays, AsSaid

-----------------------------------------------------------------------------
(* Rows that are refused. *)

\* If g has a way from m up to n that h does not have, somebody on it has
\* another manager in h, who is on it too.
LEMMA TheWayIsLost ==
    ASSUME NEW g \in Structure, NEW h \in Structure, NEW m \in Employee, NEW n \in Employee,
           IsDescendant(g, m, n), ~Reaches(h, m, n)
    PROVE  \E x \in Employee \ {n} :
               /\ g[x] # h[x] /\ g[x] \in Employee
               /\ IsDescendant(g, m, x) /\ IsDescendant(g, x, n)
               /\ IsDescendant(g, m, g[x]) /\ IsDescendant(g, g[x], n)
<1> DEFINE P == {x \in Employee : IsDescendant(g, m, x) /\ IsDescendant(g, x, n)}
<1>1. PICK S \in SUBSET Employee : m \in S /\ UpClosed(h, S) /\ n \notin S
  BY DEF Reaches
<1>2. ASSUME NEW x \in P, x # n
      PROVE  g[x] \in P
  <2>0. IsDescendant(g, m, x) /\ IsDescendant(g, x, n) /\ x \in Employee
    OBVIOUS
  <2>1. g[x] \in Employee /\ IsDescendant(g, g[x], n)
    <3>1. ASSUME NEW T \in SUBSET Employee, n \in T, DownClosed(g, T), g[x] \notin T
          PROVE  FALSE
      <4>1. DownClosed(g, T \ {x})
        BY <3>1 DEF DownClosed
      <4>2. n \in T \ {x} /\ T \ {x} \in SUBSET Employee
        BY <1>2, <3>1
      <4>3. x \in T \ {x}
        BY <2>0, <4>1, <4>2 DEF IsDescendant
      <4> QED BY <4>3
    <3>2. IsDescendant(g, g[x], n)
      BY <3>1 DEF IsDescendant
    <3>3. DownClosed(g, Employee) /\ n \in Employee
      BY DEF DownClosed
    <3> QED BY <3>2, <3>3 DEF IsDescendant
  <2>2. IsDescendant(g, m, g[x])
    <3> SUFFICES ASSUME NEW T \in SUBSET Employee, g[x] \in T, DownClosed(g, T) PROVE m \in T
      BY DEF IsDescendant
    <3>1. x \in T
      BY <2>0 DEF DownClosed
    <3> QED BY <2>0, <3>1 DEF IsDescendant
  <2> QED BY <2>1, <2>2
<1> SUFFICES ASSUME \A x \in P \ {n} : g[x] = h[x] PROVE FALSE
  <2> HIDE DEF P
  <2>1. PICK x \in P \ {n} : g[x] # h[x]
    OBVIOUS
  <2> QED BY <1>2, <2>1 DEF P
<1> DEFINE D == Employee \ (S \cap P)
<1>3. DownClosed(g, D)
  <2> SUFFICES ASSUME NEW x \in S \cap P, g[x] \in D PROVE FALSE
    BY DEF DownClosed
  <2>1. x # n /\ x \in P
    BY <1>1
  <2>2. g[x] \in P /\ g[x] = h[x]
    BY <1>2, <2>1
  <2>3. g[x] \in Employee /\ g[x] # NoManager
    BY <2>2
  <2>4. g[x] \in S
    BY <1>1, <2>2, <2>3 DEF UpClosed
  <2> QED BY <2>2, <2>4
<1>4. n \in D /\ D \in SUBSET Employee
  BY <1>1
<1>5. m \in D
  <2> HIDE DEF D
  <2> QED BY <1>3, <1>4 DEF IsDescendant
<1>6. m \in P
  <2>1. IsDescendant(g, m, m)
    BY DEF IsDescendant
  <2> QED BY <2>1
<1> QED BY <1>1, <1>5, <1>6

\* Nobody else has the address of the row whose turn it is.
LEMMA AddressIsFree ==
    ASSUME Shape, Quiet, stage \in {"find", "write"}
    PROVE  \A x \in Present(Seen) \ {Num(at)} : Seen[x].email # writing[at].email
<1> SUFFICES ASSUME NEW x \in Present(Seen), x # Num(at) PROVE Seen[x].email # writing[at].email
  OBVIOUS
<1>1. x \in Number /\ at \in DOMAIN writing /\ Passed(people, writing)
  BY DEF Present, Shape, ServiceTypeOK
<1>2. CASE own[x] = Nothing
  <2>1. Seen[x] = db[x] /\ x \in Present(db)
    BY <1>1, <1>2 DEF Seen, Present
  <2> QED BY <1>1, <2>1 DEF Quiet
<1>3. CASE own[x] # Nothing
  <2>1. PICK i \in DOMAIN writing : IsWritten(i) /\ x = Num(i)
    BY <1>1, <1>3 DEF Quiet
  <2>2. Seen[x].email = writing[i].email /\ i # at
    BY <1>1, <1>3, <2>1 DEF Quiet, Seen
  <2> QED BY <1>1, <2>1, <2>2 DEF Passed
<1> QED BY <1>2, <1>3

\* Where nobody else writes, rows that pass are found,
LEMMA AllAreFound ==
    ASSUME Shape, Quiet, stage = "find"
    PROVE  Found(at)
<1> DEFINE n == Num(at)
           e == writing[at].email
<1>1. /\ writing \in File /\ at \in DOMAIN writing /\ Passed(people, writing) /\ n \in Number
  BY RowsOfFile DEF Shape, ServiceTypeOK, Num
<1>2. \A x \in Present(Seen) \ {n} : Seen[x].email # e
  BY AddressIsFree
<1>3. Owners(Seen, e) \subseteq {n}
  BY <1>2 DEF Owners
<1>4. /\ Seen[n] = db[n]
      /\ New(at) => db[n] = Nothing
      /\ ~New(at) => n \in Present(db) /\ loaded[n] = db[n] /\ db[n] # Nothing
  BY NotYetWritten
<1>5. New(at) => n \notin Present(Seen)
  BY <1>4 DEF Present
<1>6. ~New(at) => n \in Present(Seen) /\ loaded[n] # Nothing
  BY <1>1, <1>4 DEF Present
<1>7. New(at) => Owners(Seen, e) = {}
  BY <1>3, <1>5 DEF Owners
<1> QED BY <1>3, <1>5, <1>6, <1>7 DEF Found, Num

\* fit the indexes,
LEMMA AllFit ==
    ASSUME Shape, Quiet, stage = "write"
    PROVE  Fits(at)
<1> DEFINE n == Num(at)
           e == writing[at].email
<1>1. /\ writing \in File /\ at \in DOMAIN writing /\ Passed(people, writing) /\ n \in Number
  BY RowsOfFile DEF Shape, ServiceTypeOK, Num
<1>2. \A x \in Present(Seen) \ {n} : Seen[x].email # e
  BY AddressIsFree
<1>3. Owners(Seen, e) \subseteq {n}
  BY <1>2 DEF Owners
<1>4. Seen[n] = db[n] /\ (New(at) => db[n] = Nothing)
  BY NotYetWritten
<1>5. New(at) => n \notin Present(Seen)
  BY <1>4 DEF Present
<1>6. Put(at).email = e
  BY PutAsFiled
<1> QED BY <1>3, <1>5, <1>6 DEF Fits, Num

\* and pass the trigger.
LEMMA AllPass ==
    ASSUME Shape, Quiet, stage = "trigger", Acyclic(Edges(db))
    PROVE  Passes
<1>1. Seen \in Table /\ Acyclic(Edges(Seen)) /\ Edges(Seen) \in Structure /\ writing \in File
  BY SeenIs, EdgesIs DEF Quiet, Shape, ServiceTypeOK
<1> SUFFICES ASSUME NEW u \in updates, u[2] # NoManager
             PROVE  /\ ~Reaches(Edges(Seen), u[2], u[1])
                    /\ \E top \in Number :
                           Reaches(Edges(Seen), u[2], top) /\ Edges(Seen)[top] = NoManager
  BY DEF Passes
<1>2. PICK i \in DOMAIN writing : u = <<Num(i), writing[i].manager>>
  BY DEF Quiet
<1>3. IsWritten(i) /\ IsMoved(i)
  BY DEF IsWritten, IsMoved
<1>4. Num(i) \in Number /\ writing[i].manager \in Employee
  BY <1>1, <1>2, RowsOfFile DEF Num, ManagerOrNone
<1>5. Seen[Num(i)] = own[Num(i)] /\ own[Num(i)] # Nothing /\ own[Num(i)].manager = writing[i].manager
  BY <1>3, <1>4 DEF Shape, Quiet, Seen
<1>6. Edges(Seen)[Num(i)] = writing[i].manager
  BY <1>1, <1>4, <1>5, EdgesIs
<1> DEFINE g == Edges(Seen)
<1>7. /\ ~Reaches(g, writing[i].manager, Num(i))
      /\ \E top \in Employee : Reaches(g, writing[i].manager, top) /\ g[top] = NoManager
  BY <1>1, <1>4, <1>6, WalksEnd
<1> QED BY <1>2, <1>7

\* While the rows are moved, what is seen is the structure when those before have
\* been.
LEMMA HalfWayIsSeen ==
    ASSUME Shape, Quiet, stage = "move"
    PROVE  /\ HalfWay(db, writing, at) = Edges(Seen)
           /\ \A n \in Number : own[n] = Nothing => \A i \in DOMAIN writing : n # Num(i)
           /\ \A i \in DOMAIN writing : Num(i) \in Present(Seen)
<1>1. /\ writing \in File /\ db \in Table /\ Seen \in Table /\ Passed(db, writing)
      /\ \A i : IsWritten(i) /\ (IsMoved(i) <=> i < at)
  BY SeenIs DEF Shape, ServiceTypeOK, Quiet, IsWritten, IsMoved
<1>2. \A i \in DOMAIN writing : own[Num(i)] # Nothing /\ Num(i) \in Number
  BY <1>1, RowsOfFile DEF Shape, Num
<1>3. \A i \in DOMAIN writing : Num(i) \in Present(Seen)
  BY <1>1, <1>2 DEF Quiet, Present, Seen
<1>4. ASSUME NEW n \in Number
      PROVE  (IF \E j \in DOMAIN writing : j < at /\ writing[j].number = n
              THEN Combined(db, writing)[n] ELSE Edges(db)[n]) = Edges(Seen)[n]
  <2>1. CASE own[n] = Nothing
    <3>1. \A j \in DOMAIN writing : writing[j].number # n
      BY <1>2, <2>1 DEF Num
    <3>2. Seen[n] = db[n]
      BY <2>1 DEF Seen
    <3> QED BY <1>1, <3>1, <3>2, EdgesIs
  <2>2. CASE own[n] # Nothing
    <3>1. PICK i \in DOMAIN writing : n = Num(i)
      BY <2>2 DEF Quiet
    <3>2. Seen[n] = own[n] /\ own[n].manager = IF i < at THEN writing[i].manager ELSE Edges(db)[n]
      BY <1>1, <2>2, <3>1 DEF Seen, Quiet
    <3>3. Combined(db, writing)[n] = writing[i].manager
      BY <1>1, <3>1, CombinedManagers DEF Num
    <3>4. (\E j \in DOMAIN writing : j < at /\ writing[j].number = n) <=> i < at
      BY <1>1, <3>1 DEF Passed, Num
    <3>5. Edges(Seen)[n] = own[n].manager
      BY <1>1, <2>2, <3>2, EdgesIs
    <3> QED BY <3>2, <3>3, <3>4, <3>5
  <2> QED BY <2>1, <2>2
<1>5. Edges(Seen) = [n \in Number |-> Edges(Seen)[n]]
  BY DEF Edges
<1> QED BY <1>2, <1>3, <1>4, <1>5 DEF HalfWay

\* A row that is refused has a manager, present and another, who is seen under the
\* employee and would not be, were all rows moved.
LEMMA RefusedForTheWay ==
    ASSUME Shape, Quiet, MoveRefused
    PROVE  LET g == Edges(Seen)
               h == Combined(db, writing)
               m == writing[at].manager
               n == Num(at)
           IN  /\ g \in Structure /\ h \in Structure /\ m \in Employee /\ n \in Employee
               /\ IsDescendant(g, m, n) /\ ~Reaches(h, m, n)
<1> DEFINE n == Num(at)
           m == writing[at].manager
           h == Combined(db, writing)
<1>1. /\ stage = "move" /\ ~(Resolved(at) /\ Movable(at))
      /\ writing \in File /\ at \in DOMAIN writing /\ Passed(db, writing)
      /\ db \in Table /\ Seen \in Table
  BY SeenIs DEF MoveRefused, Shape, ServiceTypeOK, Quiet
<1>2. n \in Number /\ m \in ManagerOrNone
  BY <1>1, RowsOfFile DEF Num
<1>3. m \in {NoManager} \cup Present(db) \cup {writing[j].number : j \in DOMAIN writing}
  BY <1>1 DEF Passed, KnownManager
<1>4. Resolved(at)
  <2>1. CASE m \in Present(db) /\ m # NoManager
    <3>1. m \in Mentioned(writing) /\ m \in Number /\ db[m] # Nothing
      BY <1>1, <2>1 DEF Mentioned, Present
    <3>2. loaded[m] = db[m]
      BY <1>1, <2>1, <3>1 DEF Quiet, Before
    <3> QED BY <3>1, <3>2 DEF Resolved
  <2>2. CASE m = NoManager \/ m \in {writing[j].number : j \in DOMAIN writing}
    BY <2>2 DEF Resolved
  <2> QED BY <1>3, <2>1, <2>2
<1>5. h[n] = m /\ h \in Structure
  BY <1>1, CombinedManagers DEF Num
<1>6. m # NoManager => ~Reaches(h, m, n)
  BY <1>1, <1>5 DEF Passed, InLoop, Num
<1>7. n \in Present(Seen)
  BY <1>1, HalfWayIsSeen
<1>8. m # NoManager => m \in Present(Seen)
  <2> SUFFICES ASSUME m # NoManager PROVE m \in Present(Seen)
    OBVIOUS
  <2>1. CASE m \in {writing[j].number : j \in DOMAIN writing}
    BY <1>1, <2>1, HalfWayIsSeen DEF Num
  <2>2. CASE m \in Present(db) /\ ~\E j \in DOMAIN writing : m = Num(j)
    <3>1. m \in Number /\ own[m] = Nothing
      BY <2>2 DEF Quiet, Present
    <3> QED BY <2>2, <3>1 DEF Seen, Present
  <2> QED BY <1>3, <2>1, <2>2 DEF Num
<1>9. m # NoManager => m # n
  <2>1. Reaches(h, n, n)
    BY DEF Reaches
  <2> QED BY <1>6, <2>1
<1>10. m # NoManager /\ IsDescendant(Edges(Seen), m, n)
  BY <1>1, <1>4, <1>7, <1>8, <1>9 DEF Movable, Num
<1>11. m \in Employee
  BY <1>2, <1>10 DEF ManagerOrNone
<1> QED BY <1>1, <1>2, <1>5, <1>6, <1>10, <1>11, EdgesIs

\* Somebody on the way between them is moved away by a later row, or has left.
LEMMA SomebodyBetween ==
    ASSUME Shape, Quiet, MoveRefused
    PROVE  \E between \in Number :
               LET g == HalfWay(db, writing, at) IN
               /\ IsDescendant(g, writing[at].manager, between)
               /\ IsDescendant(g, between, writing[at].number)
               /\ \/ between \notin Present(Seen)
                  \/ \E j \in DOMAIN writing :
                       at < j /\ writing[j].number = between /\ g[between] # writing[j].manager
<1> DEFINE g == Edges(Seen)
           h == Combined(db, writing)
           m == writing[at].manager
           n == Num(at)
<1>1. /\ stage = "move" /\ writing \in File /\ at \in DOMAIN writing /\ Passed(db, writing)
      /\ db \in Table /\ Seen \in Table /\ Refers(db)
  BY SeenIs DEF MoveRefused, Shape, ServiceTypeOK, Quiet
<1>2. g = HalfWay(db, writing, at)
  BY <1>1, HalfWayIsSeen
<1>3. PICK x \in Employee \ {n} :
          /\ g[x] # h[x] /\ g[x] \in Employee
          /\ IsDescendant(g, m, x) /\ IsDescendant(g, x, n)
          /\ IsDescendant(g, m, g[x]) /\ IsDescendant(g, g[x], n)
  <2>1. /\ g \in Structure /\ h \in Structure /\ m \in Employee /\ n \in Employee
        /\ IsDescendant(g, m, n) /\ ~Reaches(h, m, n)
    BY RefusedForTheWay
  <2> HIDE DEF g, h, m, n
  <2> QED BY <2>1, TheWayIsLost
<1>4. CASE \E j \in DOMAIN writing : x = Num(j)
  <2>1. PICK j \in DOMAIN writing : x = Num(j)
    BY <1>4
  <2>2. h[x] = writing[j].manager
    BY <1>1, <2>1, CombinedManagers DEF Num
  <2>3. ~(j < at)
    <3> SUFFICES ASSUME j < at PROVE FALSE
      OBVIOUS
    <3>1. HalfWay(db, writing, at)[x] = h[x]
      BY <2>1 DEF HalfWay, Num
    <3> QED BY <1>2, <1>3, <3>1
  <2>4. j # at
    BY <1>3, <2>1
  <2>5. at < j
    BY <1>1, <2>3, <2>4, RowsOfFile
  <2> HIDE DEF g, h
  <2> QED BY <1>2, <1>3, <2>1, <2>2, <2>5 DEF Num
<1>5. CASE ~\E j \in DOMAIN writing : x = Num(j)
  <2>1. own[x] = Nothing /\ Seen[x] = db[x] /\ h[x] = ActiveEdges(db)[x]
    <3>1. own[x] = Nothing
      BY <1>3, <1>5 DEF Quiet
    <3>2. Seen[x] = db[x]
      BY <1>3, <3>1 DEF Seen
    <3>3. h[x] = ActiveEdges(db)[x]
      BY <1>1, <1>3, <1>5, CombinedManagers DEF Num
    <3> QED BY <3>1, <3>2, <3>3
  <2>2. db[x] # Nothing /\ g[x] = db[x].manager
    <3>1. g[x] = IF Seen[x] = Nothing THEN NoManager ELSE Seen[x].manager
      BY <1>1, <1>3, EdgesIs
    <3> HIDE DEF g
    <3> QED BY <1>3, <2>1, <3>1, EmployeeAssumption
  <2>3. CASE x \notin Present(db)
    <3>1. x \notin Present(Seen)
      BY <2>1, <2>3 DEF Present
    <3> HIDE DEF g
    <3> QED BY <1>2, <1>3, <3>1 DEF Num
  <2>4. CASE x \in Present(db)
    <3> DEFINE k == g[x]
    <3>1. k \in Number /\ k # NoManager /\ k = db[x].manager
      BY <1>3, <2>2, EmployeeAssumption
    <3>2. k \notin Present(db)
      <4> SUFFICES ASSUME k \in Present(db) PROVE FALSE
        OBVIOUS
      <4>1. ActiveEdges(db)[x] = db[x].manager
        BY <1>3, <2>4, <3>1 DEF ActiveEdges
      <4> QED BY <1>3, <2>1, <3>1, <4>1
    <3>3. db[k] # Nothing
      BY <1>1, <1>3, <2>2, <3>1 DEF Refers
    <3>4. own[k] = Nothing
      <4> SUFFICES ASSUME own[k] # Nothing PROVE FALSE
        OBVIOUS
      <4>1. PICK i \in DOMAIN writing : k = Num(i)
        BY <3>1 DEF Quiet
      <4> QED BY <3>2, <3>3, <4>1 DEF Quiet
    <3>5. k \notin Present(Seen)
      BY <3>1, <3>2, <3>4 DEF Present, Seen
    <3> HIDE DEF g
    <3> QED BY <1>2, <1>3, <3>1, <3>5 DEF Num
  <2> QED BY <2>3, <2>4
<1> QED BY <1>4, <1>5

\* RaisesOnlyForTheOrder: of any file that passes the check, and any tables whose
\* cached managers have no loop, departed employees included, where nobody else
\* writes and nothing is due.
THEOREM RaisesForTheOrder == Spec => RaisesOnlyForTheOrder
<1> DEFINE ForTheOrder ==
        /\ MoveRefused
        /\ \E between \in Number :
            LET g == HalfWay(db, writing, at) IN
            /\ IsDescendant(g, writing[at].manager, between)
            /\ IsDescendant(g, between, writing[at].number)
            /\ \/ between \notin Present(Seen)
               \/ \E j \in DOMAIN writing :
                    at < j /\ writing[j].number = between /\ g[between] # writing[j].manager
<1>1. ASSUME ImportInv, Raises, alone, Acyclic(Edges(db)) PROVE ForTheOrder
  <2>1. Shape /\ Quiet
    BY <1>1 DEF ImportInv, QuietWhenAlone, Raises, MoveRefused
  <2>2. MoveRefused
    BY <1>1, <2>1, AllAreFound, AllFit, AllPass DEF Raises
  <2> QED BY <2>1, <2>2, SomebodyBetween
<1> HIDE DEF ForTheOrder
<1>2. ImportInv /\ [Next]_vars => [Raises /\ alone /\ Acyclic(Edges(db)) => ForTheOrder]_vars
  BY <1>1
<1>3. Spec => [][Raises /\ alone /\ Acyclic(Edges(db)) => ForTheOrder]_vars
  BY <1>2, ImportKept, PTL DEF Spec
<1> QED BY <1>3, PTL DEF RaisesOnlyForTheOrder, ForTheOrder

-----------------------------------------------------------------------------
(* Marks. *)

\* With one file at a time: while it is read, and once it is written, the page
\* is empty, and what is checked or written has as many rows as the table.
OneFile ==
    /\ reading # <<>> => /\ Len(reading) = 1
                         /\ table = <<>> /\ checks = {} /\ writing = Nothing
                         /\ dialog = "none"
    /\ \A c, d \in checks : c = d
    /\ ~isChecking => checks = {}
    /\ \A c \in checks : /\ DOMAIN c.rows = DOMAIN table
                         /\ writing = Nothing /\ dialog = "none"
    /\ writing # Nothing => DOMAIN writing = DOMAIN table /\ dialog = "none"
    /\ committed => /\ table = <<>> /\ reading = <<>> /\ checks = {}
                    /\ writing = Nothing /\ dialog = "none"
    /\ issues \subseteq DOMAIN table

WizardInv ==
    /\ reading \in Seq(FileChoice)
    /\ crowded \in BOOLEAN
    /\ ~crowded => OneFile

\* Whoever answers has been asked.
LEMMA WaitsForAnswer ==
    ASSUME ImportInv, Writes \/ Blocks \/ Raises \/ Lost
    PROVE  writing # Nothing
BY DEF ImportInv, TypeOK, ServiceTypeOK, Writes, Blocks, Raises, Lost, MoveRefused

\* Every step keeps it.
LEMMA WizardInductive ==
    ASSUME ImportInv, WizardInv, [Next]_vars
    PROVE  WizardInv'
<1> USE DEF import
<1>1. reading \in Seq(FileChoice) /\ crowded \in BOOLEAN /\ (~crowded => OneFile)
  BY DEF WizardInv
<1>2. ASSUME NEW f \in FileChoice, LoadFile(f) PROVE WizardInv'
  <2>1. /\ reading' = Append(reading, f) /\ table = <<>> /\ dialog = "none"
        /\ ~isChecking /\ writing = Nothing
        /\ crowded' = (crowded \/ reading # <<>> \/ checks # {})
        /\ UNCHANGED <<table, issues, dialog, isChecking, checks, writing, committed>> /\ ~committed
    BY <1>2 DEF LoadFile, Busy, verdicts, requests
  <2>2. reading' \in Seq(FileChoice) /\ crowded' \in BOOLEAN
    BY <1>1, <2>1
  <2>3. ~crowded' => ~crowded /\ reading = <<>> /\ checks = {}
    BY <2>1
  <2>4. ~crowded' => Len(reading') = 1
    BY <1>1, <2>1, <2>3
  <2> QED BY <1>1, <2>1, <2>2, <2>3, <2>4 DEF WizardInv, OneFile
<1>3. CASE FileRead
  <2>1. PICK i \in DOMAIN reading :
            /\ reading' = RemoveAt(reading, i)
            /\ table' = reading[i]
            /\ Checks(reading[i], FALSE)
    BY <1>3 DEF FileRead
  <2>2. /\ reading # <<>> /\ UNCHANGED <<issues, dialog, writing, crowded>>
        /\ committed' = FALSE
    BY <1>3 DEF FileRead
  <2>3. reading' \in Seq(FileChoice) /\ (Len(reading) = 1 => reading' = <<>>)
    BY <1>1, <2>1 DEF RemoveAt
  <2>4. PICK id \in 1 .. 2 :
            checks' = checks \cup {[id |-> id, rows |-> reading[i], submits |-> FALSE]}
    BY <2>1, ChecksOne
  <2>5. isChecking' = TRUE
    BY <2>1, ChecksOne
  <2>6. ~crowded' => OneFile'
    <3> SUFFICES ASSUME ~crowded PROVE OneFile'
      BY <2>2
    <3>1. /\ reading' = <<>> /\ checks = {} /\ writing' = Nothing /\ dialog' = "none"
          /\ issues' = {}
      BY <1>1, <2>2, <2>3 DEF OneFile
    <3>2. \A c \in checks' : c.rows = table'
      BY <2>1, <2>4, <3>1
    <3>3. \A c, d \in checks' : c = d
      BY <2>4, <3>1
    <3>4. \A c \in checks' : DOMAIN c.rows = DOMAIN table'
      BY <3>2
    <3>5. issues' \subseteq DOMAIN table' /\ committed' = FALSE
      BY <2>2, <3>1
    <3> QED BY <2>5, <3>1, <3>3, <3>4, <3>5 DEF OneFile
  <2> QED BY <1>1, <2>2, <2>3, <2>6 DEF WizardInv
<1>4. CASE FileRefused
  <2>1. /\ reading' = Tail(reading) /\ reading # <<>>
        /\ UNCHANGED <<table, issues, dialog, isChecking, checks, writing, crowded,
                      committed>>
    BY <1>4 DEF FileRefused, verdicts, requests
  <2>2. reading' \in Seq(FileChoice) /\ (Len(reading) = 1 => reading' = <<>>)
    BY <1>1, <2>1
  <2> QED BY <1>1, <2>1, <2>2 DEF WizardInv, OneFile
<1>5. ASSUME NEW i \in DOMAIN table, NEW r \in RowChoice, EditCell(i, r) PROVE WizardInv'
  <2>1. /\ table' = [table EXCEPT ![i] = r] /\ issues' = issues \ {i}
        /\ UNCHANGED <<reading, dialog, isChecking, checks, writing, crowded, committed>>
    BY <1>5 DEF EditCell, requests
  <2>2. DOMAIN table' = DOMAIN table /\ table # <<>>
    BY <1>5, <2>1
  <2> QED BY <1>1, <2>1, <2>2 DEF WizardInv, OneFile
<1>6. CASE AskDiscard
  <2>1. /\ table # <<>> /\ ~isChecking /\ writing = Nothing
        /\ UNCHANGED <<table, reading, issues, isChecking, checks, writing, crowded, committed>>
    BY <1>6 DEF AskDiscard, Busy, inputs, requests
  <2> QED BY <1>1, <2>1 DEF WizardInv, OneFile
<1>7. CASE Discard \/ ImportAnother
  <2>1. /\ table' = <<>> /\ issues' = {} /\ dialog' = "none"
        /\ UNCHANGED <<reading, isChecking, checks, writing, crowded>> /\ committed' = FALSE
        /\ dialog = "discard" \/ committed
    BY <1>7 DEF Discard, ImportAnother, Cleared, requests
  <2> QED BY <1>1, <1>7, <2>1 DEF WizardInv, OneFile, Discard, ImportAnother
<1>8. CASE CloseDialog
  <2>1. /\ dialog' = "none"
        /\ UNCHANGED <<table, reading, issues, isChecking, checks, writing, crowded, committed>>
    BY <1>8 DEF CloseDialog, inputs, requests
  <2> QED BY <1>1, <2>1 DEF WizardInv, OneFile
<1>9. CASE CheckAgain \/ Submit
  <2>1. /\ table # <<>> /\ ~isChecking /\ writing = Nothing /\ dialog = "none"
        /\ UNCHANGED <<table, reading, issues, dialog, writing, crowded, committed>>
    BY <1>9 DEF CheckAgain, Submit, Busy, inputs, verdicts
  <2>2. PICK submits \in BOOLEAN : Checks(table, submits)
    BY <1>9 DEF CheckAgain, Submit
  <2>3. PICK id \in 1 .. 2 :
            checks' = checks \cup {[id |-> id, rows |-> table, submits |-> submits]}
    BY <2>2, ChecksOne
  <2>4. isChecking' = TRUE
    BY <2>2, ChecksOne
  <2>5. ~crowded' => OneFile'
    <3> SUFFICES ASSUME ~crowded PROVE OneFile'
      BY <2>1
    <3>1. checks = {} /\ reading = <<>>
      BY <1>1, <2>1 DEF OneFile
    <3>2. (\A c \in checks' : c.rows = table) /\ \A c, d \in checks' : c = d
      BY <2>3, <3>1
    <3> QED BY <1>1, <2>1, <2>4, <3>1, <3>2 DEF OneFile
  <2> QED BY <1>1, <2>1, <2>5 DEF WizardInv
<1>10. ASSUME NEW c \in checks, Checked(c) \/ CheckFails(c) PROVE WizardInv'
  <2>1. /\ checks' = checks \ {c}
        /\ UNCHANGED <<table, reading, writing, crowded, committed>>
        /\ issues' = issues \/ issues' = Blocked(db, db, c.rows)
    BY <1>10 DEF Checked, CheckFails, inputs, verdicts
  <2>2. issues' = issues \/ issues' \subseteq DOMAIN c.rows
    BY <2>1, BlockedAreRows
  <2>3. ~crowded => checks' = {} /\ reading = <<>>
    BY <1>1, <1>10, <2>1 DEF OneFile
  <2> QED BY <1>1, <1>10, <2>1, <2>2, <2>3 DEF WizardInv, OneFile
<1>11. CASE Commit
  <2>1. /\ dialog = "commit" /\ dialog' = "none" /\ writing = Nothing
        /\ writing' \in {table, writing}
        /\ UNCHANGED <<table, reading, issues, isChecking, checks, crowded, committed>>
    BY <1>11 DEF Commit, inputs, requests
  <2> QED BY <1>1, <2>1 DEF WizardInv, OneFile
<1>12. CASE Commits
  <2>1. /\ writing # Nothing /\ writing' = Nothing
        /\ \/ table' = <<>> /\ issues' = {} /\ committed' = TRUE
           \/ UNCHANGED <<table, issues, committed>>
        /\ UNCHANGED <<reading, dialog, isChecking, checks, crowded>>
    BY <1>12, WaitsForAnswer DEF Commits, Writes, Ended, requests
  <2> QED BY <1>1, <2>1 DEF WizardInv, OneFile
<1>13. CASE CommitBlocked \/ CommitFails
  <2>1. /\ writing # Nothing /\ writing' = Nothing
        /\ issues' = issues \/ issues' = Blocked(people, db, writing)
        /\ UNCHANGED <<table, reading, dialog, isChecking, checks, crowded, committed>>
    BY <1>13, WaitsForAnswer DEF CommitBlocked, CommitFails, Blocks, Raises, Lost, Ended, inputs,
                                 verdicts, requests
  <2>2. issues' = issues \/ issues' \subseteq DOMAIN writing
    BY <2>1, BlockedAreRows
  <2> QED BY <1>1, <2>1, <2>2 DEF WizardInv, OneFile
<1>14. CASE UNCHANGED <<table, reading, issues, dialog, isChecking, checks, writing, crowded,
                        committed>>
  BY <1>1, <1>14 DEF WizardInv, OneFile
<1>15. CASE ServiceStep /\ UNCHANGED <<inputs, verdicts, requests, crowded>>
  <2>1. writing' = writing
    BY <1>15 DEF ServiceStep, ReadPeople, ReadAddresses, LoadRows, FindRow, WriteRow, MoveRow,
                 CheckTrigger, OthersDelete, OthersWrite, OthersCommit
  <2> QED BY <1>14, <1>15, <2>1 DEF inputs, verdicts, requests
<1> QED BY <1>2, <1>3, <1>4, <1>5, <1>6, <1>7, <1>8, <1>9, <1>10, <1>11, <1>12, <1>13, <1>14, <1>15
        DEF Next, UserStep, Answer, vars, inputs, verdicts, requests

\* MarksAreInTheTable: files of any length are loaded, checked, corrected and
\* written in any order, and marks stay inside the table, unless two files were
\* loaded at once.
THEOREM MarksStayInTheTable == Spec => []MarksAreInTheTable
<1>1. Init => WizardInv
  <2> SUFFICES ASSUME Init PROVE WizardInv
    OBVIOUS
  <2>1. /\ table = <<>> /\ reading = <<>> /\ issues = {} /\ committed = FALSE
        /\ dialog = "none" /\ checks = {} /\ writing = Nothing /\ crowded = FALSE
    BY DEF Init, ServiceInit
  <2>2. <<>> \in Seq(FileChoice)
    OBVIOUS
  <2>3. OneFile
    BY <2>1 DEF OneFile
  <2> QED BY <2>1, <2>2, <2>3 DEF WizardInv
<1>2. ImportInv /\ WizardInv /\ [Next]_vars => WizardInv'
  BY WizardInductive
<1>3. WizardInv => MarksAreInTheTable
  BY DEF WizardInv, OneFile, MarksAreInTheTable
<1> QED BY <1>1, <1>2, <1>3, ImportKept, PTL DEF Spec
=============================================================================
