------------------------------- MODULE CsvText -------------------------------
(***************************************************************************)
(* The text an import file is written as, and its two readers: the page's, *)
(* of the files a user chooses, and the server's, of what the page sends.  *)
(* A text is a sequence of characters, of which only the quote, the comma, *)
(* the two ends of line and the blank are told apart.                      *)
(***************************************************************************)
EXTENDS Integers, Sequences, SequencesExt

Quote == "q"
Comma == "c"
Newline == "n"
Return == "r"
Blank == "b"

Char == {Quote, Comma, Newline, Return, Blank, "a"}

-----------------------------------------------------------------------------
(* The page reads. *)

At(text, i) == IF i \in DOMAIN text THEN text[i] ELSE "end"

Start == [rows |-> <<>>, row |-> <<>>, field |-> <<>>, quoted |-> FALSE, skip |-> FALSE]

EndField(s) == [s EXCEPT !.row = Append(@, s.field), !.field = <<>>]

EndRow(s) ==
    LET t == EndField(s) IN [t EXCEPT !.rows = Append(@, t.row), !.row = <<>>]

\* The scanner reads character i, with one character of look-ahead: a doubled
\* quote within quotes, and a line that ends with both ends of line.
Scan(text, i, s) ==
    LET c == text[i]
        takes == [s EXCEPT !.field = Append(@, c)]
        next == At(text, i + 1)
    IN  IF s.skip THEN [s EXCEPT !.skip = FALSE]
        ELSE IF s.quoted
        THEN CASE c # Quote -> takes
               [] c = Quote /\ next = Quote -> [takes EXCEPT !.skip = TRUE]
               [] c = Quote /\ next # Quote -> [s EXCEPT !.quoted = FALSE]
        ELSE CASE c = Quote -> [s EXCEPT !.quoted = TRUE]
               [] c = Comma -> EndField(s)
               [] c \in {Newline, Return} ->
                    [EndRow(s) EXCEPT !.skip = c = Return /\ next = Newline]
               [] OTHER -> takes

\* parseCsvText.  A last line without an end of line counts if it has anything.
Parsed(text) ==
    LET after[i \in 0 .. Len(text)] == IF i = 0 THEN Start ELSE Scan(text, i, after[i - 1])
        s == after[Len(text)]
    IN  IF s.field # <<>> \/ s.row # <<>> THEN EndRow(s).rows ELSE s.rows

\* trim().
Trimmed(cell) ==
    LET inked == {i \in DOMAIN cell : cell[i] \notin {Blank, Newline, Return}} IN
    IF inked = {} THEN <<>>
    ELSE SubSeq(cell, CHOOSE i \in inked : \A j \in inked : i <= j,
                      CHOOSE i \in inked : \A j \in inked : j <= i)

\* The lines that have something in them.
Filled(lines) ==
    LET kept[i \in 0 .. Len(lines)] ==
            IF i = 0 THEN <<>>
            ELSE IF \E j \in DOMAIN lines[i] : Trimmed(lines[i][j]) # <<>>
            THEN Append(kept[i - 1], lines[i]) ELSE kept[i - 1]
    IN  kept[Len(lines)]

\* parseImportFile, of a file with the columns in the expected order: lines with
\* nothing in them are dropped, the first of the others is the heading.
Imported(text) ==
    LET lines == Filled(Parsed(text))
    IN  [k \in 1 .. Len(lines) - 1 |-> [i \in DOMAIN lines[k + 1] |-> Trimmed(lines[k + 1][i])]]

-----------------------------------------------------------------------------
(* The server reads: csv.DictReader.  A record is read to a mode: "record"   *)
(* and "field" are where one begins, "plain" and "quoted" within a field,    *)
(* "closing" after a quote that may be doubled, "eaten" after a return.      *)

ServerStart == [rows |-> <<>>, row |-> <<>>, field |-> <<>>, mode |-> "record"]

Takes(s, c, mode) == [s EXCEPT !.field = Append(@, c), !.mode = mode]

Saves(s, mode) == [s EXCEPT !.row = Append(@, s.field), !.field = <<>>, !.mode = mode]

\* A line without anything on it is no row.
EndRecord(s) ==
    [s EXCEPT !.rows = IF s.row = <<>> THEN @ ELSE Append(@, s.row),
              !.row = <<>>, !.mode = "record"]

\* Within quotes everything counts but a quote that is not doubled.
ReadsQuoted(c, s) ==
    IF s.mode = "quoted"
    THEN IF c = Quote THEN [s EXCEPT !.mode = "closing"] ELSE Takes(s, c, "quoted")
    ELSE Takes(s, c, "quoted")

\* After a return nothing but an end of line may come.
ReadsEaten(c, s) ==
    CASE c = Newline -> EndRecord(s)
      [] c = Return -> s
      [] OTHER -> [s EXCEPT !.mode = "error"]

\* A quote opens a field only where the field begins.
ReadsPlain(c, s) ==
    CASE c = Comma -> Saves(s, "field")
      [] c = Newline -> EndRecord(IF s.mode = "record" THEN s ELSE Saves(s, "field"))
      [] c = Return -> IF s.mode = "record" THEN [s EXCEPT !.mode = "eaten"] ELSE Saves(s, "eaten")
      [] c = Quote /\ s.mode \in {"record", "field"} -> [s EXCEPT !.mode = "quoted"]
      [] OTHER -> Takes(s, c, "plain")

Reads(c, s) ==
    CASE s.mode = "error" -> s
      [] s.mode = "quoted" \/ (s.mode = "closing" /\ c = Quote) -> ReadsQuoted(c, s)
      [] s.mode = "eaten" -> ReadsEaten(c, s)
      [] OTHER -> ReadsPlain(c, s)

\* The text is over: what was begun is a row, a quote that is open or not.
Finished(s) ==
    CASE s.mode \in {"record", "error"} -> s
      [] s.mode = "eaten" -> EndRecord(s)
      [] OTHER -> EndRecord(Saves(s, "field"))

\* parse_csv.  The first row is the heading; of the others every row counts, cut
\* or filled up to its columns.
Served(text) ==
    LET after[i \in 0 .. Len(text)] ==
            IF i = 0 THEN ServerStart ELSE Reads(text[i], after[i - 1])
        s == Finished(after[Len(text)])
    IN  [refused |-> s.mode = "error",
         rows |-> [k \in 1 .. Len(s.rows) - 1 |->
                    [i \in DOMAIN s.rows[1] |->
                        IF i \in DOMAIN s.rows[k + 1] THEN Trimmed(s.rows[k + 1][i]) ELSE <<>>]]]

-----------------------------------------------------------------------------
(* The page writes. *)

\* MUTANT of Cell: quotes within are not doubled.
CellUndoubled(cell) ==
    IF \E i \in DOMAIN cell : cell[i] \in {Quote, Comma, Newline, Return}
    THEN <<Quote>> \o cell \o <<Quote>> ELSE cell

\* csvCell.
Cell(cell) ==
    LET doubled[i \in 0 .. Len(cell)] ==
            IF i = 0 THEN <<>>
            ELSE doubled[i - 1] \o (IF cell[i] = Quote THEN <<Quote, Quote>> ELSE <<cell[i]>>)
    IN  IF \E i \in DOMAIN cell : cell[i] \in {Quote, Comma, Newline, Return}
        THEN <<Quote>> \o doubled[Len(cell)] \o <<Quote>> ELSE cell

Line(row) ==
    FlattenSeq([i \in DOMAIN row |-> (IF i = 1 THEN <<>> ELSE <<Comma>>) \o Cell(row[i])])

\* IMPORT_HEADER: the columns that are kept, each called by a letter.
Heading == <<<<"a">>, <<"a">>, <<"a">>>>

\* rowsToCsv.
Printed(rows) ==
    LET text[k \in 0 .. Len(rows)] ==
            IF k = 0 THEN Line(Heading) ELSE text[k - 1] \o <<Newline>> \o Line(rows[k])
    IN  text[Len(rows)]
=============================================================================
