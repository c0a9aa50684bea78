--------------------------- MODULE MCImportWizard ---------------------------
(***************************************************************************)
(* Model-checking instance of ImportWizard: three numbers.  The longer     *)
(* file is right as a whole, and raises where ann is under ben: it moves   *)
(* cara, who is above ben by then, under ann before it moves ann away.     *)
(* Other tables have a change that is due for ann, and cara as one who has *)
(* left and stands between ann and ben; with both, the sync closes a loop  *)
(* in the cache and the trigger refuses whatever is in the file.           *)
(***************************************************************************)
EXTENDS ImportWizard

CONSTANTS ann, ben, cara, x, y, z

Row(n, e, m) == [number |-> n, email |-> e, manager |-> m]

Staff(e, m) == [email |-> e, manager |-> m, edge |-> m, gone |-> FALSE]

Of(a, b, c) == [n \in {ann, ben, cara} |-> CASE n = ann -> a [] n = ben -> b [] n = cara -> c]

RowsTried ==
    {Row(ann, x, NoManager), Row(ann, x, ben), Row(ben, y, cara),
     Row(cara, z, ann), Row(cara, Invalid, ann)}

FilesTried ==
    {<<Row(ann, x, NoManager)>>,
     <<Row(ben, y, cara), Row(cara, z, ann), Row(ann, x, NoManager)>>}

DueToBen == [Staff(x, NoManager) EXCEPT !.edge = ben]
Departed == [Staff(z, ann) EXCEPT !.gone = TRUE]

FirstTried ==
    {Of(Staff(x, ben), Staff(y, NoManager), Nothing),
     Of(DueToBen, Staff(y, NoManager), Nothing),
     Of(Staff(x, NoManager), Staff(y, cara), Departed),
     Of(DueToBen, Staff(y, cara), Departed)}

OtherTried == Of({Staff(x, ben)}, {Staff(x, NoManager)}, {Staff(z, NoManager)})

\* Quotes, commas and ends of line where a user may put them.
SpellingTried ==
    [v \in {ann, ben, cara, x, y, z, Invalid, NoManager} |->
        CASE v = NoManager -> <<>>
          [] v = ann -> <<Blank, "a", Comma, "a">>
          [] v = ben -> <<Quote, "a", Return>>
          [] v = cara -> <<"a", Quote>>
          [] v = Invalid -> <<Newline, Quote, Quote, Comma, Return, Newline, Blank>>
          [] OTHER -> <<"a">>]
=============================================================================
