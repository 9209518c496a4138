--------------------------- MODULE MCImportLedger ---------------------------
(* Instances of ImportLedger for TLC: two exports of one account that       *)
(* overlap, and exports that meet rows entered ahead of the bank.           *)
EXTENDS ImportLedger, TLC

Interchangeable == Permutations(Importers) \cup Permutations(Editors)

Line(d, w, a, b, x) ==
  [valid |-> TRUE, date |-> d, desc |-> w, amount |-> a, balance |-> b, bytes |-> x]

\* A CSV with the same parking charge twice, a line that cannot be read and
\* two payments of one day, and the PDF of the same days, which words one of
\* the payments in full and gives running balances.
OverlapContent ==
  [csv |-> << Line(1, "parking", -3, 0, "c1"), Line(1, "parking", -3, 0, "c1"),
              [Line(2, "", 0, 0, "c2") EXCEPT !.valid = FALSE],
              Line(2, "payment thank you", 9, 0, "c3"),
              Line(2, "payment thank you", 9, 0, "c4") >>,
   pdf |-> << Line(2, "payment thank you bill pay", 9, 15, "p1"),
              Line(2, "payment thank you", 9, 24, "p2"),
              Line(1, "parking", -3, 9, "p3"), Line(1, "parking", -3, 6, "p4") >>]
OverlapSimilar ==
  {<<"payment thank you", "payment thank you bill pay">>,
   <<"payment thank you bill pay", "payment thank you">>}

\* Two exports that state each transaction once, the second with balances and
\* with one of them worded differently.
DistinctFiles ==
  [csv |-> << Line(1, "uber", -3, 0, "c1"), Line(2, "payment thank you", 9, 0, "c2") >>,
   pdf |-> << Line(2, "payment thank you bill pay", 9, 12, "p1"),
              Line(1, "uber", -3, 3, "p2"), Line(3, "rent", -5, 7, "p3") >>]

\* The bank's rows for a rent the user has confirmed from its schedule and
\* entered by hand, two weekly rents, and the same rent paid twice on one day.
RentContent ==
  [bank  |-> << Line(9, "landlord ltd", -5, 20, "b1"),
                Line(13, "rent", -5, 15, "b2") >>,
   weekly |-> << Line(10, "rent", -5, 20, "w1"), Line(17, "rent", -5, 15, "w2") >>,
   twice |-> << Line(12, "landlord ltd", -5, 20, "d1"),
                Line(12, "landlord ltd", -5, 15, "d2") >>]
RentEntries ==
  {[date |-> 10, desc |-> "rent", amount |-> -5, raw |-> "scheduled"],
   [date |-> 13, desc |-> "rent", amount |-> -5, raw |-> "none"]}

\* Both at once, each in behaviours of its own.
DistinctContent ==
  [f \in {"csv", "pdf", "bank", "twice"} |->
     IF f \in DOMAIN DistinctFiles THEN DistinctFiles[f] ELSE RentContent[f]]
AllFiles == {[files |-> Files, ahead |-> Entries # {}, edits |-> Editors # {}]}
EditsOrEntries ==
  {[files |-> {"csv", "pdf"}, ahead |-> FALSE, edits |-> TRUE],
   [files |-> {"bank", "twice"}, ahead |-> TRUE, edits |-> FALSE]}

\* The exports of these instances are such as the theorems suppose.
ASSUME OverlapIsWhole ==
  Content = OverlapContent => SameCells(Files) /\ WholeDays(Files) /\ OneWording(Files)
ASSUME DistinctIsDistinct ==
  Content = DistinctContent =>
    LET files == DOMAIN DistinctFiles IN
    /\ SameCells(files) /\ OneWording(files) /\ \A day \in BOOLEAN : StatedOnce(day, files)

\* One file with one row.
SingleContent == [csv |-> << Line(1, "uber", -3, 4, "c1") >>]

=============================================================================
