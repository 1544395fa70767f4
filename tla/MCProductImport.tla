--------------------------- MODULE MCProductImport ---------------------------
(* ProductImport on a small instance: one name and files of one and two      *)
(* rows, which leave their SKU to the import, claim the first two SKUs in    *)
(* either order, or repeat one that an invalid row may have had.             *)
EXTENDS ProductImport, TLC

MCNames == {"shirt"}
Row(n, v) == [name |-> "shirt", number |-> n, valid |-> v]
Bad == Row(1, FALSE)
MCFiles ==
  LET Unnamed == {<<Row(0, TRUE)>>, <<Row(0, TRUE), Row(0, TRUE)>>, <<Row(0, TRUE), Row(1, TRUE)>>}
      Crossing == {<<Row(1, TRUE), Row(2, TRUE)>>, <<Row(2, TRUE), Row(1, TRUE)>>}
      Repeated == {<<Row(1, TRUE), Row(1, TRUE)>>, <<Bad, Row(1, TRUE)>>}
  IN Unnamed \cup Crossing \cup Repeated
MCManual == {<<"shirt", 1>>}
=============================================================================
