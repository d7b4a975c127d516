--------------------------- MODULE MCPaymentLedger ---------------------------
EXTENDS PaymentLedger, TLC

Symmetry == Permutations(Ids)

Row(d, a, i) == [date |-> d, amount |-> a, interest |-> i]

(* Day 2 is nearest to the cycle before it, day 3 to the one after it, and *)
(* day 5 is half way between two cycles.                                   *)
MCCycleDays == {0, 1, 4, 6, 9, 12, 15}

MCImportFiles == {<<Row(3, 4, 1)>>, <<Row(2, 2, 1), Row(5, 3, 2)>>}
NoImports == {}
OneImport == {<<Row(3, 4, 1)>>}
=============================================================================
