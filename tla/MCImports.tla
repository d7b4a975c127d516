------------------------------ MODULE MCImports -------------------------------
(* The instance of Imports that TLC checks: a quantity of one unit is      *)
(* 64 KiB of a body, and the files are up to three rows long.              *)
EXTENDS Imports

CONSTANT e

LRow(r, d, k, deb, cre) == [ref |-> r, date |-> d, kind |-> k, debito |-> deb, credito |-> cre]

MCLegacyRows ==
  {LRow(1, 1, "disbursement", 5, None), LRow(1, 1, "disbursement", None, None),
   LRow(1, 2, "interest", 1, None), LRow(1, 2, "payment", None, 2),
   LRow(1, 2, "payment", None, 3), LRow(2, 1, "payment", None, 1),
   LRow(1, 2, "payment", 1, None), LRow(1, 1, "interest", 2, None), LRow(1, 2, "other", 1, 1),
   LRow(None, 1, "payment", None, 2), LRow(1, None, "payment", None, 2)}

Cells(n) == [borrow_amount |-> 5, rate |-> 1, start_date |-> 1, name |-> n]

NRow(r, a, d, am, int) == [ref |-> r, account |-> a, date |-> d, amount |-> am, interest |-> int]

MCNativeRows ==
  {NRow(1, Cells(<<"x">>), 1, 2, 1), NRow(1, Cells(<<>>), Blank, None, None),
   NRow(1, None, 2, 2, None), NRow(None, Cells(<<>>), 2, 1, None), NRow(2, Cells(<<"'", "x">>), 2, None, 1)}

Ledger(r, n, ps) == [ref |-> r, name |-> n, borrow_amount |-> 5, rate |-> 1, start_date |-> 1,
                     payments |-> ps]
Pay(d, a, i) == [date |-> d, amount |-> a, interest |-> i]

Names == {<<"x">>, <<"=", "x">>, <<"'", "x">>, <<"'", "=">>, <<"=">>}

MCLedgers ==
  {<<Ledger(1, n, ps), Ledger(2, <<"x">>, <<Pay(1, 1, 0)>>)>> :
     n \in Names, ps \in {<<>>, <<Pay(1, 2, 1)>>, <<Pay(1, 1, 0), Pay(2, 2, 1)>>}}

MCMappings ==
  {[r \in Refs |-> "create"], [r \in Refs |-> e], [r \in Refs |-> "incomplete"]}
MCLastDates == [x \in Existing |-> 1]
=============================================================================
