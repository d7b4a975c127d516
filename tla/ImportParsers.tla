----------------------------- MODULE ImportParsers -----------------------------
(***************************************************************************)
(* The two CSV parsers of imports/parsers/ as step functions over rows,    *)
(* and the exports of admin/router.py that the native parser reads back.   *)
(* A cell is the value it stands for, or None when it is empty or cannot   *)
(* be read; a name is the sequence of its characters, or None for one that *)
(* the parser makes up from the reference.                                 *)
(***************************************************************************)
EXTENDS Integers, Sequences, FiniteSets, SequencesExt, FiniteSetsExt

CONSTANTS Refs,      \* Referencia numbers, or exported account ids
          Dates,     \* naturals
          None,      \* a cell that cannot be read
          Blank,     \* an empty date cell
          Letters    \* the characters of names

(* The cells of an account in a native file. *)
AccountCellSet == [borrow_amount : Int, rate : Int, start_date : Dates, name : Seq(Letters)]

ASSUME ParsersAssumption ==
  /\ Refs \subseteq Nat /\ Dates \subseteq Nat
  /\ None \notin Int /\ Blank \notin Int /\ None # Blank
  /\ None \notin AccountCellSet
  /\ "'" \in Letters

Keys     == Refs \X Dates
NoGroup  == [interest |-> None, payment |-> None, rows |-> <<>>]
NothingRead == [accounts |-> <<>>, payments |-> <<>>, errors |-> <<>>,
                groups |-> [k \in Keys |-> NoGroup]]

Flagged(acc, i) == [acc EXCEPT !.errors = Append(@, i)]

RefsOf(accounts) == {accounts[i].ref : i \in DOMAIN accounts}

(* Broken variant: of several amounts on a day the last one counts.        *)
Latest(total, amount) == amount

Plus(total, amount) == IF total = None THEN amount ELSE total + amount

(* The elements of a set, one after the other. *)
SortedBy(S, Before(_, _)) ==
  CHOOSE s \in Bijection(1..Cardinality(S), S) :
    \A i, j \in DOMAIN s : i < j => Before(s[i], s[j])

-----------------------------------------------------------------------------
(* core/csv_safety.py, of the names in an export. *)

FormulaStarts == {"=", "+", "-", "@"}

sanitize_cell(name) ==
  IF name # <<>> /\ Head(name) \in FormulaStarts THEN <<"'">> \o name ELSE name

(* Broken variant: the quote is left where the export put it.              *)
restore_nothing(cell) == cell

restore_cell(cell) ==
  IF Len(cell) >= 2 /\ cell[1] = "'" /\ cell[2] \in FormulaStarts THEN Tail(cell) ELSE cell

-----------------------------------------------------------------------------
(* legacy_ledger_csv.py: disbursements become accounts, the other rows of  *)
(* a reference and date are added up.  The header is recognised without    *)
(* its accents and capitals, but the columns are then read by their exact  *)
(* names: with Descripcion accented no row can be told from another.  A    *)
(* header that accents an amount only is not distinguished from an exact   *)
(* one whose cells in that column are empty.                               *)

(* What the description makes of a row whose reference and date are read.  *)
LegacyEntry(acc, i, row) ==
  LET key  == <<row.ref, row.date>>
      seen == [acc EXCEPT !.groups[key].rows = Append(@, i)]
  IN  CASE row.kind = "disbursement" ->
             IF row.debito = None \/ row.ref \in RefsOf(acc.accounts)
               THEN Flagged(seen, i)
               ELSE [seen EXCEPT !.accounts = Append(@,
                       [ref |-> row.ref, borrow_amount |-> row.debito,
                        start_date |-> row.date, rate |-> None, name |-> None])]
        [] row.kind = "interest" ->
             IF row.debito = None THEN Flagged(seen, i)
             ELSE [seen EXCEPT !.groups[key].interest = Plus(@, row.debito)]
        [] row.kind = "payment" ->
             IF row.credito = None THEN Flagged(seen, i)
             ELSE [seen EXCEPT !.groups[key].payment = Plus(@, row.credito)]
        [] OTHER -> Flagged(seen, i)

LegacyRow(acc, header, i, row) ==
  IF header = "exact" /\ row.ref # None /\ row.date # None
    THEN LegacyEntry(acc, i, row)
    ELSE Flagged(acc, i)

OrZero(amount) == IF amount = None THEN 0 ELSE amount

(* After the last row: a group with a payment is a payment, sorted by      *)
(* reference and date; interest without a payment is an error.             *)
LegacyEnd(acc) ==
  LET g       == acc.groups
      Before(k, l) == k[1] < l[1] \/ (k[1] = l[1] /\ k[2] <= l[2])
      paid    == SortedBy({k \in Keys : g[k].payment # None}, Before)
      orphans == SortedBy({k \in Keys : g[k].payment = None /\ g[k].interest # None}, Before)
  IN  [acc EXCEPT
         !.payments = [i \in DOMAIN paid |->
           [ref |-> paid[i][1], date |-> paid[i][2], amount |-> g[paid[i]].payment,
            interest |-> OrZero(g[paid[i]].interest)]],
         !.errors = @ \o [i \in DOMAIN orphans |-> g[orphans[i]].rows[1]],
         !.groups = NothingRead.groups]

-----------------------------------------------------------------------------
(* native_csv.py.  A row has the cells of an account (None when one that   *)
(* is needed cannot be read), those of a payment, or in full.csv both.     *)

SuggestedName(cell) == IF restore_cell(cell) = <<>> THEN None ELSE restore_cell(cell)

WithAccount(acc, i, row) ==
  IF row.ref = None \/ row.account = None THEN Flagged(acc, i)
  ELSE IF row.ref \in RefsOf(acc.accounts) THEN acc
  ELSE [acc EXCEPT !.accounts = Append(@,
          [ref |-> row.ref, borrow_amount |-> row.account.borrow_amount,
           start_date |-> row.account.start_date, rate |-> row.account.rate,
           name |-> SuggestedName(row.account.name)])]

WithPayment(acc, shape, i, row) ==
  IF shape = "full" /\ row.date = Blank THEN acc
  ELSE IF row.ref = None \/ row.amount = None \/ row.date \in {Blank, None} THEN Flagged(acc, i)
  ELSE [acc EXCEPT !.payments = Append(@,
          [ref |-> row.ref, date |-> row.date, amount |-> row.amount,
           interest |-> OrZero(row.interest)])]

NativeRow(acc, shape, i, row) ==
  LET both == IF shape \in {"full", "accounts"} THEN WithAccount(acc, i, row) ELSE acc
  IN  IF shape \in {"full", "payments"} THEN WithPayment(both, shape, i, row) ELSE both

-----------------------------------------------------------------------------
(* The exports, of ledgers: an account and its payments in date order. *)

AccountCells(l) == [borrow_amount |-> l.borrow_amount, rate |-> l.rate,
                    start_date |-> l.start_date, name |-> sanitize_cell(l.name)]

NoPayment == [date |-> Blank, amount |-> None, interest |-> None]

ExportRow(l, account, p) ==
  [ref |-> l.ref, account |-> account, date |-> p.date, amount |-> p.amount,
   interest |-> p.interest]

export_accounts_csv(ledgers) ==
  [i \in DOMAIN ledgers |-> ExportRow(ledgers[i], AccountCells(ledgers[i]), NoPayment)]

(* Those of all accounts together, in date order. *)
export_payments_csv(ledgers) ==
  LET P == UNION {{i} \X DOMAIN ledgers[i].payments : i \in DOMAIN ledgers}
      Payment(p)   == ledgers[p[1]].payments[p[2]]
      Before(p, q) == \/ Payment(p).date < Payment(q).date
                      \/ Payment(p).date = Payment(q).date /\ p[1] < q[1]
                      \/ Payment(p).date = Payment(q).date /\ p[1] = q[1] /\ p[2] <= q[2]
      ordered == SortedBy(P, Before)
  IN  [n \in DOMAIN ordered |->
         ExportRow(ledgers[ordered[n][1]], None, Payment(ordered[n]))]

export_account_full_csv(l) ==
  IF l.payments = <<>> THEN <<ExportRow(l, AccountCells(l), NoPayment)>>
  ELSE [j \in DOMAIN l.payments |-> ExportRow(l, AccountCells(l), l.payments[j])]
=============================================================================
