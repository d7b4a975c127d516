------------------------------- MODULE Ledger -------------------------------
(***************************************************************************)
(* The interest engine: balances derived from an account's terms and its   *)
(* payment history.  Money is a whole number of cents, a rate is a whole   *)
(* number of 1/RateScale, a day is a number of the calendar of Cycles.     *)
(* "pays" is a function from payment ids to [date, amount, method],        *)
(* "snap" one from the same ids to the stored [before, interest, after],   *)
(* and "order" lists the ids in the order a query returned the rows.       *)
(***************************************************************************)
EXTENDS Cycles

RateScale == 10000      \* four decimal places

LargerOf(a, b) == IF a >= b THEN a ELSE b

(* n / d rounded to a whole number, halves away from zero. *)
RoundHalfUp(n, d) == IF n >= 0 THEN (2 * n + d) \div (2 * d)
                               ELSE -((d - 2 * n) \div (2 * d))

InterestOn(balance, rate) == RoundHalfUp(balance * rate, RateScale)

(* The rows of f and those of g; a row of f stays as it is. *)
Insert(f, g) ==
  [p \in DOMAIN f \union DOMAIN g |-> IF p \in DOMAIN f THEN f[p] ELSE g[p]]

AmountOf(pays, ids) ==
  SumFunctionOnSet([p \in DOMAIN pays |-> pays[p].amount], ids)

(* The orders in which a query with ORDER BY payment_date may return the   *)
(* rows: rows of the same date come in any order.                          *)
Chronological(pays) ==
  {o \in Bijection(1..Cardinality(DOMAIN pays), DOMAIN pays) :
     \A i, j \in DOMAIN o : i < j => pays[o[i]].date <= pays[o[j]].date}

-----------------------------------------------------------------------------
(* The balance that replay starts from, when there is imported history.    *)
NoAnchor == [some |-> FALSE]

AnchorDate(d) == LargerOf(d, nearest_cycle_date(d))

(* Broken variant: the anchor stays on the import's own date.              *)
AnchorAtImport(d, balance) ==
  [some |-> TRUE, date |-> d, balance |-> balance]

AnchorAt(d, balance) ==
  [some |-> TRUE, date |-> AnchorDate(d), balance |-> balance]

(* Broken variant: the date of the last import with the balance of the    *)
(* last payment of any method.                                            *)
AnchorWithLastBalance(pays, snap, order) ==
  LET imports == {i \in DOMAIN order : pays[order[i]].method = "import"}
  IN  IF imports = {} THEN NoAnchor
      ELSE AnchorAt(pays[order[Max(imports)]].date, snap[order[Len(order)]].after)

ledger_anchor(pays, snap, order) ==
  LET imports == {i \in DOMAIN order : pays[order[i]].method = "import"}
  IN  IF imports = {} THEN NoAnchor
      ELSE LET last == order[Max(imports)]
           IN  AnchorAt(pays[last].date, snap[last].after)

Origin(start, anchor) == IF anchor.some THEN anchor.date ELSE start

OpeningBalance(borrow, anchor) ==
  IF anchor.some THEN anchor.balance ELSE borrow

(* The payments that replay looks at: those after the anchor. *)
AfterAnchor(pays, anchor) ==
  {p \in DOMAIN pays : anchor.some => pays[p].date > anchor.date}

(* Broken variant: the first period is open on the left like the others.   *)
InPeriodOpen(d, i, origin, cycles) ==
  /\ (IF i = 1 THEN origin ELSE cycles[i - 1]) < d
  /\ d <= cycles[i]

(* The period of cycle i ends with it and starts after the cycle before;   *)
(* the first one includes its own first day.                               *)
InPeriod(d, i, origin, cycles) ==
  /\ IF i = 1 THEN origin <= d ELSE cycles[i - 1] < d
  /\ d <= cycles[i]

(* The cycles that replay charges: from the disbursement on, or after the  *)
(* anchor.                                                                 *)
LedgerCycles(acct, until, anchor) ==
  get_cycle_dates(Origin(acct.start, anchor) + (IF anchor.some THEN 1 ELSE 0), until)

PeriodPayments(acct, pays, anchor, cycles, i) ==
  {p \in AfterAnchor(pays, anchor) :
     InPeriod(pays[p].date, i, Origin(acct.start, anchor), cycles)}

(* The row of cycle i: interest on the opening balance, then the payments  *)
(* of the period.                                                          *)
LedgerRow(acct, pays, anchor, cycles, i, opening) ==
  LET interest == InterestOn(opening, acct.rate)
      paid     == AmountOf(pays, PeriodPayments(acct, pays, anchor, cycles, i))
  IN  [cycle_date |-> cycles[i], opening |-> opening, interest |-> interest,
       closing |-> opening + interest - paid]

(* One row per cycle after the origin. *)
project_ledger(acct, pays, until, anchor) ==
  LET cycles == LedgerCycles(acct, until, anchor)
      rows[i \in 0..Len(cycles)] ==
        IF i = 0 THEN <<>>
        ELSE LET prior   == rows[i - 1]
                 opening == IF i = 1 THEN OpeningBalance(acct.borrow, anchor)
                                     ELSE prior[i - 1].closing
             IN  Append(prior, LedgerRow(acct, pays, anchor, cycles, i, opening))
  IN  rows[Len(cycles)]

(* The payments compute_current_balance and project_ledger may count. *)
LivePayments(acct, pays, anchor) ==
  {p \in AfterAnchor(pays, anchor) :
     ~anchor.some => pays[p].date >= acct.start}

compute_current_balance(acct, pays, anchor, as_of) ==
  LET rows    == project_ledger(acct, pays, as_of, anchor)
      n       == Len(rows)
      pending == {p \in LivePayments(acct, pays, anchor) :
                    /\ pays[p].date <= as_of
                    /\ n > 0 => rows[n].cycle_date < pays[p].date}
  IN  (IF n > 0 THEN rows[n].closing ELSE OpeningBalance(acct.borrow, anchor))
        - AmountOf(pays, pending)

balance_as_of(pays, today) == Max({today} \union {pays[p].date : p \in DOMAIN pays})

-----------------------------------------------------------------------------
Snapshot(before, interest, amount) ==
  [before |-> before, interest |-> interest, after |-> before + interest - amount]

(* The snapshot of a native payment made on day d: one on a cycle date     *)
(* carries that cycle's interest, any other carries none.                  *)
NativeSnapshot(acct, pays, d, amount, anchor) ==
  LET rows == project_ledger(acct, pays, d, anchor)
      last == rows[Len(rows)]
  IN  IF rows = <<>> THEN Snapshot(OpeningBalance(acct.borrow, anchor), 0, amount)
      ELSE IF last.cycle_date = d
           THEN Snapshot(last.opening, last.interest, amount)
           ELSE Snapshot(last.closing, 0, amount)

(* Broken variant: an import's interest is recomputed at today's rate.     *)
ReplayImportAtRate(acct, pays, snap, p, running) ==
  Snapshot(running, InterestOn(running, acct.rate), pays[p].amount)

(* recalculate_ledger chains an import from the row before it, with the    *)
(* interest recorded for it.                                               *)
ReplayImport(acct, pays, snap, p, running) ==
  Snapshot(running, snap[p].interest, pays[p].amount)

(* A native payment is projected from the rows before it. *)
ReplayNative(acct, pays, p, earlier, anchor) ==
  NativeSnapshot(acct, Restrict(pays, earlier), pays[p].date, pays[p].amount, anchor)

(* What recalculate_ledger stores for the history in the given order. *)
Replay(acct, pays, snap, order) ==
  LET Running(rows) == IF rows = <<>> THEN acct.borrow ELSE rows[Len(rows)].after
      Import(prior, p) ==
        LET new == ReplayImport(acct, pays, snap, p, Running(prior.rows))
        IN  [rows   |-> Append(prior.rows, new),
             anchor |-> AnchorAt(pays[p].date, new.after)]
      Native(prior, p, earlier) ==
        [rows   |-> Append(prior.rows,
                           ReplayNative(acct, pays, p, earlier, prior.anchor)),
         anchor |-> prior.anchor]
      step[i \in 0..Len(order)] ==
        IF i = 0 THEN [rows |-> <<>>, anchor |-> NoAnchor]
        ELSE IF pays[order[i]].method = "import"
             THEN Import(step[i - 1], order[i])
             ELSE Native(step[i - 1], order[i], {order[j] : j \in 1..(i - 1)})
      rows == step[Len(order)].rows
  IN  [p \in DOMAIN pays |-> rows[CHOOSE i \in DOMAIN order : order[i] = p]]
=============================================================================
