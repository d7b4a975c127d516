---------------------------- MODULE PaymentLedger ----------------------------
(***************************************************************************)
(* One loan account, its payments and the stored snapshot of each: every   *)
(* operation of AccountService, PaymentService and ImportService that      *)
(* changes them, each in a transaction of its own.  An import's file is    *)
(* the sequence, in date order, of the rows its parser produced for this   *)
(* account.                                                                *)
(***************************************************************************)
EXTENDS Ledger

CONSTANTS Ids,            \* payment ids
          LastDay,        \* bound on the days that are modelled
          Borrowed,       \* amounts an account may be opened with
          StartDays,      \* disbursement days
          Rates,          \* rates an account may be given
          Amounts,        \* amounts of a native payment
          ImportFiles,    \* what parsers produce for the account
          StatusPatches   \* statuses a PATCH of the account may ask for

Days     == 1..LastDay
Statuses == {"open", "active", "paid", "closed"}
ImportRows == [date : Days, amount : Nat, interest : Nat]

ASSUME LedgerAssumption ==
  /\ IsFiniteSet(Ids) /\ LastDay \in Nat
  /\ Borrowed \subseteq Nat /\ Rates \subseteq 1..RateScale
  /\ StartDays \subseteq Days /\ Amounts \subseteq Nat \ {0}
  /\ StatusPatches \subseteq Statuses
  /\ \A f \in ImportFiles :
       /\ f \in Seq(ImportRows) /\ f # <<>>
       /\ \A i, j \in DOMAIN f : i < j => f[i].date <= f[j].date

(* A day that is modelled has a cycle before it and two that are not.      *)
ASSUME CalendarCovers ==
  \A d \in Days : \E b, c, e \in CycleDays : b < d /\ d <= c /\ c < e

VARIABLES account,    \* status ("none": no such row), terms
          payments,   \* id -> [date, amount, method]
          snap,       \* id -> [before, interest, after]
          today

vars == <<account, payments, snap, today>>

NoAccount == [status |-> "none", rate |-> 0, start |-> 0, borrow |-> 0]

Exists == account.status # "none"

Recorded == DOMAIN payments

Imported(p) == payments[p].method = "import"

Init == /\ account = NoAccount
        /\ payments = <<>> /\ snap = <<>>
        /\ today \in Days

Tick == /\ today < LastDay
        /\ today' = today + 1
        /\ UNCHANGED <<account, payments, snap>>

-----------------------------------------------------------------------------
(* AccountService *)

NewAccount(borrow, rate, start) ==
  [status |-> "open", rate |-> rate, start |-> start, borrow |-> borrow]

CreateAccount ==
  /\ ~Exists
  /\ \E b \in Borrowed, r \in Rates, s \in StartDays :
       account' = NewAccount(b, r, s)
  /\ UNCHANGED <<payments, snap, today>>

(* PATCH: each field is optional, and any status may follow any other. *)
UpdateAccount ==
  /\ Exists
  /\ \E r \in Rates \union {account.rate},
        s \in StatusPatches \union {account.status} :
       account' = [account EXCEPT !.rate = r, !.status = s]
  /\ UNCHANGED <<payments, snap, today>>

CloseAccount ==
  /\ Exists /\ account.status # "closed"
  /\ account' = [account EXCEPT !.status = "closed"]
  /\ UNCHANGED <<payments, snap, today>>

(* The row goes, and its payments by cascade.  Only an admin's force=true *)
(* purges an account that is not closed.                                  *)
PurgeAccount(force) ==
  /\ Exists
  /\ force \/ account.status = "closed"
  /\ account' = NoAccount
  /\ payments' = <<>> /\ snap' = <<>>
  /\ UNCHANGED today

-----------------------------------------------------------------------------
(* PaymentService *)

(* What an auto payment is dated after: the last payment (or, without one, *)
(* the disbursement) and the anchor, whose cycle is already settled.       *)
AutoReference(order, anchor) ==
  LET last == IF order = <<>> THEN account.start
                              ELSE payments[order[Len(order)]].date
  IN  IF anchor.some THEN LargerOf(last, anchor.date) ELSE last

(* Broken variant: the cycle on or after the reference, not after it.      *)
AutoDateSame(order, anchor) == next_cycle_date(AutoReference(order, anchor))

AutoDate(order, anchor) ==
  LET ref == AutoReference(order, anchor)
      nxt == next_cycle_date(ref)
  IN  IF nxt <= ref THEN advance_cycle(nxt) ELSE nxt

StatusAfterAdd(balance) ==
  IF balance <= 0 THEN "paid"
  ELSE IF account.status = "open" THEN "active" ELSE account.status

(* Broken variant: the imported history is replayed at the account's rate. *)
LiveSnapshotUnanchored(amount, d, anchor) ==
  NativeSnapshot(account, payments, d, amount, NoAnchor)

(* The snapshot of a payment when it is made, from the rows already there. *)
LiveSnapshot(amount, d, anchor) ==
  NativeSnapshot(account, payments, d, amount, anchor)

(* Without a date of its own a payment is dated automatically, whatever    *)
(* its method; a date of its own is not in the future.                     *)
AddPayment(p, amount, d, method, order) ==
  LET anchor == ledger_anchor(payments, snap, order)
      s      == LiveSnapshot(amount, d, anchor)
  IN  /\ Exists /\ account.status \notin {"paid", "closed"}
      /\ \/ d = AutoDate(order, anchor)
         \/ method = "manual" /\ d <= today
      /\ anchor.some => d > anchor.date
      /\ payments' = Insert(payments, [q \in {p} |->
                        [date |-> d, amount |-> amount, method |-> method]])
      /\ snap' = Insert(snap, [q \in {p} |-> s])
      /\ account' = [account EXCEPT !.status = StatusAfterAdd(s.after)]
      /\ UNCHANGED today

Without(p) == Recorded \ {p}

(* The status recalculate_ledger gives the account from the last row it    *)
(* replayed; a manual close stays.                                         *)
StatusAfterReplay(new, order) ==
  IF account.status = "closed" THEN "closed"
  ELSE IF order = <<>> THEN "open"
  ELSE IF new[order[Len(order)]].after <= 0 THEN "paid" ELSE "active"

(* Broken variant: the other snapshots are left as they are.               *)
DeleteWithoutReplay(p, order) ==
  /\ Exists
  /\ payments' = Restrict(payments, Without(p))
  /\ snap' = Restrict(snap, Without(p))
  /\ UNCHANGED <<account, today>>

(* Broken variant: the deleted payment's snapshot is left behind.          *)
DeleteRowOnly(p, order) ==
  /\ Exists
  /\ payments' = Restrict(payments, Without(p))
  /\ UNCHANGED <<account, snap, today>>

(* The row is deleted and recalculate_ledger runs in the same transaction. *)
DeletePayment(p, order) ==
  LET kept == Restrict(payments, Without(p))
      new  == Replay(account, kept, snap, order)
  IN  /\ Exists
      /\ payments' = kept
      /\ snap' = new
      /\ account' = [account EXCEPT !.status = StatusAfterReplay(new, order)]
      /\ UNCHANGED today

-----------------------------------------------------------------------------
(* ImportService.commit, for the rows of one account *)

(* The rows that are inserted: one dated before the history already        *)
(* recorded is refused, the rest of the file goes on.                      *)
Accepted(file, last_date) == {i \in DOMAIN file : file[i].date >= last_date}

RunningAfter(file, rows, balance) ==
  LET after[i \in 0..Len(file)] ==
        IF i = 0 THEN balance
        ELSE after[i - 1] + IF i \in rows
                            THEN file[i].interest - file[i].amount ELSE 0
  IN  after

StatusAfterImport(balance, status) ==
  IF balance <= 0 THEN "paid"
  ELSE IF status = "open" THEN "active" ELSE status

(* new gives each inserted row of the file its id. *)
InsertImported(acct, file, new, balance) ==
  LET after  == RunningAfter(file, DOMAIN new, balance)
      row(p) == CHOOSE i \in DOMAIN new : new[i] = p
      RowPayment(r)     == [date |-> r.date, amount |-> r.amount,
                            method |-> "import"]
      RowSnapshot(i, r) == Snapshot(after[i - 1], r.interest, r.amount)
  IN  /\ payments' = Insert(payments,
                        [p \in Range(new) |-> RowPayment(file[row(p)])])
      /\ snap' = Insert(snap,
                    [p \in Range(new) |-> RowSnapshot(row(p), file[row(p)])])
      /\ account' = [acct EXCEPT !.status =
                        StatusAfterImport(after[Len(file)], acct.status)]
      /\ UNCHANGED today

Disbursement == [date |-> account.start, balance |-> account.borrow]

(* Broken variant: the rows are chained from the amount borrowed.          *)
HistoryEndAtStart(order) ==
  [Disbursement EXCEPT !.date = IF order = <<>> THEN @
                                ELSE payments[order[Len(order)]].date]

(* Where the stored history of the account ends: its last payment's date   *)
(* and stored balance, or the disbursement.                                *)
HistoryEnd(order) ==
  LET last == order[Len(order)]
  IN  IF order = <<>> THEN Disbursement
      ELSE [date |-> payments[last].date, balance |-> snap[last].after]

(* action "existing": the rows continue the account's stored history. *)
ImportExisting(file, order) ==
  LET rows == Accepted(file, HistoryEnd(order).date)
  IN  /\ Exists
      /\ \E new \in Injection(rows, Ids \ Recorded) :
           InsertImported(account, file, new, HistoryEnd(order).balance)

(* action "create": the file's account is opened first; its rate is the    *)
(* mapping's, the file's or 0.                                             *)
ImportCreate(file) ==
  /\ ~Exists
  /\ \E b \in Borrowed, r \in Rates \union {0}, s \in StartDays :
       \E new \in Injection(Accepted(file, s), Ids) :
         InsertImported(NewAccount(b, r, s), file, new, b)

-----------------------------------------------------------------------------
AddSome ==
  \E p \in Ids \ Recorded, a \in Amounts, d \in Days,
     m \in {"auto", "manual"}, order \in Chronological(payments) :
    AddPayment(p, a, d, m, order)

DeleteSome ==
  \E p \in Recorded :
    \E order \in Chronological(Restrict(payments, Without(p))) :
      DeletePayment(p, order)

ImportSome ==
  \E f \in ImportFiles :
    \/ \E order \in Chronological(payments) : ImportExisting(f, order)
    \/ ImportCreate(f)

Next == \/ Tick
        \/ CreateAccount \/ UpdateAccount \/ CloseAccount
        \/ \E force \in BOOLEAN : PurgeAccount(force)
        \/ AddSome \/ DeleteSome \/ ImportSome

Spec == Init /\ [][Next]_vars

-----------------------------------------------------------------------------
Account == [status : Statuses \union {"none"}, rate : 0..RateScale,
            start : Nat, borrow : Nat]

Payment == [date : Days, amount : Nat, method : {"auto", "manual", "import"}]

(* What of the state's type does not depend on the arithmetic of replay. *)
HistoryTyped ==
  /\ account \in Account
  /\ Recorded \subseteq Ids /\ payments \in [Recorded -> Payment]
  /\ DOMAIN snap = Recorded
  /\ IF Exists THEN account.start \in Days ELSE Recorded = {}
  /\ today \in Days

TypeOK ==
  /\ HistoryTyped
  /\ snap \in [Recorded -> [before : Int, interest : Int, after : Int]]

(* A query for the account's payments returned them in this order. *)
AsReturned(P(_)) == \A order \in Chronological(payments) : P(order)

(* No payment made through the application is dated inside the span that   *)
(* an import has settled: after the import's own date and up to its        *)
(* anchor.  Such a payment would be in no projection and in no recorded    *)
(* balance.  add_payment checks the anchor of the last import only, and    *)
(* the importer checks only the date of the last payment.                  *)
NoPaymentInAnchorGap ==
  \A i, p \in Recorded :
    Imported(i) /\ ~Imported(p) /\ payments[i].date < payments[p].date
      => AnchorDate(payments[i].date) < payments[p].date

(* The displayed balance counts every payment after the anchor (or from    *)
(* the disbursement on) exactly once, either in the period of a cycle or   *)
(* as pending, whatever the order the rows come in.                        *)
LivePaymentsCountedOnce ==
  Exists => AsReturned(LAMBDA order :
    LET anchor == ledger_anchor(payments, snap, order)
        as_of  == balance_as_of(payments, today)
        rows   == project_ledger(account, payments, as_of, anchor)
        live   == LivePayments(account, payments, anchor)
    IN  compute_current_balance(account, payments, anchor, as_of)
          = OpeningBalance(account.borrow, anchor)
              + SumFunction([i \in DOMAIN rows |-> rows[i].interest])
              - AmountOf(payments, live))

(* Replay after an import charges exactly the cycles that come after both  *)
(* the import and the cycle nearest to it: that cycle's interest is in the *)
(* recorded balance and is not charged again, and the next one is not      *)
(* skipped.                                                                *)
SettledCycleNotChargedAgain ==
  Exists => AsReturned(LAMBDA order :
    LET anchor == ledger_anchor(payments, snap, order)
        as_of  == balance_as_of(payments, today)
        rows   == project_ledger(account, payments, as_of, anchor)
        last   == Max({payments[i].date : i \in {p \in Recorded : Imported(p)}})
    IN  anchor.some =>
          {rows[i].cycle_date : i \in DOMAIN rows}
            = {c \in CycleDays : c > last /\ c > nearest_cycle_date(last)
                                           /\ c <= as_of})

(* The stored snapshots are what recalculate_ledger would store now. *)
ConsistentIn(acct, pays, stored) ==
  \E order \in Chronological(pays) : stored = Replay(acct, pays, stored, order)

ConsistentBefore == ConsistentIn(account, payments, snap)
ConsistentAfter  == ConsistentIn(account', payments', snap')

(* Rows of one date tie in ORDER BY payment_date.  When one of them is an  *)
(* import, which row is the last (import) differs from query to query.     *)
ImportTie(pays) ==
  \E p, q \in DOMAIN pays :
    p # q /\ pays[p].date = pays[q].date /\ pays[p].method = "import"

Balance(order) ==
  compute_current_balance(account, payments,
                          ledger_anchor(payments, snap, order),
                          balance_as_of(payments, today))

(* ADR-003: the displayed balance is derived from the payment records, so  *)
(* it is the same whatever order a query returns rows of one date in.      *)
BalanceDetermined ==
  Exists => \A o1, o2 \in Chronological(payments) : Balance(o1) = Balance(o2)

(* The same for histories in which no import shares its date with another  *)
(* payment: ties between native payments do not matter.                    *)
BalanceDeterminedUnlessImportTie == ImportTie(payments) \/ BalanceDetermined

Removed == Recorded \ Recorded'
Added   == Recorded' \ Recorded

(* Deleting a payment leaves the snapshots of the others consistent: a     *)
(* second recalculation would change nothing, imported rows included.      *)
DeletionLeavesConsistent ==
  [][Removed # {} /\ Recorded' # {} => ConsistentAfter]_vars

(* The interest recorded with an imported payment is a fact of the past:   *)
(* nothing that happens to the account changes it.                         *)
ImportedInterestKept ==
  [][\A p \in Recorded \intersect Recorded' :
       Imported(p) => snap'[p].interest = snap[p].interest]_vars

(* The snapshot add_payment computes live, for a backdated payment too, is *)
(* the one recalculate_ledger would give the payment in the history that   *)
(* results, as long as the snapshots already stored are consistent.        *)
LiveSnapshotIsReplay ==
  [][\A p \in Added :
       payments'[p].method # "import" /\ ~ImportTie(payments) /\ ConsistentBefore =>
         \E order \in Chronological(payments') :
           snap'[p] = Replay(account', payments', snap', order)[p]]_vars

(* Appending rows at the end of a consistent history keeps it consistent,  *)
(* be they imported or made through the application.                       *)
AppendKeepsConsistent ==
  [][Exists /\ Added # {} /\ ~ImportTie(payments) /\ ConsistentBefore
       /\ (\A p \in Added, q \in Recorded :
             payments[q].date < payments'[p].date)
       => ConsistentAfter]_vars

(* architecture.md: an "auto" payment is dated to the next cycle after the *)
(* account's most recent payment, so it settles no cycle a second time.    *)
AutoPaymentIsNew ==
  [][\A p \in Added : (payments'[p].method = "auto") =>
       /\ payments'[p].date \in CycleDays
       /\ \A q \in Recorded : payments[q].date < payments'[p].date]_vars
=============================================================================
