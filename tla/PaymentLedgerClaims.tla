------------------------- MODULE PaymentLedgerClaims -------------------------
(***************************************************************************)
(* What the documentation and comments of the repository say of the        *)
(* payment ledger and the code does not do.  Each is checked by a run of   *)
(* its own, whose counterexample is the disagreement.                      *)
(***************************************************************************)
EXTENDS MCPaymentLedger

(* accounts/service.py, _enrich: "A paid account owes nothing".            *)
PaidAccountOwesNothing ==
  account.status = "paid" => AsReturned(LAMBDA order : Balance(order) <= 0)

(* interest_engine.py, ledger_anchor: "Payments dated on or before the     *)
(* anchor are considered already reflected in it"; ADR-003: "The current   *)
(* balance itself is correct".  So when a payment is imported and no cycle *)
(* has closed since the account's last payment, the recorded balance is    *)
(* the balance owed on that day, with the import's interest and amount.    *)
ImportReflectsHistory ==
  [][\A p \in Added :
       /\ payments'[p].method = "import" /\ Added = {p} /\ Recorded # {}
       /\ ~\E c \in CycleDays : /\ c <= payments'[p].date
                                /\ \A q \in Recorded : payments[q].date < c
       => \E order \in Chronological(payments) :
            snap'[p].before =
              compute_current_balance(account, payments,
                                      ledger_anchor(payments, snap, order),
                                      payments'[p].date)]_vars
=============================================================================
