----------------------------- MODULE LoanRequests -----------------------------
(***************************************************************************)
(* The loan requests of one borrower and the accounts that are opened from *)
(* them.  Every endpoint of loan_requests/router.py is a transaction of    *)
(* its own: it reads the row, decides on what it read, writes the row when *)
(* it gets the row's lock, and commits when the request has been answered. *)
(* The database is READ COMMITTED and the reads lock nothing, so what an   *)
(* endpoint decides on may be out of date when it writes.                  *)
(***************************************************************************)
EXTENDS Integers, FiniteSets

CONSTANTS Requests,               \* request ids
          Workers,                \* transactions that may be open at a time
          MAX_ACTIVE_REQUESTS,
          MaxAccounts             \* bound: accounts opened from one request

ASSUME RequestsAssumption ==
  /\ IsFiniteSet(Requests) /\ IsFiniteSet(Workers)
  /\ MAX_ACTIVE_REQUESTS \in Nat /\ MaxAccounts \in Nat

ACTIVE_STATUSES == {"requested", "under_review"}
Statuses        == ACTIVE_STATUSES \union {"approved", "rejected"}
ReviewStatuses  == {"approved", "rejected", "under_review"}

VARIABLES requests,   \* committed status of each request; "none" or "deleted": no row
          accounts,   \* how many accounts have been opened from each request
          tx          \* the transaction of each worker

vars == <<requests, accounts, tx>>

(* to: the status it will set, "deleted" for a delete.  seen: the status   *)
(* it read.                                                                *)
Idle == [phase |-> "idle"]

Open(op, id, seen, to) ==
  [phase |-> "read", op |-> op, id |-> id, seen |-> seen, to |-> to]

Busy(w) == tx[w] # Idle

Exists(id) == requests[id] \in Statuses

Active == {id \in Requests : requests[id] \in ACTIVE_STATUSES}

Init == /\ requests = [id \in Requests |-> "none"]
        /\ accounts = [id \in Requests |-> 0]
        /\ tx = [w \in Workers |-> Idle]

-----------------------------------------------------------------------------
(* The reads: each is the first query of an endpoint and the checks made   *)
(* on its result.                                                          *)

Begins(w, t) ==
  /\ tx[w] = Idle
  /\ tx' = [tx EXCEPT ![w] = t]
  /\ UNCHANGED <<requests, accounts>>

(* create_request: the id is new, no other transaction has it. *)
create_request(w, id) ==
  /\ requests[id] = "none"
  /\ \A v \in Workers : Busy(v) => tx[v].id # id
  /\ Cardinality(Active) < MAX_ACTIVE_REQUESTS
  /\ Begins(w, Open("create", id, "none", "requested"))

(* cancel_request: only a pending request. *)
cancel_request(w, id) ==
  /\ requests[id] \in ACTIVE_STATUSES
  /\ Begins(w, Open("delete", id, requests[id], "deleted"))

(* admin delete_loan_request: whatever the status. *)
delete_loan_request(w, id) ==
  /\ Exists(id)
  /\ Begins(w, Open("delete", id, requests[id], "deleted"))

OpensAccount(t) == t # Idle /\ t.op = "review" /\ t.to = "approved"

Approving(id) == {w \in Workers : OpensAccount(tx[w]) /\ tx[w].id = id}

(* review_request: whatever the status.  MaxAccounts bounds the approvals. *)
review_request(w, id, status) ==
  /\ Exists(id)
  /\ status = "approved" => accounts[id] + Cardinality(Approving(id)) < MaxAccounts
  /\ Begins(w, Open("review", id, requests[id], status))

(* open_request writes only a request that it read as "requested". *)
open_request(w, id) ==
  /\ requests[id] = "requested"
  /\ Begins(w, Open("open", id, "requested", "under_review"))

-----------------------------------------------------------------------------
(* The writes *)

(* Broken variant: a row that was read is locked against other writers.    *)
LockedByReader(id, w) == \E v \in Workers \ {w} : Busy(v) /\ tx[v].id = id

Locked(id, w) == \E v \in Workers \ {w} : /\ tx[v].phase = "written"
                                          /\ tx[v].id = id

(* Broken variant: a row that is gone does not fail the flush.             *)
FlushUnchecked(w) ==
  /\ tx[w].phase = "read"
  /\ ~Locked(tx[w].id, w)
  /\ tx' = [tx EXCEPT ![w].phase = "written"]
  /\ UNCHANGED <<requests, accounts>>

(* Broken variant: the new status is committed on its own, first.          *)
FlushCommits(w) ==
  /\ tx[w].phase = "read"
  /\ ~Locked(tx[w].id, w)
  /\ tx' = [tx EXCEPT ![w].phase = "written"]
  /\ requests' = [requests EXCEPT ![tx[w].id] = tx[w].to]
  /\ UNCHANGED accounts

(* The flush waits for the row's lock.  A row that has been deleted since  *)
(* it was read fails an UPDATE (no row matched) and the request rolls      *)
(* back; a DELETE of it has nothing left to do.                            *)
Flush(w) ==
  /\ tx[w].phase = "read"
  /\ ~Locked(tx[w].id, w)
  /\ tx' = [tx EXCEPT ![w] = IF requests[tx[w].id] = "deleted" THEN Idle
                             ELSE [@ EXCEPT !.phase = "written"]]
  /\ UNCHANGED <<requests, accounts>>

(* The UPDATE carries the status only if it differs from the one that was  *)
(* read: the ORM writes the columns that changed.                          *)
NewStatus(t) == IF t.to = t.seen THEN requests[t.id] ELSE t.to

(* Broken variant: an approval that is answered twice opens two accounts.  *)
CommitTwoAccounts(w) ==
  LET t == tx[w]
  IN  /\ t.phase = "written"
      /\ requests' = [requests EXCEPT ![t.id] = NewStatus(t)]
      /\ accounts' = [accounts EXCEPT ![t.id] =
                        IF OpensAccount(t) THEN @ + 2 ELSE @]
      /\ tx' = [tx EXCEPT ![w] = Idle]

(* An approval creates the account in the same transaction.                *)
Commit(w) ==
  LET t == tx[w]
  IN  /\ t.phase = "written"
      /\ requests' = [requests EXCEPT ![t.id] = NewStatus(t)]
      /\ accounts' = [accounts EXCEPT ![t.id] =
                        IF OpensAccount(t) THEN @ + 1 ELSE @]
      /\ tx' = [tx EXCEPT ![w] = Idle]

(* Any failure on the way (an approval without rate or cycle, a lost       *)
(* connection, a process that dies) leaves nothing behind.                 *)
Rollback(w) ==
  /\ Busy(w)
  /\ tx' = [tx EXCEPT ![w] = Idle]
  /\ UNCHANGED <<requests, accounts>>

-----------------------------------------------------------------------------
Next ==
  \E w \in Workers :
    \/ \E id \in Requests :
         \/ create_request(w, id) \/ cancel_request(w, id)
         \/ delete_loan_request(w, id) \/ open_request(w, id)
         \/ \E s \in ReviewStatuses : review_request(w, id, s)
    \/ Flush(w) \/ Commit(w) \/ Rollback(w)

(* A handler that has started runs to its end unless it fails; a row's     *)
(* lock goes in turn to the transactions that wait for it.  A failure is   *)
(* never counted on.                                                       *)
Fairness == \A w \in Workers : SF_vars(Flush(w)) /\ WF_vars(Commit(w))

Spec == Init /\ [][Next]_vars
LiveSpec == Spec /\ Fairness

-----------------------------------------------------------------------------
Transaction ==
  [phase : {"read", "written"}, op : {"create", "delete", "review", "open"},
   id : Requests, seen : Statuses \union {"none"},
   to : Statuses \union {"deleted"}]

TypeOK ==
  /\ requests \in [Requests -> Statuses \union {"none", "deleted"}]
  /\ accounts \in [Requests -> 0..MaxAccounts]
  /\ tx \in [Workers -> Transaction \union {Idle}]

(* A request never shows as approved without the account it promises, even *)
(* if the request fails half way or another review overtakes it.           *)
ApprovedHasAccount ==
  \A id \in Requests : requests[id] = "approved" => accounts[id] > 0

(* No account is opened from a request that has been cancelled or deleted, *)
(* even when the deletion overtakes an approval in progress.               *)
NoAccountFromDeleted ==
  [][\A id \in Requests : accounts'[id] # accounts[id] => Exists(id) /\ Exists(id)']_vars

(* Every endpoint answers: two of them never wait for each other's lock.   *)
EveryRequestAnswered == \A w \in Workers : Busy(w) ~> ~Busy(w)
=============================================================================
