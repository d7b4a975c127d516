-------------------------- MODULE LoanRequestsProofs --------------------------
(***************************************************************************)
(* Proofs about LoanRequests for any number of requests, concurrent        *)
(* transactions and accounts.                                              *)
(***************************************************************************)
EXTENDS LoanRequests, TLAPS, FiniteSetTheorems

Typed ==
  /\ requests \in [Requests -> Statuses \union {"none", "deleted"}]
  /\ accounts \in [Requests -> Nat]
  /\ tx \in [Workers -> Transaction \union {Idle}]

(* What a transaction will set follows from its endpoint. *)
TargetOfOp ==
  \A w \in Workers : Busy(w) =>
    /\ tx[w].op = "review" => tx[w].to \in ReviewStatuses
    /\ tx[w].to = "approved" => tx[w].op = "review"
    /\ tx[w].op = "create" => tx[w].seen = "none"

(* Only the transaction that creates a row works on one that is not there. *)
RowWasRead ==
  \A w \in Workers : Busy(w) /\ tx[w].op # "create" => requests[tx[w].id] # "none"

(* Two transactions never hold the lock of one row. *)
LocksExclude ==
  \A v, w \in Workers :
    tx[v].phase = "written" /\ tx[w].phase = "written" /\ tx[v].id = tx[w].id => v = w

(* The row a transaction has locked is still there. *)
LockedRowStays ==
  \A w \in Workers : tx[w].phase = "written" => requests[tx[w].id] # "deleted"

IInv == /\ Typed /\ TargetOfOp /\ RowWasRead /\ LocksExclude /\ LockedRowStays
        /\ ApprovedHasAccount

-----------------------------------------------------------------------------
(* The initial state satisfies the invariant: nothing has been requested.  *)
LEMMA InvariantInit == Init => IInv
BY DEF Init, IInv, Typed, TargetOfOp, RowWasRead, LocksExclude, LockedRowStays,
       ApprovedHasAccount, Busy, Idle

(* What the first query of each endpoint leaves in its transaction.        *)
LEMMA BeginsKeeps ==
  ASSUME IInv, NEW w \in Workers, NEW op \in {"create", "delete", "review", "open"},
         NEW id \in Requests, NEW seen \in Statuses \union {"none"},
         NEW to \in Statuses \union {"deleted"},
         Begins(w, Open(op, id, seen, to)),
         op = "review" => to \in ReviewStatuses,
         to = "approved" => op = "review",
         op = "create" => seen = "none",
         op # "create" => requests[id] # "none"
  PROVE  IInv'
<1> DEFINE t == Open(op, id, seen, to)
<1>1. /\ tx' = [tx EXCEPT ![w] = t]
      /\ requests' = requests /\ accounts' = accounts
  BY DEF Begins
<1>2. t \in Transaction /\ t # Idle /\ t.phase = "read" /\ t.op = op /\ t.id = id
        /\ t.to = to /\ t.seen = seen
  BY DEF Open, Transaction, Idle
<1>3. tx \in [Workers -> Transaction \union {Idle}]
  BY DEF IInv, Typed
<1>4. \A v \in Workers : tx'[v] = IF v = w THEN t ELSE tx[v]
  BY <1>1, <1>3
<1> HIDE DEF t
<1>5. Typed'
  BY <1>1, <1>2, <1>3 DEF IInv, Typed
<1>6. TargetOfOp' /\ RowWasRead'
  BY <1>1, <1>2, <1>4 DEF IInv, TargetOfOp, RowWasRead, Busy
<1>7. LocksExclude' /\ LockedRowStays'
  BY <1>1, <1>2, <1>4 DEF IInv, LocksExclude, LockedRowStays
<1>8. ApprovedHasAccount'
  BY <1>1 DEF IInv, ApprovedHasAccount
<1> QED BY <1>5, <1>6, <1>7, <1>8 DEF IInv

(* A flush takes a lock that nobody else holds, on a row that is there.    *)
LEMMA FlushKeeps ==
  ASSUME IInv, NEW w \in Workers, Flush(w)
  PROVE  IInv'
<1>1. tx \in [Workers -> Transaction \union {Idle}]
  BY DEF IInv, Typed
<1>2. requests' = requests /\ accounts' = accounts
  BY DEF Flush
<1>3. tx[w] \in Transaction /\ tx[w] # Idle
  BY <1>1 DEF Flush, Idle
<1> DEFINE t == IF requests[tx[w].id] = "deleted" THEN Idle
                ELSE [tx[w] EXCEPT !.phase = "written"]
<1>4. \A v \in Workers : tx'[v] = IF v = w THEN t ELSE tx[v]
  BY <1>1 DEF Flush
<1>5. \/ t = Idle
      \/ /\ t \in Transaction /\ t # Idle /\ t.phase = "written"
         /\ t.id = tx[w].id /\ t.op = tx[w].op /\ t.to = tx[w].to
         /\ t.seen = tx[w].seen
         /\ requests[t.id] # "deleted"
  BY <1>3 DEF Transaction, Idle
<1>6. \A v \in Workers \ {w} : tx[v].phase = "written" => tx[v].id # tx[w].id
  BY DEF Flush, Locked
<1>6a. Idle.phase # "written"
  BY DEF Idle
<1>6b. tx' \in [Workers -> Transaction \union {Idle}]
  BY <1>1, <1>5 DEF Flush
<1> HIDE DEF t
<1>7. Typed'
  BY <1>2, <1>6b DEF IInv, Typed
<1>8. TargetOfOp' /\ RowWasRead'
  BY <1>2, <1>3, <1>4, <1>5 DEF IInv, TargetOfOp, RowWasRead, Busy
<1>9. LocksExclude' /\ LockedRowStays'
  BY <1>2, <1>4, <1>5, <1>6, <1>6a DEF IInv, LocksExclude, LockedRowStays
<1>10. ApprovedHasAccount'
  BY <1>2 DEF IInv, ApprovedHasAccount
<1> QED BY <1>7, <1>8, <1>9, <1>10 DEF IInv

(* A rolled-back transaction leaves the table alone and gives up its lock. *)
LEMMA RollbackKeeps ==
  ASSUME IInv, NEW w \in Workers, Rollback(w)
  PROVE  IInv'
<1>1. tx \in [Workers -> Transaction \union {Idle}]
  BY DEF IInv, Typed
<1>2. /\ tx' = [tx EXCEPT ![w] = Idle]
      /\ requests' = requests /\ accounts' = accounts
  BY DEF Rollback
<1>3. \A v \in Workers : tx'[v] = IF v = w THEN Idle ELSE tx[v]
  BY <1>1, <1>2
<1>4. Idle.phase # "written"
  BY DEF Idle
<1>5. Typed'
  BY <1>1, <1>2 DEF IInv, Typed
<1>6. TargetOfOp' /\ RowWasRead'
  BY <1>2, <1>3 DEF IInv, TargetOfOp, RowWasRead, Busy
<1>7. LocksExclude' /\ LockedRowStays'
  BY <1>2, <1>3, <1>4 DEF IInv, LocksExclude, LockedRowStays
<1>8. ApprovedHasAccount'
  BY <1>2 DEF IInv, ApprovedHasAccount
<1> QED BY <1>5, <1>6, <1>7, <1>8 DEF IInv

(* A commit writes the row whose lock it holds; an account is opened only  *)
(* with an approval of a row that is there and stays there.                *)
LEMMA CommitKeeps ==
  ASSUME IInv, NEW w \in Workers, Commit(w)
  PROVE  /\ IInv'
         /\ \A id \in Requests : accounts'[id] # accounts[id] =>
              requests[id] \in Statuses /\ requests'[id] \in Statuses
<1> DEFINE t == tx[w]
           new == NewStatus(t)
<1>1. /\ tx \in [Workers -> Transaction \union {Idle}]
      /\ requests \in [Requests -> Statuses \union {"none", "deleted"}]
      /\ accounts \in [Requests -> Nat]
  BY DEF IInv, Typed
<1>2. t \in Transaction /\ t # Idle /\ t.phase = "written"
  BY <1>1 DEF Commit, Idle
<1>3. t.id \in Requests /\ t.to \in Statuses \union {"deleted"}
  BY <1>2 DEF Transaction
<1>4. /\ requests' = [requests EXCEPT ![t.id] = new]
      /\ accounts' = [accounts EXCEPT ![t.id] = IF OpensAccount(t) THEN @ + 1 ELSE @]
      /\ tx' = [tx EXCEPT ![w] = Idle]
  BY DEF Commit
<1>5. /\ \A v \in Workers : tx'[v] = IF v = w THEN Idle ELSE tx[v]
      /\ \A id \in Requests : requests'[id] = IF id = t.id THEN new ELSE requests[id]
      /\ \A id \in Requests :
           accounts'[id] = IF id = t.id /\ OpensAccount(t) THEN accounts[id] + 1
                           ELSE accounts[id]
  BY <1>1, <1>3, <1>4
<1>6. new \in {requests[t.id], t.to} /\ new # "none"
  <2>1. t.op = "create" => t.to # t.seen
    BY <1>2, <1>3 DEF IInv, TargetOfOp, Busy, Statuses, ACTIVE_STATUSES
  <2>2. t.op # "create" => requests[t.id] # "none"
    BY <1>2 DEF IInv, RowWasRead, Busy
  <2>3. t.to # "none"
    BY <1>3 DEF Statuses, ACTIVE_STATUSES
  <2>4. new = IF t.to = t.seen THEN requests[t.id] ELSE t.to
    BY DEF NewStatus
  <2> QED BY <2>1, <2>2, <2>3, <2>4
<1>7. \A v \in Workers \ {w} : tx[v].phase = "written" => tx[v].id # t.id
  BY <1>2 DEF IInv, LocksExclude
<1>8. OpensAccount(t) => t.to = "approved" /\ requests[t.id] \in Statuses
                          /\ new \in Statuses
  <2>1. OpensAccount(t) => t.op = "review" /\ t.to = "approved"
    BY DEF OpensAccount
  <2>2. OpensAccount(t) => requests[t.id] \notin {"none", "deleted"}
    BY <1>2, <2>1 DEF IInv, RowWasRead, LockedRowStays, Busy
  <2>3. "approved" \in Statuses
    BY DEF Statuses
  <2> QED BY <1>1, <1>3, <1>6, <2>1, <2>2, <2>3
<1>9. t.to = "approved" => OpensAccount(t)
  BY <1>2 DEF IInv, TargetOfOp, Busy, OpensAccount
<1>10. Idle.phase # "written"
  BY DEF Idle
<1> HIDE DEF t, new
<1>11. Typed'
  <2>1. requests' \in [Requests -> Statuses \union {"none", "deleted"}]
    BY <1>1, <1>3, <1>4, <1>6
  <2>2. accounts' \in [Requests -> Nat]
    BY <1>1, <1>3, <1>4
  <2>3. tx' \in [Workers -> Transaction \union {Idle}]
    BY <1>1, <1>4
  <2> QED BY <2>1, <2>2, <2>3 DEF Typed
<1>12. TargetOfOp'
  BY <1>5 DEF IInv, TargetOfOp, Busy
<1>13. RowWasRead'
  <2> SUFFICES ASSUME NEW v \in Workers, Busy(v)', (tx[v].op # "create")'
               PROVE  (requests[tx[v].id] # "none")'
    BY DEF RowWasRead
  <2>1. v # w /\ tx'[v] = tx[v] /\ tx[v] \in Transaction
    BY <1>1, <1>5 DEF Busy
  <2>2. tx[v].id \in Requests
    BY <2>1 DEF Transaction
  <2>3. requests[tx[v].id] # "none"
    BY <2>1 DEF IInv, RowWasRead, Busy
  <2> QED BY <1>5, <1>6, <2>1, <2>2, <2>3
<1>14. LocksExclude'
  BY <1>5, <1>10 DEF IInv, LocksExclude
<1>15. LockedRowStays'
  <2> SUFFICES ASSUME NEW v \in Workers, (tx[v].phase = "written")'
               PROVE  (requests[tx[v].id] # "deleted")'
    BY DEF LockedRowStays
  <2>1. v # w /\ tx'[v] = tx[v] /\ tx[v] \in Transaction
    BY <1>1, <1>5, <1>10
  <2>2. tx[v].id \in Requests
    BY <2>1 DEF Transaction
  <2> QED BY <1>5, <1>7, <2>1, <2>2 DEF IInv, LockedRowStays
<1>16. ApprovedHasAccount'
  <2> SUFFICES ASSUME NEW id \in Requests, requests'[id] = "approved"
               PROVE  accounts'[id] > 0
    BY DEF ApprovedHasAccount
  <2>1. accounts[id] \in Nat
    BY <1>1
  <2>2. CASE requests[id] = "approved"
    BY <1>5, <2>1, <2>2 DEF IInv, ApprovedHasAccount
  <2>3. CASE requests[id] # "approved"
    <3>1. id = t.id /\ OpensAccount(t)
      BY <1>5, <1>6, <1>9, <2>3
    <3> QED BY <1>5, <2>1, <3>1
  <2> QED BY <2>2, <2>3
<1>17. \A id \in Requests : accounts'[id] # accounts[id] =>
         requests[id] \in Statuses /\ requests'[id] \in Statuses
  BY <1>5, <1>8
<1> QED BY <1>11, <1>12, <1>13, <1>14, <1>15, <1>16, <1>17 DEF IInv

(* Every step keeps the invariant, and opens an account only for a request *)
(* that exists before and after it.                                        *)
LEMMA StepKeeps ==
  ASSUME IInv, [Next]_vars
  PROVE  /\ IInv'
         /\ \A id \in Requests : accounts'[id] # accounts[id] =>
              Exists(id) /\ Exists(id)'
<1> USE DEF Exists
<1>1. CASE UNCHANGED vars
  BY <1>1 DEF vars, IInv, Typed, TargetOfOp, RowWasRead, LocksExclude,
              LockedRowStays, ApprovedHasAccount, Busy
<1>2. CASE \E w \in Workers, id \in Requests :
             \/ create_request(w, id) \/ cancel_request(w, id)
             \/ delete_loan_request(w, id) \/ open_request(w, id)
             \/ \E s \in ReviewStatuses : review_request(w, id, s)
  <2>1. PICK w \in Workers, id \in Requests :
             \/ create_request(w, id) \/ cancel_request(w, id)
             \/ delete_loan_request(w, id) \/ open_request(w, id)
             \/ \E s \in ReviewStatuses : review_request(w, id, s)
    BY <1>2
  <2>2. accounts' = accounts
    BY <2>1 DEF create_request, cancel_request, delete_loan_request, open_request,
                review_request, Begins
  <2>3. /\ ReviewStatuses \subseteq Statuses /\ ACTIVE_STATUSES \subseteq Statuses
        /\ "requested" \in Statuses /\ "under_review" \in Statuses
        /\ "none" \notin Statuses
        /\ "approved" \notin {"requested", "under_review", "deleted"}
    BY DEF ReviewStatuses, ACTIVE_STATUSES, Statuses
  <2>4. CASE create_request(w, id)
    <3>1. Begins(w, Open("create", id, "none", "requested"))
      BY <2>4 DEF create_request
    <3>2. IInv'
      BY <3>1, <2>3, BeginsKeeps
    <3> QED BY <2>2, <3>2
  <2>5. CASE cancel_request(w, id) \/ delete_loan_request(w, id)
    <3>1. /\ Begins(w, Open("delete", id, requests[id], "deleted"))
          /\ requests[id] \in Statuses
      BY <2>3, <2>5 DEF cancel_request, delete_loan_request
    <3>2. IInv'
      BY <3>1, <2>3, BeginsKeeps
    <3> QED BY <2>2, <3>2
  <2>6. CASE open_request(w, id)
    <3>1. /\ Begins(w, Open("open", id, "requested", "under_review"))
          /\ requests[id] = "requested"
      BY <2>6 DEF open_request
    <3>2. IInv'
      BY <3>1, <2>3, BeginsKeeps
    <3> QED BY <2>2, <3>2
  <2>7. CASE \E s \in ReviewStatuses : review_request(w, id, s)
    <3>1. PICK s \in ReviewStatuses : review_request(w, id, s)
      BY <2>7
    <3>2. /\ Begins(w, Open("review", id, requests[id], s))
          /\ requests[id] \in Statuses
      BY <3>1 DEF review_request
    <3>3. IInv'
      BY <3>2, <2>3, BeginsKeeps
    <3> QED BY <2>2, <3>3
  <2> QED BY <2>1, <2>4, <2>5, <2>6, <2>7
<1>3. CASE \E w \in Workers : Flush(w)
  <2>1. accounts' = accounts
    BY <1>3 DEF Flush
  <2> QED BY <1>3, <2>1, FlushKeeps
<1>4. CASE \E w \in Workers : Commit(w)
  BY <1>4, CommitKeeps
<1>5. CASE \E w \in Workers : Rollback(w)
  <2>1. accounts' = accounts
    BY <1>5 DEF Rollback
  <2> QED BY <1>5, <2>1, RollbackKeeps
<1> QED BY <1>1, <1>2, <1>3, <1>4, <1>5 DEF Next

(* A request that shows as approved has its account, whatever transactions *)
(* overtake or fail: approve, its account and the status are one commit.   *)
THEOREM ApprovedAlwaysHasAccount == Spec => []ApprovedHasAccount
<1>1. Init => IInv
  BY InvariantInit
<1>2. IInv /\ [Next]_vars => IInv'
  BY StepKeeps
<1>3. IInv => ApprovedHasAccount
  BY DEF IInv
<1> QED BY <1>1, <1>2, <1>3, PTL DEF Spec

(* No account is ever opened from a request that has been cancelled or     *)
(* deleted, even when the deletion overtakes the approval.                 *)
THEOREM NeverAccountFromDeleted == Spec => NoAccountFromDeleted
<1>1. Init => IInv
  BY InvariantInit
<1>2. IInv /\ [Next]_vars => IInv'
  BY StepKeeps
<1>3. IInv /\ [Next]_vars =>
        [\A id \in Requests : accounts'[id] # accounts[id] =>
                                Exists(id) /\ Exists(id)']_vars
  BY StepKeeps
<1> QED BY <1>1, <1>2, <1>3, PTL DEF Spec, NoAccountFromDeleted

-----------------------------------------------------------------------------
(* Approvals in progress count towards the bound before they are committed. *)
ApprovalsBounded ==
  \A id \in Requests : accounts[id] + Cardinality(Approving(id)) <= MaxAccounts

(* What a step of worker w makes of the approvals in progress. *)
LEMMA ApprovingAfter ==
  ASSUME Typed, NEW w \in Workers, NEW t, tx' = [tx EXCEPT ![w] = t], NEW id
  PROVE  /\ Approving(id) \subseteq Workers /\ IsFiniteSet(Approving(id))
         /\ Approving(id)' = (Approving(id) \ {w})
              \union (IF OpensAccount(t) /\ t.id = id THEN {w} ELSE {})
<1>1. \A v \in Workers : tx'[v] = IF v = w THEN t ELSE tx[v]
  BY DEF Typed
<1>2. Approving(id) \subseteq Workers
  BY DEF Approving
<1>3. IsFiniteSet(Approving(id))
  BY <1>2, RequestsAssumption, FS_Subset
<1>4. Approving(id)' = {v \in Workers : OpensAccount(tx'[v]) /\ tx'[v].id = id}
  BY DEF Approving, OpensAccount
<1>5. Approving(id)' = (Approving(id) \ {w})
        \union (IF OpensAccount(t) /\ t.id = id THEN {w} ELSE {})
  BY <1>1, <1>4 DEF Approving
<1> QED BY <1>2, <1>3, <1>5

(* A transaction that opens no account leaves room. *)
LEMMA NotApproving ==
  ASSUME Typed, ApprovalsBounded, NEW w \in Workers, NEW t, tx' = [tx EXCEPT ![w] = t],
         accounts' = accounts, OpensAccount(t) => OpensAccount(tx[w]) /\ t.id = tx[w].id
  PROVE  ApprovalsBounded'
<1> SUFFICES ASSUME NEW id \in Requests
             PROVE  accounts'[id] + Cardinality(Approving(id)') <= MaxAccounts
  BY DEF ApprovalsBounded
<1>1. /\ IsFiniteSet(Approving(id))
      /\ Approving(id)' = (Approving(id) \ {w})
           \union (IF OpensAccount(t) /\ t.id = id THEN {w} ELSE {})
  BY ApprovingAfter
<1>2. Approving(id)' \subseteq Approving(id)
  BY <1>1 DEF Approving
<1> DEFINE A == Approving(id)
           B == Approving(id)'
<1> HIDE DEF A, B
<1>3. B \subseteq A /\ IsFiniteSet(A)
  BY <1>1, <1>2 DEF A, B
<1>4. /\ Cardinality(B) <= Cardinality(A)
      /\ Cardinality(B) \in Nat /\ Cardinality(A) \in Nat
  BY <1>3, FS_Subset, FS_CardinalityType
<1>5. accounts[id] + Cardinality(A) <= MaxAccounts /\ accounts[id] \in Nat
  BY DEF ApprovalsBounded, Typed, A
<1>6. accounts[id] + Cardinality(B) <= MaxAccounts
  BY <1>4, <1>5, RequestsAssumption
<1> QED BY <1>6 DEF B

LEMMA ApprovalBegins ==
  ASSUME Typed, ApprovalsBounded, NEW w \in Workers, NEW id \in Requests, NEW s,
         review_request(w, id, s)
  PROVE  ApprovalsBounded'
<1> DEFINE t == Open("review", id, requests[id], s)
<1>1. tx[w] = Idle /\ tx' = [tx EXCEPT ![w] = t] /\ accounts' = accounts
  BY DEF review_request, Begins
<1>2. t.id = id /\ (OpensAccount(t) => s = "approved")
  BY DEF Open, OpensAccount
<1>3. s = "approved" => accounts[id] + Cardinality(Approving(id)) < MaxAccounts
  BY DEF review_request
<1> HIDE DEF t
<1>4. CASE ~OpensAccount(t)
  BY <1>1, <1>4, NotApproving
<1>5. CASE OpensAccount(t)
  <2> SUFFICES ASSUME NEW i \in Requests
               PROVE  accounts'[i] + Cardinality(Approving(i)') <= MaxAccounts
    BY DEF ApprovalsBounded
  <2> DEFINE A == Approving(i)
             B == Approving(i)'
  <2>1. /\ IsFiniteSet(Approving(i))
        /\ Approving(i)' = (Approving(i) \ {w})
             \union (IF OpensAccount(t) /\ t.id = i THEN {w} ELSE {})
    BY <1>1, ApprovingAfter
  <2>2. w \notin Approving(i)
    BY <1>1 DEF Approving, OpensAccount
  <2>3. accounts[i] + Cardinality(A) <= MaxAccounts /\ accounts[i] \in Nat
    BY DEF ApprovalsBounded, Typed
  <2>4. i = id => accounts[i] + Cardinality(A) < MaxAccounts
    BY <1>2, <1>3, <1>5
  <2>5. IsFiniteSet(A) /\ B = (IF i = id THEN A \union {w} ELSE A) /\ w \notin A
    BY <1>2, <1>5, <2>1, <2>2
  <2> HIDE DEF A, B
  <2>6. /\ Cardinality(A) \in Nat
        /\ Cardinality(B) = IF i = id THEN Cardinality(A) + 1 ELSE Cardinality(A)
    BY <2>5, FS_AddElement, FS_CardinalityType
  <2>7. accounts[i] + Cardinality(B) <= MaxAccounts
    BY <2>3, <2>4, <2>6, RequestsAssumption
  <2> QED BY <1>1, <2>7 DEF B
<1> QED BY <1>4, <1>5

LEMMA CommitBounded ==
  ASSUME Typed, ApprovalsBounded, NEW w \in Workers, Commit(w)
  PROVE  ApprovalsBounded'
<1> DEFINE t == tx[w]
<1>1. /\ tx' = [tx EXCEPT ![w] = Idle]
      /\ accounts' = [accounts EXCEPT ![t.id] = IF OpensAccount(t) THEN @ + 1 ELSE @]
  BY DEF Commit
<1>2. ~OpensAccount(Idle)
  BY DEF OpensAccount
<1>3. accounts \in [Requests -> Nat]
  BY DEF Typed
<1> SUFFICES ASSUME NEW id \in Requests
             PROVE  accounts'[id] + Cardinality(Approving(id)') <= MaxAccounts
  BY DEF ApprovalsBounded
<1> DEFINE A == Approving(id)
           B == Approving(id)'
           mine == OpensAccount(t) /\ t.id = id
<1>4. IsFiniteSet(A) /\ B = A \ {w}
  <2>1. /\ IsFiniteSet(Approving(id))
        /\ Approving(id)' = (Approving(id) \ {w})
             \union (IF OpensAccount(Idle) /\ Idle.id = id THEN {w} ELSE {})
    <3>1. tx' = [tx EXCEPT ![w] = Idle]
      BY <1>1
    <3> QED BY ONLY Typed, w \in Workers, <3>1, ApprovingAfter
  <2> QED BY <1>2, <2>1
<1>5. w \in A <=> mine
  BY DEF Approving
<1>6. accounts'[id] = IF mine THEN accounts[id] + 1 ELSE accounts[id]
  BY <1>1, <1>3
<1>7. accounts[id] + Cardinality(A) <= MaxAccounts /\ accounts[id] \in Nat
  BY <1>3 DEF ApprovalsBounded
<1> HIDE DEF A, B, mine
<1>8. /\ Cardinality(A) \in Nat
      /\ Cardinality(B) = IF mine THEN Cardinality(A) - 1 ELSE Cardinality(A)
  BY <1>4, <1>5, FS_RemoveElement, FS_CardinalityType
<1>9. accounts'[id] + Cardinality(B) <= MaxAccounts
  BY <1>6, <1>7, <1>8, RequestsAssumption
<1> QED BY <1>9 DEF B

LEMMA BoundKept ==
  ASSUME Typed, ApprovalsBounded, [Next]_vars
  PROVE  ApprovalsBounded'
<1>1. CASE UNCHANGED vars
  BY <1>1 DEF vars, ApprovalsBounded, Approving, OpensAccount
<1>2. ASSUME NEW w \in Workers, NEW id \in Requests,
             \/ create_request(w, id) \/ cancel_request(w, id)
             \/ delete_loan_request(w, id) \/ open_request(w, id)
      PROVE  ApprovalsBounded'
  <2>1. \E t : /\ tx' = [tx EXCEPT ![w] = t] /\ accounts' = accounts
               /\ ~OpensAccount(t)
    BY <1>2 DEF create_request, cancel_request, delete_loan_request, open_request,
                Begins, Open, OpensAccount
  <2> QED BY <2>1, NotApproving
<1>3. ASSUME NEW w \in Workers, Flush(w)
      PROVE  ApprovalsBounded'
  <2> DEFINE t == IF requests[tx[w].id] = "deleted" THEN Idle
                  ELSE [tx[w] EXCEPT !.phase = "written"]
  <2>1. tx' = [tx EXCEPT ![w] = t] /\ accounts' = accounts /\ tx[w].phase = "read"
    BY <1>3 DEF Flush
  <2>2. tx[w] \in Transaction
    BY <2>1 DEF Typed, Idle
  <2>3. OpensAccount(t) => OpensAccount(tx[w]) /\ t.id = tx[w].id
    BY <2>2 DEF OpensAccount, Transaction, Idle
  <2> HIDE DEF t
  <2> QED BY <2>1, <2>3, NotApproving
<1>4. ASSUME NEW w \in Workers, Rollback(w)
      PROVE  ApprovalsBounded'
  <2>1. tx' = [tx EXCEPT ![w] = Idle] /\ accounts' = accounts /\ ~OpensAccount(Idle)
    BY <1>4 DEF Rollback, OpensAccount
  <2> QED BY <2>1, NotApproving
<1> QED BY <1>1, <1>2, <1>3, <1>4, ApprovalBegins, CommitBounded DEF Next

(* The table, the counts and the open transactions keep their types: no    *)
(* endpoint sets a status that is not one, and however approvals of one    *)
(* request interleave, none of them opens an account it did not count.     *)
THEOREM TypesAlways == Spec => []TypeOK
<1>1. Init => IInv /\ ApprovalsBounded
  <2>1. ASSUME Init PROVE ApprovalsBounded
    <3>1. \A id \in Requests : accounts[id] = 0 /\ Approving(id) = {}
      BY <2>1 DEF Init, Approving, OpensAccount
    <3> QED BY <3>1, FS_EmptySet, RequestsAssumption DEF ApprovalsBounded
  <2> QED BY <2>1, InvariantInit
<1>2. IInv /\ ApprovalsBounded /\ [Next]_vars => (IInv /\ ApprovalsBounded)'
  BY StepKeeps, BoundKept DEF IInv
<1>3. IInv /\ ApprovalsBounded => TypeOK
  <2> SUFFICES ASSUME IInv, ApprovalsBounded, NEW id \in Requests
               PROVE  accounts[id] \in 0..MaxAccounts
    BY DEF IInv, Typed, TypeOK
  <2> DEFINE A == Approving(id)
  <2>1. A \subseteq Workers
    BY DEF Approving
  <2>2. accounts[id] \in Nat /\ accounts[id] + Cardinality(A) <= MaxAccounts
    BY DEF IInv, Typed, ApprovalsBounded
  <2> HIDE DEF A
  <2>3. Cardinality(A) \in Nat
    BY <2>1, RequestsAssumption, FS_Subset, FS_CardinalityType
  <2> QED BY <2>2, <2>3, RequestsAssumption
<1> QED BY <1>1, <1>2, <1>3, PTL DEF Spec
=============================================================================
