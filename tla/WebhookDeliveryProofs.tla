------------------------- MODULE WebhookDeliveryProofs -------------------------
(***************************************************************************)
(* Proofs about WebhookDelivery, for any number of events, configs and     *)
(* server processes and any retry limit: the limit on attempts, that what  *)
(* is settled stays settled, and that no event is given up untried.        *)
(***************************************************************************)
EXTENDS WebhookDelivery, TLAPS

Max == WEBHOOK_MAX_RETRIES

(* An event that may be given up: its attempts were made, or none could be. *)
Tried(e, sn, rf) == sn[e] >= Max \/ e \in rf

(* The attempts of a count were made, whichever process made them. *)
Counted(n, e, sn, rf) == n <= sn[e] \/ e \in rf

Gone(e, st) == st[e] \in {"none", "deleted"}

(* A batch: what is still to deliver is as it was loaded, below the limit; *)
(* what is flushed still has its row; and what is to be given up was tried *)
(* unless its row is gone.                                                 *)
BatchGood(t, es, st, sn, rf) ==
  /\ t \in BatchOf(es) /\ t.dirty \cap t.batch = {}
  /\ \A e \in t.batch : t.event[e].attempt_count < Max /\ t.event[e].status = "pending"
  /\ \A e \in es : /\ st[e] # "none"
                   /\ Counted(t.event[e].attempt_count, e, sn, rf)
  /\ \A e \in t.locked : st[e] # "deleted"
  /\ \A e \in es : t.event[e].status = "failed" =>
                     Tried(e, sn, rf) \/ (e \in t.dirty /\ st[e] = "deleted")

WorkerGood(t, st, sn, rf) ==
  t \in {Idle, Down} \/ \E es \in SUBSET Events : BatchGood(t, es, st, sn, rf)

RowsTyped ==
  /\ configs \subseteq Configs
  /\ status \in [Events -> {"none", "pending", "deleted"} \union Settled]
  /\ attempt_count \in [Events -> Counts]
  /\ sends \in [Events -> Counts]
  /\ refused \subseteq Events
  /\ DOMAIN worker = Workers

(* The rows agree with what was sent, and a row without config is gone. *)
RowsGood ==
  \A e \in Events : /\ Counted(attempt_count[e], e, sends, refused)
                    /\ status[e] = "failed" => Tried(e, sends, refused)
                    /\ ConfigOf[e] \notin configs => Gone(e, status)

Inv == /\ RowsTyped
       /\ RowsGood
       /\ \A w \in Workers : WorkerGood(worker[w], status, sends, refused)

-----------------------------------------------------------------------------
LEMMA MaxNat == Max \in Nat \ {0} /\ Counts = 0..Max /\ ConfigOf \in [Events -> Configs]
BY DeliveryAssumption DEF Max, Counts

LEMMA Phases ==
  ASSUME NEW t, NEW st, NEW sn, NEW rf, WorkerGood(t, st, sn, rf),
         t.phase \in {"delivering", "flushing"}
  PROVE  \E es \in SUBSET Events : BatchGood(t, es, st, sn, rf)
BY DEF WorkerGood, Idle, Down

(* A batch is not disturbed by what others do: more requests, more         *)
(* refusals, rows deleted that it has not flushed.                         *)
LEMMA WorkerStable ==
  ASSUME NEW t, NEW st, NEW sn, NEW rf, NEW st2, NEW sn2, NEW rf2,
         WorkerGood(t, st, sn, rf),
         sn \in [Events -> Counts], sn2 \in [Events -> Counts], rf \subseteq rf2,
         \A e \in Events : /\ sn[e] <= sn2[e]
                           /\ st2[e] = "none" => st[e] = "none"
                           /\ st[e] = "deleted" => st2[e] = "deleted"
                           /\ t.phase \in {"delivering", "flushing"} /\ e \in t.locked
                              /\ st2[e] = "deleted" => st[e] = "deleted"
  PROVE  WorkerGood(t, st2, sn2, rf2)
<1>1. CASE t \in {Idle, Down}
  BY <1>1 DEF WorkerGood
<1>2. ASSUME NEW es \in SUBSET Events, BatchGood(t, es, st, sn, rf)
      PROVE  BatchGood(t, es, st2, sn2, rf2)
  <2>1. t \in BatchOf(es) /\ t.phase \in {"delivering", "flushing"} /\ t.locked \subseteq es
        /\ t.dirty \subseteq es /\ t.event \in [es -> [status : {"pending"} \union Settled,
                                                       attempt_count : Counts]]
    BY <1>2 DEF BatchGood, BatchOf
  <2>2. \A e \in es : /\ Counted(t.event[e].attempt_count, e, sn2, rf2)
                      /\ Tried(e, sn, rf) => Tried(e, sn2, rf2)
    BY <1>2, <2>1, MaxNat DEF BatchGood, Counted, Tried
  <2> QED
    BY <1>2, <2>1, <2>2 DEF BatchGood
<1> QED
  BY <1>1, <1>2 DEF WorkerGood

(* A process takes a step that writes no row. *)
LEMMA OwnStep ==
  ASSUME Inv, NEW w \in Workers, NEW t,
         worker' = [worker EXCEPT ![w] = t],
         sends' \in [Events -> Counts], refused \subseteq refused', refused' \subseteq Events,
         \A e \in Events : sends[e] <= sends'[e],
         WorkerGood(t, status, sends', refused'), UNCHANGED rows
  PROVE  Inv'
<1>1. RowsTyped'
  BY DEF Inv, RowsTyped, rows
<1>2. RowsGood'
  BY MaxNat DEF Inv, RowsTyped, RowsGood, Counted, Tried, Gone, rows
<1>3. \A v \in Workers : WorkerGood(worker'[v], status, sends', refused')
  <2>1. \A v \in Workers \ {w} : WorkerGood(worker[v], status, sends', refused')
    BY WorkerStable DEF Inv, RowsTyped
  <2> QED
    BY <2>1 DEF Inv, RowsTyped
<1> QED
  BY <1>1, <1>2, <1>3 DEF Inv, rows

LEMMA QuietStep ==
  ASSUME Inv, NEW w \in Workers, NEW t, WorkerGood(t, status, sends, refused),
         worker' = [worker EXCEPT ![w] = t], UNCHANGED <<rows, history>>
  PROVE  Inv'
<1>1. sends' = sends /\ refused' = refused /\ UNCHANGED rows
  BY DEF history
<1>2. sends \in [Events -> Counts] /\ refused \subseteq Events
  BY DEF Inv, RowsTyped
<1>3. \A e \in Events : sends[e] <= sends'[e]
  BY <1>1, <1>2, MaxNat
<1> QED
  BY <1>1, <1>2, <1>3, OwnStep

LEMMA StopStep ==
  ASSUME Inv, NEW w \in Workers, NEW t \in {Idle, Down},
         worker' = [worker EXCEPT ![w] = t], UNCHANGED <<rows, history>>
  PROVE  Inv'
BY QuietStep DEF WorkerGood

LEMMA EnqueueStep ==
  ASSUME Inv, NEW e \in Events, Enqueue(e)
  PROVE  Inv'
<1> USE DEF Inv, RowsTyped
<1>1. /\ status[e] = "none" /\ ConfigOf[e] \in configs
      /\ status' = [status EXCEPT ![e] = "pending"]
      /\ UNCHANGED <<configs, attempt_count, worker, sends, refused>>
  BY DEF Enqueue, history
<1>2. RowsTyped'
  BY <1>1
<1>3. RowsGood'
  BY <1>1 DEF RowsGood, Gone
<1>4. ASSUME NEW w \in Workers
      PROVE  WorkerGood(worker[w], status', sends, refused)
  <2>1. \A d \in Events : /\ status'[d] = "none" => status[d] = "none"
                          /\ status[d] = "deleted" => status'[d] = "deleted"
                          /\ status'[d] = "deleted" => status[d] = "deleted"
                          /\ sends[d] <= sends[d]
    BY <1>1, MaxNat
  <2> QED
    BY <2>1, WorkerStable
<1> QED
  BY <1>1, <1>2, <1>3, <1>4

LEMMA DeleteConfigStep ==
  ASSUME Inv, NEW c \in Configs, DeleteConfig(c)
  PROVE  Inv'
<1> USE DEF Inv, RowsTyped
<1>1. /\ \A w \in Workers : Busy(w) => worker[w].locked \cap EventsOf(c) = {}
      /\ configs' = configs \ {c}
      /\ status' = [e \in Events |-> IF e \in EventsOf(c) THEN "deleted" ELSE status[e]]
      /\ UNCHANGED <<attempt_count, worker, sends, refused>>
  BY DEF DeleteConfig, history
<1>2. RowsTyped'
  BY <1>1
<1>3. \A e \in Events : e \in EventsOf(c) <=> ConfigOf[e] = c /\ status[e] # "none"
  BY DEF EventsOf
<1>4. RowsGood'
  BY <1>1, <1>3 DEF RowsGood, Gone
<1>5. ASSUME NEW w \in Workers
      PROVE  WorkerGood(worker[w], status', sends, refused)
  <2>1. \A e \in Events : /\ status'[e] = "none" => status[e] = "none"
                          /\ status[e] = "deleted" => status'[e] = "deleted"
                          /\ sends[e] <= sends[e]
    BY <1>1, MaxNat
  <2>2. \A e \in Events : Busy(w) /\ e \in worker[w].locked /\ status'[e] = "deleted" =>
                            status[e] = "deleted"
    BY <1>1
  <2>3. \A e \in Events :
          worker[w].phase \in {"delivering", "flushing"} /\ e \in worker[w].locked
          /\ status'[e] = "deleted" => status[e] = "deleted"
    BY <2>2 DEF Busy
  <2> QED
    BY <2>1, <2>3, WorkerStable
<1> QED
  BY <1>1, <1>2, <1>4, <1>5

LEMMA WakeStep ==
  ASSUME Inv, NEW w \in Workers, Wake(w)
  PROVE  Inv'
<1> DEFINE E == {e \in Events : Retryable(e)}
           t == Batch(E)
<1>1. worker' = [worker EXCEPT ![w] = t] /\ UNCHANGED <<rows, history>>
  BY DEF Wake
<1>2. /\ t.batch = E /\ t.dirty = {} /\ t.locked = {}
      /\ \A e \in E : /\ t.event[e].status = "pending"
                       /\ t.event[e].attempt_count = attempt_count[e]
  BY DEF Batch
<1>3. t \in BatchOf(E)
  BY DEF Batch, BatchOf, Inv, RowsTyped
<1>4. /\ E \in SUBSET Events
      /\ \A e \in E : status[e] = "pending" /\ attempt_count[e] < Max
  BY DEF Retryable, Max
<1> HIDE DEF t, E
<1>5. BatchGood(t, E, status, sends, refused)
  <2>1. \A e \in E : Counted(t.event[e].attempt_count, e, sends, refused)
    <3> SUFFICES ASSUME NEW e \in E
                 PROVE  Counted(t.event[e].attempt_count, e, sends, refused)
      OBVIOUS
    <3>1. Counted(attempt_count[e], e, sends, refused)
      BY <1>4 DEF Inv, RowsGood
    <3>2. t.event[e].attempt_count = attempt_count[e]
      BY <1>2
    <3> QED
      BY <3>1, <3>2
  <2> QED
    BY <1>2, <1>3, <1>4, <2>1 DEF BatchGood
<1>6. WorkerGood(t, status, sends, refused)
  BY <1>4, <1>5 DEF WorkerGood
<1> QED
  BY <1>1, <1>6, QuietStep
LEMMA OrphanedStep ==
  ASSUME Inv, NEW w \in Workers, NEW e \in Events, Orphaned(w, e)
  PROVE  Inv'
<1> DEFINE s == worker[w]
           t == [s EXCEPT !.batch = s.batch \ {e}, !.dirty = s.dirty \union {e},
                          !.event[e].status = "failed"]
<1>1. worker' = [worker EXCEPT ![w] = t] /\ UNCHANGED <<rows, history>>
  BY DEF Orphaned
<1>2. PICK es \in SUBSET Events : BatchGood(s, es, status, sends, refused)
  BY Phases DEF Inv, Orphaned
<1>3. s \in BatchOf(es) /\ e \in s.batch /\ e \in es /\ status[e] = "deleted"
  BY <1>2 DEF Orphaned, BatchGood, BatchOf, Inv, RowsGood, Gone
<1> HIDE DEF s
<1>4. /\ t \in BatchOf(es) /\ t.batch = s.batch \ {e} /\ t.dirty = s.dirty \union {e}
      /\ t.locked = s.locked /\ t.event[e].status = "failed"
      /\ t.event[e].attempt_count = s.event[e].attempt_count
      /\ \A d \in es \ {e} : t.event[d] = s.event[d]
  BY ZenonT(30), <1>3 DEF BatchOf, Settled
<1> HIDE DEF t
<1>5. BatchGood(t, es, status, sends, refused)
  BY <1>2, <1>3, <1>4 DEF BatchGood, BatchOf
<1> QED
  BY <1>1, <1>5, QuietStep DEF WorkerGood

(* A flush: the changed rows are there, and are locked from now on. *)
LEMMA FlushedGood ==
  ASSUME Inv, NEW w \in Workers, Busy(w), ~Vanished(w)
  PROVE  WorkerGood(Flushed(worker[w]), status, sends, refused)
<1> DEFINE s == worker[w]
           t == Flushed(s)
<1>1. PICK es \in SUBSET Events : BatchGood(s, es, status, sends, refused)
  BY Phases DEF Inv, Busy
<1>2. \A e \in s.dirty : status[e] # "deleted"
  BY DEF Vanished
<1> HIDE DEF s
<1>3. s \in BatchOf(es)
  BY <1>1 DEF BatchGood
<1>4. /\ t \in BatchOf(es) /\ t.batch = s.batch /\ t.dirty = {}
      /\ t.locked = s.locked \union s.dirty /\ t.event = s.event
  BY <1>3 DEF Flushed, BatchOf
<1> HIDE DEF t
<1>5. BatchGood(t, es, status, sends, refused)
  BY <1>1, <1>2, <1>4 DEF BatchGood, BatchOf
<1> QED
  BY <1>5 DEF WorkerGood, s, t

LEMMA FlushStep ==
  ASSUME Inv, NEW w \in Workers, Flush(w)
  PROVE  Inv'
<1>1. WorkerGood(Flushed(worker[w]), status, sends, refused)
  BY FlushedGood DEF Flush, Busy
<1> QED
  BY <1>1, QuietStep DEF Flush

(* The victim is back to idle; the other goes on, with the locks. *)
LEMMA DeadlockStep ==
  ASSUME Inv, NEW w \in Workers, NEW v \in Workers, Deadlock(w, v)
  PROVE  Inv'
<1> USE DEF Inv, RowsTyped
<1>1. Busy(w) /\ Busy(v) /\ UNCHANGED <<rows, sends, refused>>
  BY DEF Deadlock, WaitsFor, Busy, history
<1>2. WorkerGood(Granted(v, w), status, sends, refused)
  BY <1>1, FlushedGood DEF Granted
<1>3. /\ DOMAIN worker' = Workers /\ worker'[w] \in {Idle, Granted(v, w)}
      /\ worker'[v] = Granted(v, w)
      /\ \A u \in Workers \ {w, v} : worker'[u] = worker[u]
  BY DEF Deadlock
<1>4. WorkerGood(Idle, status, sends, refused)
  BY DEF WorkerGood
<1>5. \A u \in Workers : WorkerGood(worker'[u], status, sends, refused)
  BY <1>2, <1>3, <1>4
<1> QED
  BY <1>1, <1>3, <1>5 DEF RowsGood, rows

(* An attempt is counted when it is made, or the url was refused. *)
LEMMA DeliverStep ==
  ASSUME Inv, NEW w \in Workers, NEW e \in Events, NEW o \in Outcomes, Deliver(w, e, o)
  PROVE  Inv'
<1> DEFINE s == worker[w]
           n == s.event[e].attempt_count + 1
           x == [status |-> StatusAfter(o, n), attempt_count |-> n]
           t == [s EXCEPT !.phase = "flushing", !.batch = s.batch \ {e},
                          !.dirty = s.dirty \union {e}, !.event[e] = x]
<1>1. worker' = [worker EXCEPT ![w] = t] /\ UNCHANGED rows
  BY ZenonT(30) DEF Deliver, AttemptsAfter
<1>2. PICK es \in SUBSET Events : BatchGood(s, es, status, sends, refused)
  BY Phases DEF Inv, Deliver
<1>3. s \in BatchOf(es) /\ e \in s.batch /\ e \in es /\ status[e] # "none"
      /\ s.event[e].attempt_count \in Counts /\ s.event[e].attempt_count < Max
      /\ Counted(s.event[e].attempt_count, e, sends, refused)
  BY <1>2 DEF Deliver, BatchGood, BatchOf
<1>4. n \in Counts
  BY <1>3, MaxNat
<1>5. /\ sends' \in [Events -> Counts]
      /\ \A d \in Events : sends[d] <= sends'[d]
      /\ o # "unsafe" => sends'[e] = Max \/ sends'[e] = sends[e] + 1
  BY MaxNat DEF Deliver, Inv, RowsTyped, Max
<1>6. refused \subseteq refused' /\ refused' \subseteq Events /\ (o = "unsafe" => e \in refused')
  BY DEF Deliver, Inv, RowsTyped
<1>7. Counted(n, e, sends', refused')
  BY <1>3, <1>4, <1>5, <1>6, MaxNat DEF Counted, Inv, RowsTyped
<1>8. /\ StatusAfter(o, n) \in {"pending"} \union Settled
      /\ StatusAfter(o, n) = "failed" => Tried(e, sends', refused')
  <2>1. CASE o = "accepted"
    BY <2>1 DEF StatusAfter, Settled
  <2>2. CASE o = "rejected"
    BY <2>2 DEF StatusAfter, Settled
  <2>3. CASE o = "unsafe"
    BY <2>3, <1>6 DEF StatusAfter, Settled, Tried
  <2>4. CASE o = "error"
    <3>1. n >= Max => Tried(e, sends', refused')
      BY <1>4, <1>5, <1>7, MaxNat DEF Counted, Tried
    <3> QED
      BY <2>4, <3>1 DEF StatusAfter, Settled, Max
  <2> QED
    BY <2>1, <2>2, <2>3, <2>4 DEF Outcomes
<1> HIDE DEF s, n
<1>9. x \in [status : {"pending"} \union Settled, attempt_count : Counts]
      /\ x.status = StatusAfter(o, n) /\ x.attempt_count = n
  BY <1>4, <1>8
<1> HIDE DEF x
<1>10. /\ t \in BatchOf(es) /\ t.batch = s.batch \ {e} /\ t.dirty = s.dirty \union {e}
       /\ t.locked = s.locked /\ t.event[e] = x
       /\ \A d \in es \ {e} : t.event[d] = s.event[d]
  BY <1>3, <1>9 DEF BatchOf
<1> HIDE DEF t
<1>11. BatchGood(t, es, status, sends', refused')
  <2>1. \A d \in es : Tried(d, sends, refused) => Tried(d, sends', refused')
    BY <1>5, <1>6, MaxNat DEF Tried, Inv, RowsTyped
  <2>2. \A d \in es \ {e} : /\ s.event[d].attempt_count \in Counts
                            /\ Counted(s.event[d].attempt_count, d, sends, refused)
    BY <1>2 DEF BatchGood, BatchOf
  <2>3. \A d \in es \ {e} : Counted(s.event[d].attempt_count, d, sends', refused')
    BY <2>2, <1>5, <1>6, MaxNat DEF Counted, Inv, RowsTyped
  <2>4. \A d \in t.batch : t.event[d].attempt_count < Max /\ t.event[d].status = "pending"
    BY <1>2, <1>10 DEF BatchGood, BatchOf
  <2>5. \A d \in es : Counted(t.event[d].attempt_count, d, sends', refused')
    BY <2>3, <1>7, <1>9, <1>10
  <2>6. \A d \in es : t.event[d].status = "failed" =>
                        Tried(d, sends', refused') \/ (d \in t.dirty /\ status[d] = "deleted")
    BY <2>1, <1>2, <1>8, <1>9, <1>10 DEF BatchGood
  <2>7. t.dirty \cap t.batch = {} /\ (\A d \in es : status[d] # "none")
        /\ \A d \in t.locked : status[d] # "deleted"
    BY <1>2, <1>10 DEF BatchGood
  <2> QED
    BY <1>10, <2>4, <2>5, <2>6, <2>7 DEF BatchGood
<1> QED
  BY <1>1, <1>5, <1>6, <1>11, OwnStep DEF WorkerGood

(* The commit writes counts that were made and outcomes that were reached, *)
(* over whatever another process has written since.                        *)
LEMMA CommitStep ==
  ASSUME Inv, NEW w \in Workers, Commit(w)
  PROVE  Inv'
<1> DEFINE s == worker[w]
<1>1. /\ status' = [e \in Events |->
           IF e \in s.locked THEN Written(status[e], s.event[e]) ELSE status[e]]
      /\ attempt_count' = [e \in Events |->
           IF e \in s.locked THEN s.event[e].attempt_count ELSE attempt_count[e]]
      /\ worker' = [worker EXCEPT ![w] = Idle]
      /\ configs' = configs /\ sends' = sends /\ refused' = refused
      /\ \A e \in s.dirty : status[e] # "deleted"
  BY DEF Commit, history, Vanished
<1>2. PICK es \in SUBSET Events : BatchGood(s, es, status, sends, refused)
  BY Phases DEF Inv, Commit
<1>3. /\ s.locked \subseteq es
      /\ \A e \in es : /\ s.event[e].status \in {"pending"} \union Settled
                       /\ s.event[e].attempt_count \in Counts
                       /\ Counted(s.event[e].attempt_count, e, sends, refused)
                       /\ s.event[e].status = "failed" => Tried(e, sends, refused)
      /\ \A e \in s.locked : status[e] \notin {"none", "deleted"}
  BY <1>1, <1>2 DEF BatchGood, BatchOf
<1> HIDE DEF s
<1>4. RowsTyped'
  BY <1>1, <1>3 DEF Inv, RowsTyped, Written
<1>5. \A e \in Events :
        /\ status'[e] = "failed" => status[e] = "failed" \/ Tried(e, sends, refused)
        /\ status'[e] = "none" <=> status[e] = "none"
        /\ status'[e] = "deleted" <=> status[e] = "deleted"
  BY <1>1, <1>3 DEF Written, Settled
<1>6. RowsGood'
  <2>1. \A e \in Events : Counted(attempt_count'[e], e, sends, refused)
    BY <1>1, <1>3 DEF Inv, RowsGood
  <2> QED
    BY <1>1, <1>5, <2>1 DEF Inv, RowsGood, Gone
<1>7. ASSUME NEW v \in Workers
      PROVE  WorkerGood(worker'[v], status', sends, refused)
  <2>1. CASE v = w
    BY <1>1, <2>1 DEF WorkerGood, Inv, RowsTyped
  <2>2. CASE v # w
    <3>1. WorkerGood(worker[v], status, sends, refused) /\ worker'[v] = worker[v]
      BY <1>1, <2>2 DEF Inv, RowsTyped
    <3>2. sends \in [Events -> Counts] /\ \A e \in Events : sends[e] <= sends[e]
      BY MaxNat DEF Inv, RowsTyped
    <3>3. WorkerGood(worker[v], status', sends, refused)
      BY <1>5, <3>1, <3>2, WorkerStable
    <3> QED
      BY <3>1, <3>3
  <2> QED
    BY <2>1, <2>2
<1> QED
  BY <1>1, <1>4, <1>6, <1>7 DEF Inv

-----------------------------------------------------------------------------
LEMMA InitInv == Init => Inv
<1> SUFFICES ASSUME Init PROVE Inv
  OBVIOUS
<1>1. RowsTyped
  BY MaxNat DEF Init, RowsTyped
<1>2. RowsGood
  BY MaxNat DEF Init, RowsGood, Counted, Gone
<1>3. \A w \in Workers : WorkerGood(worker[w], status, sends, refused)
  BY DEF Init, WorkerGood
<1> QED
  BY <1>1, <1>2, <1>3 DEF Inv

LEMMA StepInv == Inv /\ [Next]_vars => Inv'
<1> SUFFICES ASSUME Inv, [Next]_vars PROVE Inv'
  OBVIOUS
<1>1. ASSUME NEW w \in Workers, StaleData(w) \/ Crash(w) \/ Restart(w) PROVE Inv'
  BY <1>1, StopStep DEF StaleData, Crash, Restart
<1>2. CASE UNCHANGED vars
  BY <1>2 DEF vars, rows, history, Inv, RowsTyped, RowsGood
<1> QED
  BY <1>1, <1>2, EnqueueStep, DeleteConfigStep, WakeStep, FlushStep, CommitStep, DeadlockStep,
     OrphanedStep, DeliverStep DEF Next

LEMMA InvAlways == Spec => []Inv
  BY InitInv, StepInv, PTL DEF Spec

(* Types, and with them the limit: no count exceeds WEBHOOK_MAX_RETRIES,   *)
(* in the table or in a batch (webhooks/delivery.py).                      *)
THEOREM LimitAlways == Spec => []TypeOK
<1>1. Inv => TypeOK
  BY DEF Inv, RowsTyped, TypeOK, WorkerGood, BatchGood
<1> QED
  BY <1>1, InvAlways, PTL

(* No event is given up before WEBHOOK_MAX_RETRIES requests were made for  *)
(* it, unless its url was refused, however many processes, rollbacks and   *)
(* crashes there are (webhooks/delivery.py).                               *)
THEOREM FailedAlwaysTried == Spec => []FailedWasTried
<1>1. Inv => FailedWasTried
  BY DEF Inv, RowsGood, FailedWasTried, Tried, Max
<1> QED
  BY <1>1, InvAlways, PTL

(* What is delivered or failed never goes back to the queue: the commit of *)
(* an older batch leaves the status alone (webhooks/delivery.py).          *)
THEOREM SettledStays == Spec => SettledNeverPending
<1>1. Inv /\ [Next]_vars =>
        [\A e \in Events : status[e] \in Settled => status'[e] # "pending"]_vars
  <2> SUFFICES ASSUME Inv, Next, NEW e \in Events, status[e] \in Settled
               PROVE  status'[e] # "pending"
    OBVIOUS
  <2> USE DEF Inv, RowsTyped, Settled
  <2>1. ASSUME NEW d \in Events, Enqueue(d) PROVE status'[e] # "pending"
    BY <2>1 DEF Enqueue
  <2>2. ASSUME NEW c \in Configs, DeleteConfig(c) PROVE status'[e] # "pending"
    BY <2>2 DEF DeleteConfig
  <2>3. ASSUME NEW w \in Workers, Commit(w) PROVE status'[e] # "pending"
    BY <2>3 DEF Commit, Written
  <2>4. ASSUME NEW w \in Workers,
               \/ Wake(w) \/ Flush(w) \/ StaleData(w) \/ Crash(w) \/ Restart(w)
               \/ \E v \in Workers : Deadlock(w, v)
        PROVE  UNCHANGED rows
    BY <2>4 DEF Wake, Flush, StaleData, Crash, Restart, Deadlock
  <2>5. ASSUME NEW w \in Workers, NEW d \in Events,
               Orphaned(w, d) \/ \E o \in Outcomes : Deliver(w, d, o)
        PROVE  UNCHANGED rows
    BY <2>5 DEF Orphaned, Deliver
  <2>6. CASE UNCHANGED rows
    BY <2>6 DEF rows
  <2> QED
    BY <2>1, <2>2, <2>3, <2>4, <2>5, <2>6 DEF Next
<1> QED
  BY <1>1, InvAlways, PTL DEF Spec, SettledNeverPending
=============================================================================
